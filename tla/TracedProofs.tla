----------------------------- MODULE TracedProofs -----------------------------
(***************************************************************************)
(* Whose kill a traced kill is, on every node that numbers processes as    *)
(* the kernel does or does not use the kernel's numbers for others: for    *)
(* any cgroups, processes, ring buffer and channel, whatever dies, goes    *)
(* and is made again between the probe and the report; and what the names   *)
(* of its cgroup, as the kubelet gives them, make the report say.           *)
(***************************************************************************)
EXTENDS Traced, FiniteSetTheorems, WellFoundedInduction, SequenceTheorems, TLAPS

\* A number under which the probe reports a process is nobody else's in the daemon's /proc.
NumbersAgree ==
    \A n \in Nodes : \A q, r \in Proc : n.visiblePid[r] = KernelPid[q] => r = q

Samples == [pid : Nat, nsPid : Nat, task : Nat, memcg : Nat, chosen : Proc, killed : SUBSET Proc]
Events  == [path : Path \cup {NoPath}, pid : Nat, nsPid : Nat, group : {"unread", "yes", "no"},
            chosen : Proc \cup {Nobody}, killed : SUBSET Proc]

TypedKernel ==
    /\ node \in Nodes /\ faults \in 0 .. MaxFaults
    /\ inode \in [Path -> Nat] /\ lastInode \in 0 .. MaxInode
    /\ \A p \in Path : inode[p] <= lastInode
    /\ started \subseteq Proc /\ alive \subseteq started /\ doomed \subseteq started
    /\ IsFiniteSet(alive)
    /\ \A q \in alive : inode[home[q]] # 0
    /\ ringbuf \in Seq(Samples) /\ Len(ringbuf) <= RingSlots

TypedDetector ==
    /\ pc \in {"reading", "status", "cgroup", "group", "flag", "sending", "stopped"}
    /\ pc \in {"status", "cgroup"} => sample \in Samples
    /\ seen \in Proc \cup {Nobody}
    /\ event \in Events
    /\ pc = "flag" => event.path \in Path
    /\ DOMAIN index \subseteq 1 .. lastInode /\ \A id \in DOMAIN index : index[id] \in Path
    /\ chan \in Seq(Events) /\ Len(chan) <= Buffer
    /\ closed <=> pc = "stopped"

Typed == TypedKernel /\ TypedDetector

\* Who ever had which ID: the cgroups there are, the index and the samples under way go by
\* one assignment of IDs to paths, which only grows.
SampleOwned(s, owner) ==
    /\ s.task \in 1 .. lastInode /\ owner[s.task] = home[s.chosen]
    /\ s.memcg # 0 => s.memcg \in 1 .. lastInode
                      /\ owner[s.memcg] \in {home[s.chosen]} \cup Ancestors[home[s.chosen]]

Owns(owner) ==
    /\ \A p \in Path : inode[p] # 0 => owner[inode[p]] = p
    /\ \A id \in DOMAIN index : owner[id] = index[id]
    /\ \A i \in DOMAIN ringbuf : SampleOwned(ringbuf[i], owner)
    /\ pc \in {"status", "cgroup"} => SampleOwned(sample, owner)

Owned == \E owner \in [1 .. lastInode -> Path \cup {NoPath}] : Owns(owner)

\* What a sample and an event say of the kill is true of it.
KillSound(q, dead) ==
    /\ q \in started /\ dead \subseteq started
    /\ dead = {q} \/ \A r \in dead : Around(home[r]) \cap Grouped # {}

SampleSound(s) ==
    /\ KillSound(s.chosen, s.killed)
    /\ s.pid = KernelPid[s.chosen] /\ s.nsPid = IF nsReadable THEN InnerPid[s.chosen] ELSE 0

EventSound(e) ==
    /\ e.chosen \in Proc /\ KillSound(e.chosen, e.killed)
    /\ e.pid = KernelPid[e.chosen] /\ (nsReadable => e.nsPid = InnerPid[e.chosen])
    /\ e.group = "yes" => e.path \in Grouped
    /\ e.group = "no" /\ e.path \in Grouped => \A r \in e.killed : home[r] = e.path => r \notin alive

Sound ==
    /\ \A i \in DOMAIN ringbuf : SampleSound(ringbuf[i])
    /\ \A i \in DOMAIN chan : EventSound(chan[i])
    /\ pc \in {"status", "cgroup"} => SampleSound(sample)
    /\ pc \in {"group", "flag", "sending"} => EventSound(event)
    /\ pc \notin {"group", "flag", "sending"} => event = NoEvent

\* Where numbers agree, /proc leads to the victim or to nobody, and an event to where it was.
EventPlaced(e) ==
    e.chosen \in Proc =>
        /\ e.path \in {NoPath, home[e.chosen]} \cup Ancestors[home[e.chosen]]
        /\ e.nsPid \in {0, InnerPid[e.chosen]}

Placed ==
    /\ pc = "cgroup" => seen \in {Nobody, sample.chosen}
    /\ EventPlaced(event) /\ \A i \in DOMAIN chan : EventPlaced(chan[i])

TracedInv == Typed /\ Owned /\ Sound /\ (NumbersAgree => Placed)

-----------------------------------------------------------------------------
LEMMA NodeTyped ==
    ASSUME node \in Nodes
    PROVE  home \in [Proc -> Path] /\ visiblePid \in [Proc -> Nat \ {0}] /\ nsReadable \in BOOLEAN
BY EbpfAssumption DEF home, visiblePid, nsReadable

\* The IDs that Init gives out exist: finitely many cgroups can be numbered from 1.
LEMMA NumberingExists ==
    ASSUME NEW present \in SUBSET Path, IsFiniteSet(present)
    PROVE  /\ Cardinality(present) \in Nat
           /\ \E ids \in [Path -> 0 .. Cardinality(present)] :
                 /\ \A p \in Path : ids[p] # 0 <=> p \in present
                 /\ \A p, q \in present : ids[p] = ids[q] => p = q
<1> DEFINE n == Cardinality(present)
<1>1. n \in Nat /\ ExistsBijection(1 .. n, present)
  BY FS_CardinalityType
<1> HIDE DEF n
<1>2. PICK f \in [1 .. n -> present] :
         /\ \A i, j \in 1 .. n : f[i] = f[j] => i = j
         /\ \A p \in present : \E i \in 1 .. n : f[i] = p
  BY <1>1 DEF ExistsBijection, Bijection, Injection, Surjection, IsInjective
<1> DEFINE ids == [p \in Path |-> IF p \in present THEN CHOOSE i \in 1 .. n : f[i] = p ELSE 0]
<1>3. \A p \in present : ids[p] \in 1 .. n /\ f[ids[p]] = p
  BY <1>2
<1>4. \A p \in Path \ present : ids[p] = 0
  OBVIOUS
<1>5. ids \in [Path -> 0 .. n]
  <2>1. \A i \in 1 .. n : i \in 0 .. n
    BY <1>1
  <2>2. 0 \in 0 .. n
    BY <1>1
  <2> QED
    BY <1>3, <2>1, <2>2
<1> HIDE DEF ids
<1>6. /\ \A p \in Path : ids[p] # 0 <=> p \in present
      /\ \A p, q \in present : ids[p] = ids[q] => p = q
  BY <1>1, <1>3, <1>4
<1> QED
  BY <1>1, <1>5, <1>6 DEF n

LEMMA InitOK == Init => TracedInv
<1> SUFFICES ASSUME Init PROVE TracedInv
  OBVIOUS
<1> USE EbpfAssumption
<1>1. PICK present \in SUBSET Path :
        /\ IsFiniteSet(present) /\ Cardinality(present) <= MaxInode
        /\ inode = CHOOSE ids \in [Path -> 0 .. Cardinality(present)] :
                      /\ \A p \in Path : ids[p] # 0 <=> p \in present
                      /\ \A p, q \in present : ids[p] = ids[q] => p = q
        /\ lastInode = Cardinality(present)
  BY DEF Init
<1>2. /\ inode \in [Path -> 0 .. lastInode] /\ lastInode \in Nat /\ lastInode <= MaxInode
      /\ \A p \in Path : inode[p] # 0 <=> p \in present
      /\ \A p, q \in present : inode[p] = inode[q] => p = q
  BY <1>1, NumberingExists
<1> /\ started = {} /\ alive = {} /\ doomed = {} /\ ringbuf = << >>
    /\ node \in Nodes /\ faults = 0 /\ DOMAIN index = {}
    /\ pc = "reading" /\ seen = Nobody /\ event = NoEvent
    /\ chan = << >> /\ closed = FALSE
  BY DEF Init, NoIndex
<1>3. Typed
  <2>1. TypedKernel
    BY <1>2, FS_EmptySet DEF TypedKernel
  <2>2. TypedDetector
    BY DEF TypedDetector, NoEvent, Events
  <2> QED
    BY <2>1, <2>2 DEF Typed
<1>4. Owned
  <2> DEFINE owner == [id \in 1 .. lastInode |->
                         IF \E p \in Path : inode[p] = id THEN CHOOSE p \in Path : inode[p] = id
                         ELSE NoPath]
  <2>1. owner \in [1 .. lastInode -> Path \cup {NoPath}]
    OBVIOUS
  <2>2. \A p \in Path : inode[p] # 0 => owner[inode[p]] = p
    <3> SUFFICES ASSUME NEW p \in Path, inode[p] # 0 PROVE owner[inode[p]] = p
      OBVIOUS
    <3>1. inode[p] \in 1 .. lastInode
      BY <1>2
    <3>2. owner[inode[p]] \in Path /\ inode[owner[inode[p]]] = inode[p]
      BY <3>1
    <3> HIDE DEF owner
    <3> QED
      BY <1>2, <3>2
  <2> HIDE DEF owner
  <2>3. Owns(owner)
    BY <2>2 DEF Owns
  <2> QED
    BY <2>1, <2>3 DEF Owned
<1>5. Sound /\ Placed
  BY DEF Sound, Placed, NoEvent, EventPlaced
<1> QED
  BY <1>3, <1>4, <1>5 DEF TracedInv

-----------------------------------------------------------------------------
\* The kernel.  What it does not touch is the detector's.
Own == <<node, faults, tracing, index, pc, sample, seen, event, chan, closed>>

LEMMA CreateOK == ASSUME TracedInv, NEW p \in Path, CreateCgroup(p) PROVE TracedInv'
<1> USE DEF TracedInv, Typed
<1>1. /\ inode[p] = 0 /\ lastInode < MaxInode
      /\ lastInode' = lastInode + 1 /\ inode' = [inode EXCEPT ![p] = lastInode + 1]
      /\ UNCHANGED <<started, alive, doomed, ringbuf, Own>>
  BY DEF CreateCgroup, Own, work, stream
<1>2. /\ inode' \in [Path -> Nat] /\ inode'[p] = lastInode + 1
      /\ \A q \in Path : q # p => inode'[q] = inode[q]
      /\ lastInode \in Nat /\ lastInode' \in 0 .. MaxInode
  BY <1>1, EbpfAssumption DEF TypedKernel
<1>3. home' = home /\ nsReadable' = nsReadable
  BY <1>1 DEF Own, home, nsReadable
<1>4. Typed'
  <2>1. \A q \in Path : inode'[q] <= lastInode'
    BY <1>1, <1>2 DEF TypedKernel
  <2>2. \A q \in alive : inode'[home[q]] # 0
    BY <1>1, <1>2, NodeTyped DEF TypedKernel
  <2>3. TypedKernel'
    BY <1>1, <1>2, <1>3, <2>1, <2>2 DEF Own, TypedKernel
  <2>4. TypedDetector'
    BY <1>1, <1>2 DEF Own, TypedDetector
  <2> QED
    BY <2>3, <2>4
<1>5. Owned'
  <2>1. PICK owner \in [1 .. lastInode -> Path \cup {NoPath}] : Owns(owner)
    BY DEF Owned
  <2>2. PICK longer \in [1 .. lastInode' -> Path \cup {NoPath}] :
          /\ longer[lastInode + 1] = p
          /\ \A id \in 1 .. lastInode : longer[id] = owner[id] /\ id \in 1 .. lastInode'
    <3> DEFINE l == [id \in 1 .. lastInode + 1 |-> IF id = lastInode + 1 THEN p ELSE owner[id]]
    <3>1. /\ l \in [1 .. lastInode' -> Path \cup {NoPath}] /\ l[lastInode + 1] = p
          /\ \A id \in 1 .. lastInode : l[id] = owner[id] /\ id \in 1 .. lastInode'
      BY <1>1, <1>2
    <3> QED
      BY <3>1
  <2>3. \A q \in Path : inode'[q] # 0 => longer[inode'[q]] = q
    BY <1>2, <2>1, <2>2 DEF Owns, TypedKernel
  <2>4. \A id \in DOMAIN index : longer[id] = index[id]
    BY <2>1, <2>2 DEF Owns, TypedDetector
  <2>5. ASSUME NEW s, SampleOwned(s, owner) PROVE SampleOwned(s, longer)'
    BY <1>3, <2>2, <2>5 DEF SampleOwned
  <2>6. Owns(longer)'
    BY <1>1, <2>1, <2>3, <2>4, <2>5 DEF Own, Owns
  <2> QED
    BY <2>2, <2>6 DEF Owned
<1>6. Sound' /\ (NumbersAgree => Placed')
  BY <1>1, <1>3 DEF Own, Sound, Placed, SampleSound, EventSound, KillSound, EventPlaced
<1> QED
  BY <1>4, <1>5, <1>6

\* Steps that give no ID and look none up.
LEMMA SameOwners ==
    ASSUME Owned, UNCHANGED <<lastInode, node, index, ringbuf>>,
           pc' \in {"status", "cgroup"} => pc \in {"status", "cgroup"} /\ sample' = sample,
           \A p \in Path : inode'[p] # 0 => inode'[p] = inode[p]
    PROVE  Owned'
<1>1. PICK owner \in [1 .. lastInode -> Path \cup {NoPath}] : Owns(owner)
  BY DEF Owned
<1>2. Owns(owner)'
  BY <1>1 DEF Owns, SampleOwned, home
<1> QED
  BY <1>1, <1>2 DEF Owned

LEMMA RemoveOK == ASSUME TracedInv, NEW p \in Path, RemoveCgroup(p) PROVE TracedInv'
<1> USE DEF TracedInv, Typed
<1>1. /\ \A q \in alive : home[q] # p
      /\ inode' = [inode EXCEPT ![p] = 0]
      /\ UNCHANGED <<lastInode, started, alive, doomed, ringbuf, Own>>
  BY DEF RemoveCgroup, Own, work, stream
<1>2. /\ inode' \in [Path -> Nat] /\ inode'[p] = 0
      /\ \A q \in Path : q # p => inode'[q] = inode[q]
  BY <1>1 DEF TypedKernel
<1>3. home' = home /\ nsReadable' = nsReadable
  BY <1>1 DEF Own, home, nsReadable
<1>4. Typed'
  <2>1. \A q \in Path : inode'[q] <= lastInode'
    BY <1>1, <1>2 DEF TypedKernel
  <2>2. \A q \in alive : inode'[home[q]] # 0
    BY <1>1, <1>2, NodeTyped DEF TypedKernel
  <2>3. TypedKernel' /\ TypedDetector'
    BY <1>1, <1>2, <1>3, <2>1, <2>2 DEF Own, TypedKernel, TypedDetector
  <2> QED
    BY <2>3
<1>5. Owned'
  BY <1>1, <1>2, SameOwners DEF Own
<1>6. Sound' /\ (NumbersAgree => Placed')
  BY <1>1, <1>3 DEF Own, Sound, Placed, SampleSound, EventSound, KillSound, EventPlaced
<1> QED
  BY <1>4, <1>5, <1>6

LEMMA ForkDieOK ==
    ASSUME TracedInv, NEW q \in Proc, Fork(q) \/ Die(q)
    PROVE  TracedInv'
<1> USE DEF TracedInv, Typed
<1>1. /\ UNCHANGED <<inode, lastInode, ringbuf, Own>>
      /\ \/ /\ q \notin started /\ inode[home[q]] # 0
            /\ started' = started \cup {q} /\ alive' = alive \cup {q} /\ doomed' = doomed
         \/ started' = started /\ alive' = alive \ {q} /\ doomed' = doomed \ {q}
  BY DEF Fork, Die, Own, work, stream
<1>2. home' = home /\ nsReadable' = nsReadable
  BY <1>1 DEF Own, home, nsReadable
<1>3. /\ started \subseteq started' /\ started' \subseteq Proc /\ alive' \subseteq started'
      /\ doomed' \subseteq started' /\ \A r \in started : r \in alive' => r \in alive
      /\ \A r \in alive' : inode[home[r]] # 0
  BY <1>1 DEF TypedKernel
<1>4. IsFiniteSet(alive')
  BY <1>1, FS_AddElement, FS_RemoveElement, SMTT(20) DEF TypedKernel
<1>5. Typed'
  BY <1>1, <1>2, <1>3, <1>4 DEF Own, TypedKernel, TypedDetector
<1>6. Owned'
  BY <1>1, SameOwners DEF Own
<1>7. Sound'
  <2>1. ASSUME NEW s, SampleSound(s) PROVE SampleSound(s)'
    BY <1>2, <1>3, <2>1 DEF SampleSound, KillSound
  <2>2. ASSUME NEW e, EventSound(e) PROVE EventSound(e)'
    BY <1>2, <1>3, <2>2 DEF EventSound, KillSound
  <2> QED
    BY <1>1, <2>1, <2>2 DEF Own, Sound
<1>8. NumbersAgree => Placed'
  BY <1>1, <1>2 DEF Own, Placed, EventPlaced
<1> QED
  BY <1>5, <1>6, <1>7, <1>8

\* The probe: what it records of a kill is so.
LEMMA SampleIs ==
    ASSUME TracedInv, NEW q \in alive,
           NEW memcg \in {0} \cup {inode[p] : p \in {home[q]} \cup Ancestors[home[q]]}
    PROVE  /\ Sample(q, memcg) \in Samples /\ SampleSound(Sample(q, memcg))
           /\ Victims(q, memcg) \subseteq alive
           /\ \A owner : Owns(owner) => SampleOwned(Sample(q, memcg), owner)
<1> USE DEF TracedInv, Typed, TypedKernel
<1> DEFINE s == Sample(q, memcg)
<1>1. /\ s.pid = KernelPid[q] /\ s.nsPid = (IF nsReadable THEN InnerPid[q] ELSE 0)
      /\ s.task = inode[home[q]] /\ s.memcg = memcg /\ s.chosen = q
      /\ s.killed = Victims(q, memcg)
  BY DEF Sample, TaskCgroup
<1>2. q \in Proc /\ q \in started /\ home[q] \in Path
  BY NodeTyped
<1>3. Victims(q, memcg) \subseteq alive /\ Victims(q, memcg) \subseteq Proc
  BY <1>2 DEF Victims
<1>4. inode[home[q]] \in Nat \ {0} /\ inode[home[q]] \in 1 .. lastInode
  BY <1>2
<1>5. memcg # 0 => \E p \in {home[q]} \cup Ancestors[home[q]] :
                      p \in Path /\ memcg = inode[p] /\ memcg \in 1 .. lastInode
  BY <1>2, EbpfAssumption, SMTT(20)
<1>6. memcg \in Nat
  BY <1>5
<1>7. s \in Samples
  BY <1>2, <1>3, <1>4, <1>6, EbpfAssumption DEF Sample, TaskCgroup, Samples
<1> HIDE DEF s
<1>8. SampleSound(s)
  <2>1. \/ Victims(q, memcg) = {q}
        \/ \A r \in Victims(q, memcg) : Around(home[r]) \cap Grouped # {}
    BY DEF Victims, Groups
  <2> QED
    BY <1>1, <1>2, <1>3, <2>1 DEF SampleSound, KillSound
<1>9. ASSUME NEW owner, Owns(owner) PROVE SampleOwned(s, owner)
  <2>1. owner[s.task] = home[s.chosen]
    BY <1>1, <1>2, <1>4, <1>9 DEF Owns
  <2>2. memcg # 0 => /\ memcg \in 1 .. lastInode
                     /\ owner[memcg] \in {home[q]} \cup Ancestors[home[q]]
    BY <1>5, <1>9 DEF Owns
  <2> QED
    BY <1>1, <1>4, <2>1, <2>2 DEF SampleOwned
<1> QED
  BY <1>3, <1>7, <1>8, <1>9 DEF s

LEMMA OOMKillOK == ASSUME TracedInv, NEW q \in Proc, OOMKill(q) PROVE TracedInv'
<1> USE DEF TracedInv, Typed
<1>1. PICK memcg \in {0} \cup {inode[p] : p \in {home[q]} \cup Ancestors[home[q]]} :
        /\ q \in alive /\ doomed' = doomed \cup Victims(q, memcg)
        /\ ringbuf' = IF tracing /\ Len(ringbuf) < RingSlots
                      THEN Append(ringbuf, Sample(q, memcg)) ELSE ringbuf
        /\ UNCHANGED <<inode, lastInode, started, alive, Own>>
  BY DEF OOMKill, Around, Own, work, stream
<1>2. /\ Sample(q, memcg) \in Samples /\ SampleSound(Sample(q, memcg))
      /\ Victims(q, memcg) \subseteq alive
      /\ \A owner : Owns(owner) => SampleOwned(Sample(q, memcg), owner)
  BY <1>1, SampleIs
<1>3. PICK s \in Samples :
        /\ SampleSound(s) /\ (\A owner : Owns(owner) => SampleOwned(s, owner))
        /\ ringbuf' = ringbuf \/ (Len(ringbuf) < RingSlots /\ ringbuf' = Append(ringbuf, s))
  BY <1>1, <1>2
<1>4. /\ ringbuf' \in Seq(Samples) /\ Len(ringbuf') <= RingSlots
      /\ \A i \in DOMAIN ringbuf' : (i \in DOMAIN ringbuf /\ ringbuf'[i] = ringbuf[i]) \/ ringbuf'[i] = s
  <2>1. CASE ringbuf' = ringbuf
    BY <2>1 DEF TypedKernel
  <2>2. CASE Len(ringbuf) < RingSlots /\ ringbuf' = Append(ringbuf, s)
    <3>1. /\ ringbuf' \in Seq(Samples) /\ Len(ringbuf') = Len(ringbuf) + 1
          /\ \A i \in 1 .. Len(ringbuf) : ringbuf'[i] = ringbuf[i]
          /\ ringbuf'[Len(ringbuf) + 1] = s
      BY <2>2, AppendProperties DEF TypedKernel
    <3>2. Len(ringbuf) \in Nat /\ RingSlots \in Nat
      BY EbpfAssumption DEF TypedKernel
    <3> QED
      BY <2>2, <3>1, <3>2 DEF TypedKernel
  <2> QED
    BY <1>3, <2>1, <2>2
<1>5. home' = home /\ nsReadable' = nsReadable
  BY <1>1 DEF Own, home, nsReadable
<1>6. Typed'
  <2>1. doomed' \subseteq started
    BY <1>1, <1>2 DEF TypedKernel
  <2> QED
    BY <1>1, <1>4, <1>5, <2>1 DEF Own, TypedKernel, TypedDetector
<1>7. Owned'
  <2>1. PICK owner \in [1 .. lastInode -> Path \cup {NoPath}] : Owns(owner)
    BY DEF Owned
  <2>2. \A i \in DOMAIN ringbuf' : SampleOwned(ringbuf'[i], owner)
    BY <1>3, <1>4, <2>1 DEF Owns
  <2>3. Owns(owner)'
    BY <1>1, <1>5, <2>1, <2>2 DEF Own, Owns, SampleOwned
  <2> QED
    BY <1>1, <2>1, <2>3 DEF Owned
<1>8. Sound'
  <2>1. \A i \in DOMAIN ringbuf' : SampleSound(ringbuf'[i])
    BY <1>3, <1>4 DEF Sound
  <2> QED
    BY <1>1, <1>5, <2>1 DEF Own, Sound, SampleSound, EventSound, KillSound
<1>9. NumbersAgree => Placed'
  BY <1>1, <1>5 DEF Own, Placed, EventPlaced
<1> QED
  BY <1>6, <1>7, <1>8, <1>9

LEMMA KernelOK == ASSUME TracedInv, Kernel PROVE TracedInv'
BY CreateOK, RemoveOK, ForkDieOK, OOMKillOK DEF Kernel

-----------------------------------------------------------------------------
\* The detector.  Nothing it does moves the kernel, so that what was true of a sample or
\* an event stays true of it.
Still == <<kernel, node>>

LEMMA StaysTrue ==
    ASSUME UNCHANGED Still
    PROVE  /\ \A s : SampleSound(s) => SampleSound(s)'
           /\ \A e : EventSound(e) => EventSound(e)'
           /\ \A e : EventPlaced(e) => EventPlaced(e)'
           /\ \A s, owner : SampleOwned(s, owner) => SampleOwned(s, owner)'
<1>1. UNCHANGED <<inode, lastInode, started, alive, home, nsReadable>>
  BY DEF Still, kernel, home, nsReadable
<1> QED
  BY <1>1 DEF SampleSound, EventSound, EventPlaced, SampleOwned, KillSound

LEMMA ReadSampleOK == ASSUME TracedInv, ReadSample PROVE TracedInv'
<1> USE DEF TracedInv, Typed
<1>1. /\ pc = "reading" /\ ringbuf # << >> /\ sample' = Head(ringbuf) /\ ringbuf' = Tail(ringbuf)
      /\ pc' = "status" /\ UNCHANGED <<Still, faults, index, seen, event, chan, closed>>
  BY DEF ReadSample, Still, stream
<1>2. /\ 1 \in DOMAIN ringbuf /\ sample' = ringbuf[1] /\ sample' \in Samples
      /\ ringbuf' \in Seq(Samples) /\ Len(ringbuf') = Len(ringbuf) - 1 /\ Len(ringbuf) \in Nat
      /\ \A i \in 1 .. Len(ringbuf') : ringbuf'[i] = ringbuf[i + 1]
  BY <1>1, HeadTailProperties, EmptySeq DEF TypedKernel
<1>3. \A i \in DOMAIN ringbuf' : i + 1 \in DOMAIN ringbuf /\ ringbuf'[i] = ringbuf[i + 1]
  BY <1>2
<1>4. Len(ringbuf') <= RingSlots
  BY <1>2, EbpfAssumption DEF TypedKernel
<1>5. home' = home
  BY <1>1 DEF Still, home
<1>6. Typed'
  BY <1>1, <1>2, <1>4, <1>5 DEF Still, kernel, TypedKernel, TypedDetector
<1>7. Owned'
  <2>1. PICK owner \in [1 .. lastInode -> Path \cup {NoPath}] : Owns(owner)
    BY DEF Owned
  <2>3. SampleOwned(sample', owner)
    BY <1>2, <2>1 DEF Owns
  <2>4. \A i \in DOMAIN ringbuf' : SampleOwned(ringbuf'[i], owner)
    BY <1>3, <2>1 DEF Owns
  <2>5. SampleOwned(sample, owner)'
    BY <1>1, <1>5, <2>3 DEF SampleOwned, Still, kernel
  <2>6. (\A i \in DOMAIN ringbuf : SampleOwned(ringbuf[i], owner))'
    BY <1>1, <1>5, <2>4 DEF SampleOwned, Still, kernel
  <2>7. Owns(owner)'
    BY <1>1, <2>1, <2>5, <2>6 DEF Still, kernel, Owns
  <2> QED
    BY <1>1, <2>1, <2>7 DEF Owned, Still, kernel
<1>8. Sound'
  BY <1>1, <1>2, <1>3, StaysTrue DEF Sound
<1>9. NumbersAgree => Placed'
  BY <1>1, StaysTrue DEF Placed
<1> QED
  BY <1>6, <1>7, <1>8, <1>9

\* /proc leads to whoever has the number there: where numbers agree, the victim.
LEMMA ReadStatusOK == ASSUME TracedInv, ReadStatus PROVE TracedInv'
<1> USE DEF TracedInv, Typed
<1>1. /\ pc = "status" /\ pc' = "cgroup"
      /\ seen' \in {Nobody} \cup {q \in alive : visiblePid[q] = sample.pid}
      /\ UNCHANGED <<Still, ringbuf, faults, index, sample, event, chan, closed>>
  BY DEF ReadStatus, FoundUnder, Visible, Still, stream
<1>2. home' = home
  BY <1>1 DEF Still, home
<1>3. Typed'
  BY <1>1, <1>2 DEF Still, kernel, TypedKernel, TypedDetector
<1>4. Owned'
  BY <1>1, SameOwners DEF Still, kernel
<1>5. Sound'
  BY <1>1, StaysTrue DEF Sound
<1>6. NumbersAgree => Placed'
  <2>1. sample \in Samples /\ sample.chosen \in Proc /\ sample.pid = KernelPid[sample.chosen]
    BY <1>1 DEF TypedDetector, Sound, SampleSound, Samples
  <2>2. NumbersAgree => seen' \in {Nobody, sample.chosen}
    BY <1>1, <2>1 DEF NumbersAgree, visiblePid, TypedKernel
  <2> QED
    BY <1>1, <2>2, StaysTrue DEF Placed
<1> QED
  BY <1>3, <1>4, <1>5, <1>6

\* What is known of the cgroups is so, also after a walk.
LEMMA RefreshedOwned ==
    ASSUME TracedInv, NEW owner, Owns(owner), NEW id, NEW known,
           DOMAIN known \subseteq 1 .. lastInode, \A i \in DOMAIN known : known[i] \in Path,
           \A i \in DOMAIN known : owner[i] = known[i]
    PROVE  /\ DOMAIN Refreshed(id, known) \subseteq 1 .. lastInode
           /\ \A i \in DOMAIN Refreshed(id, known) :
                 Refreshed(id, known)[i] \in Path /\ owner[i] = Refreshed(id, known)[i]
           /\ id # 0 /\ (\E p \in Path : inode[p] = id) => id \in DOMAIN Refreshed(id, known)
<1>1. CASE id = 0 \/ id \in DOMAIN known
  BY <1>1 DEF Refreshed
<1>2. CASE ~ (id = 0 \/ id \in DOMAIN known)
  <2>1. Refreshed(id, known) = Walk
    BY <1>2 DEF Refreshed
  <2>2. /\ DOMAIN Walk = {inode[p] : p \in Path} \ {0}
        /\ \A i \in DOMAIN Walk : Walk[i] = CHOOSE p \in Path : inode[p] = i
    BY DEF Walk
  <2>3. \A i \in DOMAIN Walk : Walk[i] \in Path /\ inode[Walk[i]] = i /\ i # 0
    BY <2>2
  <2>4. \A i \in DOMAIN Walk : owner[i] = Walk[i]
    BY <2>3 DEF Owns
  <2>5. DOMAIN Walk \subseteq 1 .. lastInode
    BY <2>2, EbpfAssumption DEF TracedInv, Typed, TypedKernel
  <2> QED
    BY <2>1, <2>2, <2>3, <2>4, <2>5
<1> QED
  BY <1>1, <1>2

\* ebpf_supported.go enrich and resolveCgroup: the path is where /proc finds the process that was
\* found, or who the index says has, or had, one of the two IDs of the sample.
LEMMA ResolveCgroupIs ==
    ASSUME TracedInv, ResolveCgroup, NEW owner, Owns(owner)
    PROVE  /\ event'.path \in {NoPath, home[sample.chosen]} \cup Ancestors[home[sample.chosen]]
                 \/ (seen \in alive /\ event'.path = home[seen])
           /\ event'.path \in Path \cup {NoPath}
           /\ event'.pid = sample.pid /\ event'.group = "unread"
           /\ event'.nsPid = IF sample.nsPid = 0 /\ seen # Nobody THEN InnerPid[seen] ELSE sample.nsPid
           /\ event'.chosen = sample.chosen /\ event'.killed = sample.killed
           /\ event' \in Events
           /\ DOMAIN index' \subseteq 1 .. lastInode
           /\ \A id \in DOMAIN index' : index'[id] \in Path /\ owner[id] = index'[id]
           /\ faults' \in 0 .. MaxFaults
           /\ faults' = faults /\ inode[home[sample.chosen]] = sample.task =>
                 \/ event'.path = home[sample.chosen]
                 \/ (seen \in alive /\ event'.path = home[seen])
<1> USE DEF TracedInv, Typed
<1>1. PICK walkable \in BOOLEAN :
        LET after(id, known) == IF walkable THEN Refreshed(id, known) ELSE known
            first      == after(sample.task, index)
            second     == after(sample.memcg, first)
            victimPath == IF seen \in alive THEN home[seen] ELSE NoPath
            own        == Lookup(sample.task, first)
            path       == IF victimPath # NoPath THEN victimPath
                          ELSE IF own # NoPath THEN own ELSE Lookup(sample.memcg, second)
        IN  /\ \/ walkable /\ UNCHANGED faults
               \/ ~ walkable /\ faults < MaxFaults /\ faults' = faults + 1
            /\ event' = [path |-> path, pid |-> sample.pid, group |-> "unread",
                         nsPid |-> IF sample.nsPid = 0 /\ seen # Nobody THEN InnerPid[seen]
                                   ELSE sample.nsPid,
                         chosen |-> sample.chosen, killed |-> sample.killed]
            /\ index' = IF victimPath # NoPath THEN index
                        ELSE IF own # NoPath THEN first ELSE second
  BY DEF ResolveCgroup, Preference
<1> DEFINE after(id, known) == IF walkable THEN Refreshed(id, known) ELSE known
           first      == after(sample.task, index)
           second     == after(sample.memcg, first)
           victimPath == IF seen \in alive THEN home[seen] ELSE NoPath
           own        == Lookup(sample.task, first)
           other      == Lookup(sample.memcg, second)
           path       == IF victimPath # NoPath THEN victimPath ELSE IF own # NoPath THEN own ELSE other
<1>2. /\ \/ walkable /\ UNCHANGED faults
         \/ ~ walkable /\ faults < MaxFaults /\ faults' = faults + 1
      /\ event' = [path |-> path, pid |-> sample.pid, group |-> "unread",
                   nsPid |-> IF sample.nsPid = 0 /\ seen # Nobody THEN InnerPid[seen]
                             ELSE sample.nsPid,
                   chosen |-> sample.chosen, killed |-> sample.killed]
      /\ index' = IF victimPath # NoPath THEN index ELSE IF own # NoPath THEN first ELSE second
  BY <1>1
<1>3. /\ pc = "cgroup" /\ sample \in Samples /\ SampleOwned(sample, owner)
      /\ sample.chosen \in Proc /\ home[sample.chosen] \in Path
  BY NodeTyped DEF ResolveCgroup, TypedKernel, TypedDetector, Owns, Samples
<1> DEFINE Kept(known) == /\ DOMAIN known \subseteq 1 .. lastInode
                          /\ \A i \in DOMAIN known : known[i] \in Path /\ owner[i] = known[i]
<1>4. Kept(index)
  BY DEF TypedDetector, Owns
<1>5. Kept(first) /\ (walkable /\ inode[home[sample.chosen]] = sample.task => sample.task \in DOMAIN first)
  <2>1. sample.task \in 1 .. lastInode
    BY <1>3 DEF SampleOwned
  <2>2. sample.task # 0
    BY <2>1
  <2> QED
    BY <1>3, <1>4, <2>2, RefreshedOwned
<1> HIDE DEF first
<1>6. Kept(second)
  BY <1>5, RefreshedOwned
<1> HIDE DEF second
<1>7. own \in {NoPath, home[sample.chosen]} /\ (sample.task \in DOMAIN first => own = home[sample.chosen])
  BY <1>3, <1>5 DEF Lookup, SampleOwned
<1>8. other \in {NoPath, home[sample.chosen]} \cup Ancestors[home[sample.chosen]]
  <2>1. sample.memcg \in DOMAIN second => sample.memcg # 0
    BY <1>6
  <2> QED
    BY <1>3, <1>6, <2>1 DEF Lookup, SampleOwned
<1>9. victimPath = NoPath \/ (seen \in alive /\ victimPath = home[seen])
  OBVIOUS
<1>10. seen \in alive => seen \in Proc /\ home[seen] \in Path /\ home[seen] # NoPath
  BY NodeTyped, EbpfAssumption DEF TypedKernel
<1>11. /\ path \in {NoPath, home[sample.chosen]} \cup Ancestors[home[sample.chosen]]
             \/ (seen \in alive /\ path = home[seen])
       /\ path \in Path \cup {NoPath}
       /\ walkable /\ inode[home[sample.chosen]] = sample.task =>
             path = home[sample.chosen] \/ (seen \in alive /\ path = home[seen])
  BY <1>3, <1>5, <1>7, <1>8, <1>9, <1>10, EbpfAssumption
<1>12. Kept(index')
  BY <1>2, <1>4, <1>5, <1>6
<1>13. faults' \in 0 .. MaxFaults /\ (faults' = faults => walkable)
  BY <1>2, EbpfAssumption DEF TypedKernel
<1> HIDE DEF path
<1>14. /\ event'.path = path /\ event'.pid = sample.pid /\ event'.group = "unread"
       /\ event'.nsPid = IF sample.nsPid = 0 /\ seen # Nobody THEN InnerPid[seen] ELSE sample.nsPid
       /\ event'.chosen = sample.chosen /\ event'.killed = sample.killed
  BY <1>2
<1>15. event' \in Events
  <2>1. (IF sample.nsPid = 0 /\ seen # Nobody THEN InnerPid[seen] ELSE sample.nsPid) \in Nat
    BY <1>3, EbpfAssumption DEF TypedDetector, Samples
  <2> QED
    BY <1>2, <1>3, <1>11, <2>1 DEF Events, Samples
<1> QED
  BY <1>11, <1>12, <1>13, <1>14, <1>15

LEMMA ResolveCgroupOK == ASSUME TracedInv, ResolveCgroup PROVE TracedInv'
<1> USE DEF TracedInv, Typed
<1>1. /\ pc = "cgroup" /\ pc' = "group" /\ seen' = Nobody
      /\ UNCHANGED <<Still, ringbuf, chan, closed>>
  BY DEF ResolveCgroup, Still, stream
<1>2. PICK owner \in [1 .. lastInode -> Path \cup {NoPath}] : Owns(owner)
  BY DEF Owned
<1>3. /\ event'.path \in {NoPath, home[sample.chosen]} \cup Ancestors[home[sample.chosen]]
            \/ (seen \in alive /\ event'.path = home[seen])
      /\ event'.pid = sample.pid /\ event'.group = "unread"
      /\ event'.nsPid = IF sample.nsPid = 0 /\ seen # Nobody THEN InnerPid[seen] ELSE sample.nsPid
      /\ event'.chosen = sample.chosen /\ event'.killed = sample.killed
      /\ event' \in Events
      /\ DOMAIN index' \subseteq 1 .. lastInode
      /\ \A id \in DOMAIN index' : index'[id] \in Path /\ owner[id] = index'[id]
      /\ faults' \in 0 .. MaxFaults
  BY <1>2, ResolveCgroupIs
<1>4. home' = home /\ nsReadable' = nsReadable
  BY <1>1 DEF Still, home, nsReadable
<1>5. sample \in Samples /\ sample.chosen \in Proc /\ SampleSound(sample)
  BY <1>1 DEF TypedDetector, Sound, Samples
<1>6. Typed'
  <2>1. TypedKernel'
    BY <1>1, <1>3, <1>4 DEF Still, kernel, TypedKernel
  <2>2. TypedDetector'
    BY <1>1, <1>3 DEF Still, kernel, TypedDetector
  <2> QED
    BY <2>1, <2>2
<1>7. Owned'
  <2>1. \A i \in DOMAIN ringbuf : SampleOwned(ringbuf[i], owner)
    BY <1>2 DEF Owns
  <2>2. (\A i \in DOMAIN ringbuf : SampleOwned(ringbuf[i], owner))'
    BY <1>1, <1>4, <2>1 DEF SampleOwned, Still, kernel
  <2>3. Owns(owner)'
    BY <1>1, <1>2, <1>3, <2>2 DEF Still, kernel, Owns
  <2> QED
    BY <1>1, <1>2, <2>3 DEF Still, kernel, Owned
<1>8. Sound'
  <2>1. EventSound(event)'
    <3>1. nsReadable => event'.nsPid = InnerPid[event'.chosen]
      BY <1>3, <1>5, EbpfAssumption DEF SampleSound
    <3> QED
      BY <1>1, <1>3, <1>4, <1>5, <3>1 DEF Still, kernel, EventSound, SampleSound, KillSound
  <2> QED
    BY <1>1, <2>1, StaysTrue DEF Sound
<1>9. NumbersAgree => Placed'
  <2> SUFFICES ASSUME NumbersAgree PROVE Placed'
    OBVIOUS
  <2>1. seen \in {Nobody, sample.chosen} /\ Nobody \notin alive
    BY <1>1, EbpfAssumption DEF Placed, TypedKernel
  <2>2. event'.path \in {NoPath, home[sample.chosen]} \cup Ancestors[home[sample.chosen]]
    BY <1>3, <2>1
  <2>3. event'.nsPid \in {0, InnerPid[sample.chosen]}
    BY <1>3, <1>5, <2>1 DEF SampleSound
  <2>4. EventPlaced(event)'
    BY <1>3, <1>4, <2>2, <2>3 DEF EventPlaced
  <2> QED
    BY <1>1, <2>4, StaysTrue DEF Placed
<1> QED
  BY <1>6, <1>7, <1>8, <1>9

\* enrich and ReadOOMGroup: a no in a group means that the group is gone, and its
\* processes with it.
LEMMA GroupOK == ASSUME TracedInv, StatGroup \/ ReadGroup PROVE TracedInv'
<1> USE DEF TracedInv, Typed
<1>1. UNCHANGED <<Still, ringbuf, index, sample, seen, chan, closed>>
  BY DEF StatGroup, ReadGroup, Still, stream
<1>2. home' = home
  BY <1>1 DEF Still, home
<1>3. CASE StatGroup
  <2>1. /\ pc = "group" /\ pc' \in {"flag", "sending"} /\ event' = event /\ faults' = faults
        /\ pc' = "flag" => event.path # NoPath
    BY <1>3 DEF StatGroup
  <2>2. Typed'
    BY <1>1, <1>2, <2>1 DEF Still, kernel, TypedKernel, TypedDetector, Events
  <2>3. Owned'
    BY <1>1, <2>1, SameOwners DEF Still, kernel
  <2>4. Sound' /\ (NumbersAgree => Placed')
    BY <1>1, <2>1, StaysTrue DEF Sound, Placed
  <2> QED
    BY <2>2, <2>3, <2>4
<1>4. CASE ReadGroup
  <2>1. /\ pc = "flag" /\ pc' = "sending" /\ faults' \in 0 .. MaxFaults
        /\ event' = event \/ event' = [event EXCEPT !.group = FlagRead]
    BY <1>4, EbpfAssumption DEF ReadGroup, TypedKernel
  <2>2. event \in Events /\ event.path \in Path /\ EventSound(event)
    BY <2>1 DEF TypedDetector, Sound
  <2>3. /\ event' \in Events /\ event'.group \in {event.group, FlagRead}
        /\ event'.path = event.path /\ event'.pid = event.pid /\ event'.nsPid = event.nsPid
        /\ event'.chosen = event.chosen /\ event'.killed = event.killed
    BY <2>1, <2>2 DEF Events, FlagRead
  <2>4. Typed'
    BY <1>1, <1>2, <2>1, <2>3 DEF Still, kernel, TypedKernel, TypedDetector
  <2>5. Owned'
    BY <1>1, <2>1, SameOwners DEF Still, kernel
  <2>6. EventSound(event)'
    <3>1. event'.group = "yes" => event.path \in Grouped
      BY <2>2, <2>3 DEF EventSound, FlagRead
    <3>2. event'.group = "no" /\ event.path \in Grouped =>
              \A r \in event.killed : home[r] = event.path => r \notin alive
      BY <2>2, <2>3 DEF EventSound, FlagRead, TypedKernel
    <3>3. /\ event.chosen \in Proc /\ KillSound(event.chosen, event.killed)
          /\ event.pid = KernelPid[event.chosen] /\ (nsReadable => event.nsPid = InnerPid[event.chosen])
      BY <2>2 DEF EventSound
    <3>4. UNCHANGED <<home, started, alive, nsReadable>>
      BY <1>1 DEF Still, kernel, home, nsReadable
    <3> QED
      BY <2>3, <3>1, <3>2, <3>3, <3>4 DEF EventSound, KillSound
  <2>7. Sound'
    BY <1>1, <2>1, <2>6, StaysTrue DEF Sound
  <2>8. NumbersAgree => Placed'
    <3>1. EventPlaced(event) => EventPlaced(event)'
      BY <1>2, <2>3 DEF EventPlaced
    <3> QED
      BY <1>1, <2>1, <3>1, StaysTrue DEF Placed
  <2> QED
    BY <2>4, <2>5, <2>7, <2>8
<1> QED
  BY <1>3, <1>4

\* The loop sends, or stops; the daemon takes.
LEMMA StreamOK ==
    ASSUME TracedInv, ReadFails \/ Send \/ GiveUp \/ Close \/ Cancel \/ Handle
    PROVE  TracedInv'
<1> USE DEF TracedInv, Typed
<1>1. UNCHANGED <<Still, ringbuf, index, sample, seen>>
  BY DEF ReadFails, Send, GiveUp, Close, Cancel, Handle, Still, work
<1>2. home' = home
  BY <1>1 DEF Still, home
<1>3. NoEvent \in Events /\ EventPlaced(NoEvent)' /\ event \in Events
  BY EbpfAssumption DEF NoEvent, Events, EventPlaced, TypedDetector
<1>4. faults' \in 0 .. MaxFaults
  BY EbpfAssumption DEF ReadFails, Send, GiveUp, Close, Cancel, Handle, TypedKernel
<1>5. /\ \/ pc' = "stopped" /\ closed' = TRUE /\ event' = NoEvent
         \/ pc' = "reading" /\ pc = "sending" /\ closed' = closed /\ event' = NoEvent
         \/ UNCHANGED <<pc, closed, event>>
      /\ pc' \in {"status", "cgroup"} => pc = pc'
  <2>1. CASE ReadFails
    BY <2>1 DEF ReadFails, Sound
  <2>2. CASE Send \/ GiveUp
    BY <2>2 DEF Send, GiveUp
  <2>3. CASE Close \/ Cancel \/ Handle
    BY <2>3 DEF Close, Cancel, Handle, work, stream
  <2> QED
    BY <2>1, <2>2, <2>3
<1>6. /\ chan' \in Seq(Events) /\ Len(chan') <= Buffer
      /\ \A i \in DOMAIN chan' : \/ chan'[i] = event /\ pc = "sending"
                                 \/ \E j \in DOMAIN chan : chan'[i] = chan[j]
  <2>1. CASE chan' = chan
    BY <2>1 DEF TypedDetector
  <2>2. CASE Send
    <3>1. chan' = Append(chan, event) /\ Len(chan) < Buffer /\ pc = "sending"
      BY <2>2 DEF Send, MaySend
    <3>2. /\ chan' \in Seq(Events) /\ Len(chan') = Len(chan) + 1 /\ Len(chan) \in Nat
          /\ \A i \in 1 .. Len(chan) : chan'[i] = chan[i]
          /\ chan'[Len(chan) + 1] = event
      BY <1>3, <3>1, AppendProperties DEF TypedDetector
    <3>3. Len(chan') <= Buffer
      BY <3>1, <3>2, EbpfAssumption
    <3>4. \A i \in DOMAIN chan' : chan'[i] = event \/ (i \in DOMAIN chan /\ chan'[i] = chan[i])
      BY <3>2 DEF TypedDetector
    <3> QED
      BY <3>1, <3>2, <3>3, <3>4
  <2>3. CASE Handle
    <3>1. chan # << >> /\ chan' = Tail(chan)
      BY <2>3 DEF Handle
    <3>2. /\ Tail(chan) \in Seq(Events) /\ Len(Tail(chan)) = Len(chan) - 1 /\ Len(chan) \in Nat
          /\ \A i \in 1 .. Len(Tail(chan)) : Tail(chan)[i] = chan[i + 1]
      BY <3>1, HeadTailProperties DEF TypedDetector
    <3>3. Len(chan') <= Buffer
      BY <3>1, <3>2, EbpfAssumption DEF TypedDetector
    <3>4. \A i \in DOMAIN Tail(chan) : i + 1 \in DOMAIN chan /\ Tail(chan)[i] = chan[i + 1]
      BY <3>2 DEF TypedDetector
    <3> QED
      BY <3>1, <3>2, <3>3, <3>4
  <2> QED
    BY <2>1, <2>2, <2>3 DEF ReadFails, GiveUp, Close, Cancel, stream
<1>7. event' = event \/ event' = NoEvent
  BY <1>5
<1>8. Typed'
  <2>1. TypedKernel'
    BY <1>1, <1>2, <1>4 DEF Still, kernel, TypedKernel
  <2>2. TypedDetector'
    BY <1>1, <1>3, <1>5, <1>6, <1>7 DEF Still, kernel, TypedDetector
  <2> QED
    BY <2>1, <2>2
<1>9. Owned'
  BY <1>1, <1>5, SameOwners DEF Still, kernel
<1>10. Sound'
  <2>1. \A i \in DOMAIN chan' : EventSound(chan'[i])
    BY <1>6 DEF Sound
  <2> QED
    BY <1>1, <1>5, <2>1, StaysTrue DEF Sound
<1>11. NumbersAgree => Placed'
  <2>1. NumbersAgree => \A i \in DOMAIN chan' : EventPlaced(chan'[i])
    BY <1>6 DEF Placed
  <2> QED
    BY <1>1, <1>3, <1>5, <1>7, <2>1, StaysTrue DEF Placed
<1> QED
  BY <1>8, <1>9, <1>10, <1>11

LEMMA StutterOK == ASSUME TracedInv, UNCHANGED vars PROVE TracedInv'
<1> USE DEF TracedInv
<1>1. UNCHANGED <<Still, ringbuf, index, sample, seen, faults, pc, event, chan, closed>>
  BY DEF vars, Still, work, stream
<1>2. home' = home
  BY <1>1 DEF Still, home
<1>3. Typed' /\ Owned'
  BY <1>1, <1>2, SameOwners DEF Still, kernel, Typed, TypedKernel, TypedDetector
<1>4. Sound' /\ (NumbersAgree => Placed')
  BY <1>1, StaysTrue DEF Sound, Placed
<1> QED
  BY <1>3, <1>4

LEMMA NextOK == TracedInv /\ [Next]_vars => TracedInv'
BY KernelOK, ReadSampleOK, ReadStatusOK, ResolveCgroupOK, GroupOK, StreamOK, StutterOK
   DEF Next, Goroutine

LEMMA TracedInvariant == Spec => []TracedInv
BY InitOK, NextOK, PTL DEF Spec

\* resolveCgroup and loop: cgroups, processes, index and events are what their types say,
\* the ring buffer and the channel never exceed their sizes, and the stream is closed
\* exactly when the loop has stopped.
THEOREM TracedTypeCorrect == Spec => []TypeOK
<1>1. TracedInv => TypeOK
  <2> SUFFICES ASSUME TracedInv PROVE TypeOK
    OBVIOUS
  <2> USE DEF TracedInv, Typed, TypedKernel, TypedDetector
  <2>1. inode \in [Path -> Ids] /\ lastInode \in Ids
    BY EbpfAssumption DEF Ids
  <2>2. DOMAIN index \subseteq Ids \ {0}
    BY EbpfAssumption DEF Ids
  <2>3. \A e \in InFlight : e \in Events
    BY DEF InFlight, Entries
  <2> QED
    BY <2>1, <2>2, <2>3 DEF TypeOK, Events
<1> QED
  BY <1>1, TracedInvariant, PTL

\* resolveCgroup: on a node that numbers as the kernel does or uses none of its numbers, no
\* kill is attributed to a cgroup its victim was not in or below.
THEOREM TracedNeverAnotherCgroup ==
    ASSUME NumbersAgree
    PROVE  Spec => []NeverAnotherCgroup
<1>1. TracedInv => NeverAnotherCgroup
  <2> SUFFICES ASSUME TracedInv, NEW e \in InFlight, e.path # NoPath
               PROVE  e.path \in {home[e.chosen]} \cup Ancestors[home[e.chosen]]
    BY DEF NeverAnotherCgroup, Around
  <2> USE DEF TracedInv
  <2>1. EventPlaced(e)
    BY DEF Placed, InFlight, Entries
  <2>2. e = NoEvent \/ EventSound(e)
    BY DEF Sound, InFlight, Entries, Typed, TypedDetector
  <2>3. e.chosen \in Proc
    BY <2>2 DEF EventSound, NoEvent
  <2> QED
    BY <2>1, <2>3 DEF EventPlaced
<1> QED
  BY <1>1, TracedInvariant, PTL

\* resolveCgroup and cgroupIndex.Path: there, a victim whose cgroup is still what it was when
\* the probe ran is found in it, not in the slice above whose limit broke.
THEOREM TracedTracedToContainer ==
    ASSUME NumbersAgree
    PROVE  Spec => TracedToContainer
<1>1. TracedInv /\ [Next]_vars =>
        (pc = "cgroup" /\ pc' = "group" /\ faults' = faults
             /\ inode[home[sample.chosen]] = sample.task => event'.path = home[sample.chosen])
  <2> SUFFICES ASSUME TracedInv, [Next]_vars, pc = "cgroup", pc' = "group",
                      faults' = faults, inode[home[sample.chosen]] = sample.task
               PROVE  event'.path = home[sample.chosen]
    OBVIOUS
  <2> USE DEF TracedInv
  <2>1. ResolveCgroup
    BY DEF Next, Kernel, CreateCgroup, RemoveCgroup, Fork, Die, OOMKill, Goroutine, ReadSample, ReadFails, ReadStatus,
           StatGroup, ReadGroup, Send, GiveUp, Close, Cancel, Handle, vars, work, stream
  <2>2. PICK owner \in [1 .. lastInode -> Path \cup {NoPath}] : Owns(owner)
    BY DEF Owned
  <2>3. event'.path = home[sample.chosen] \/ (seen \in alive /\ event'.path = home[seen])
    BY <2>1, <2>2, ResolveCgroupIs
  <2>4. seen \in {Nobody, sample.chosen} /\ Nobody \notin alive
    BY EbpfAssumption DEF Placed, Typed, TypedKernel
  <2> QED
    BY <2>3, <2>4
<1> QED
  BY <1>1, TracedInvariant, PTL DEF Spec, TracedToContainer

-----------------------------------------------------------------------------
\* The listing of a report: what ProcessesFrom leaves of a container's processes, in
\* whatever order they are listed.
LEMMA LeastExists ==
    ASSUME NEW T, T \subseteq Nat, T # {}
    PROVE  \E least \in T : \A i \in T : least <= i
<1>1. PICK least \in T : \A i \in T : ~ (<<i, least>> \in OpToRel(<, Nat))
  BY NatLessThanWellFounded, WFMin
<1>2. \A i \in T : ~ (i < least)
  BY <1>1 DEF OpToRel
<1> QED
  BY <1>2

LEMMA RemoveAtIs ==
    ASSUME NEW S, NEW procs \in Seq(S), NEW k \in DOMAIN procs
    PROVE  /\ RemoveAt(procs, k) \in Seq(S)
           /\ \A i \in DOMAIN RemoveAt(procs, k) :
                 \E j \in DOMAIN procs \ {k} : RemoveAt(procs, k)[i] = procs[j]
           /\ \A j \in DOMAIN procs \ {k} :
                 \E i \in DOMAIN RemoveAt(procs, k) : RemoveAt(procs, k)[i] = procs[j]
<1> DEFINE n == Len(procs)
           before == SubSeq(procs, 1, k - 1)
           after  == SubSeq(procs, k + 1, n)
           rest   == before \o after
<1>1. n \in Nat /\ DOMAIN procs = 1 .. n /\ k \in 1 .. n /\ \A i \in 1 .. n : procs[i] \in S
  OBVIOUS
<1>2. /\ before \in Seq(S) /\ Len(before) = k - 1
      /\ \A i \in 1 .. k - 1 : before[i] = procs[i]
  BY <1>1, SubSeqProperties
<1>3. /\ after \in Seq(S) /\ Len(after) = n - k
      /\ \A i \in 1 .. n - k : after[i] = procs[k + i]
  <2>1. \A i \in k + 1 .. n : procs[i] \in S
    BY <1>1
  <2>2. /\ after \in Seq(S) /\ Len(after) = (IF k + 1 <= n THEN n - (k + 1) + 1 ELSE 0)
        /\ \A i \in 1 .. n - (k + 1) + 1 : after[i] = procs[k + 1 + i - 1]
    BY <1>1, <2>1, SubSeqProperties
  <2> HIDE DEF after
  <2>3. (IF k + 1 <= n THEN n - (k + 1) + 1 ELSE 0) = n - k /\ n - (k + 1) + 1 = n - k
    BY <1>1
  <2>4. \A i \in 1 .. n - k : k + 1 + i - 1 = k + i
    BY <1>1
  <2> QED
    BY <2>2, <2>3, <2>4
<1> HIDE DEF n, before, after
<1>4. /\ rest \in Seq(S) /\ Len(rest) = n - 1
      /\ \A i \in 1 .. n - 1 : rest[i] = IF i <= k - 1 THEN procs[i] ELSE procs[i + 1]
  <2>1. /\ rest \in Seq(S) /\ Len(rest) = Len(before) + Len(after)
        /\ \A i \in 1 .. Len(before) + Len(after) :
              rest[i] = IF i <= Len(before) THEN before[i] ELSE after[i - Len(before)]
    BY <1>2, <1>3, ConcatProperties
  <2> HIDE DEF rest
  <2>2. Len(before) + Len(after) = n - 1
    BY <1>1, <1>2, <1>3
  <2>3. /\ rest \in Seq(S) /\ Len(rest) = n - 1
        /\ \A i \in 1 .. n - 1 : rest[i] = IF i <= k - 1 THEN before[i] ELSE after[i - (k - 1)]
    BY <1>2, <2>1, <2>2
  <2>4. ASSUME NEW i \in 1 .. n - 1, ~ (i <= k - 1) PROVE after[i - (k - 1)] = procs[i + 1]
    <3>1. i - (k - 1) \in 1 .. n - k /\ k + (i - (k - 1)) = i + 1
      BY <1>1, <2>4
    <3> QED
      BY <1>3, <3>1
  <2>5. ASSUME NEW i \in 1 .. n - 1, i <= k - 1 PROVE before[i] = procs[i]
    BY <1>1, <1>2, <2>5
  <2> QED
    BY <2>3, <2>4, <2>5
<1>5. RemoveAt(procs, k) = rest
  BY DEF RemoveAt, n, before, after
<1> HIDE DEF rest
<1>6. DOMAIN rest = 1 .. n - 1
  BY <1>4
<1>7. ASSUME NEW j \in DOMAIN procs \ {k} PROVE \E i \in DOMAIN rest : rest[i] = procs[j]
  <2>1. CASE j < k
    BY <1>1, <1>4, <1>6, <2>1
  <2>2. CASE j > k
    <3>1. j - 1 \in 1 .. n - 1 /\ ~ (j - 1 <= k - 1) /\ (j - 1) + 1 = j
      BY <1>1, <2>2
    <3> QED
      BY <1>4, <1>6, <3>1
  <2> QED
    BY <1>1, <2>1, <2>2
<1>8. ASSUME NEW i \in DOMAIN rest PROVE \E j \in DOMAIN procs \ {k} : rest[i] = procs[j]
  <2>1. CASE i <= k - 1
    BY <1>1, <1>4, <1>6, <2>1
  <2>2. CASE ~ (i <= k - 1)
    <3>1. i + 1 \in 1 .. n /\ i + 1 # k
      BY <1>1, <1>6, <2>2
    <3> QED
      BY <1>1, <1>4, <1>6, <2>2, <3>1
  <2> QED
    BY <2>1, <2>2
<1> QED
  BY <1>4, <1>5, <1>7, <1>8

\* ProcessesFrom: either nothing matches and the list is whole, or one that matches is gone.
LEMMA ProcessesFromIs ==
    ASSUME NEW S, NEW procs \in Seq(S), NEW victim, NEW nsMatch,
           nsMatch = UnambiguousNSPid(procs, victim.nsPid)
    PROVE  \/ /\ \A i \in DOMAIN procs : VictimMatch(procs[i], victim, nsMatch) = "none"
              /\ ProcessesFrom(procs, victim) = [listed |-> procs, match |-> "none"]
           \/ \E k \in DOMAIN procs :
                 /\ VictimMatch(procs[k], victim, nsMatch) # "none"
                 /\ ProcessesFrom(procs, victim) =
                      [listed |-> RemoveAt(procs, k),
                       match |-> VictimMatch(procs[k], victim, nsMatch)]
<1> DEFINE match == [i \in DOMAIN procs |-> VictimMatch(procs[i], victim, nsMatch)]
           hits  == {i \in DOMAIN procs : match[i] # "none"}
           first == CHOOSE i \in hits : \A j \in hits : i <= j
<1>1. ProcessesFrom(procs, victim) =
        IF hits = {} THEN [listed |-> procs, match |-> "none"]
        ELSE [listed |-> RemoveAt(procs, first), match |-> match[first]]
  BY DEF ProcessesFrom
<1>2. hits # {} => first \in hits
  <2>1. hits \subseteq Nat
    OBVIOUS
  <2> HIDE DEF hits
  <2> QED
    BY <2>1, LeastExists
<1> HIDE DEF first
<1> QED
  BY <1>1, <1>2

\* A set is listed in any order, each element once.
LEMMA OrderIs ==
    ASSUME NEW S, IsFiniteSet(S), NEW order \in SetToSeqs(S)
    PROVE  /\ order \in Seq(S) /\ Len(order) \in Nat /\ DOMAIN order = 1 .. Len(order)
           /\ \A i, j \in DOMAIN order : order[i] = order[j] => i = j
           /\ \A q \in S : \E i \in DOMAIN order : order[i] = q
<1> DEFINE n == Cardinality(S)
<1>1. n \in Nat
  BY FS_CardinalityType
<1>2. order \in [1 .. n -> S] /\ \A i, j \in 1 .. n : i # j => order[i] # order[j]
  <2>1. SetToSeqs(S) =
          {f \in [1 .. Cardinality(S) -> S] :
              \A i, j \in 1 .. Cardinality(S) : i # j => f[i] # f[j]}
    BY DEF SetToSeqs
  <2> QED
    BY <2>1
<1>3. IsFiniteSet(1 .. n) /\ Cardinality(1 .. n) = n
  <2>1. IsFiniteSet(1 .. n) /\ Cardinality(1 .. n) = IF 1 > n THEN 0 ELSE n - 1 + 1
    BY <1>1, FS_Interval
  <2> QED
    BY <1>1, <2>1
<1>4. order \in Injection(1 .. n, S)
  BY <1>2 DEF Injection, IsInjective
<1>5. order \in Surjection(1 .. n, S)
  BY <1>3, <1>4, FS_Injection
<1> HIDE DEF n
<1>6. order \in Seq(S) /\ Len(order) = n
  BY <1>1, <1>2
<1> QED
  BY <1>1, <1>2, <1>5, <1>6 DEF Surjection

\* Which of the processes of a container match the victim of e, and how.
MatchOf(q, e) ==
    VictimMatch(Entry(q), [pid |-> e.pid, nsPid |-> e.nsPid],
                e.nsPid # 0 /\ \E r \in Members(e.path) :
                    \A t \in Members(e.path) : InnerPid[t] = e.nsPid <=> t = r)

LEMMA ListingIs ==
    ASSUME TracedInv, NEW e, NEW listing \in Listings(e)
    PROVE  /\ listing.listed \in Seq({Entry(q) : q \in Members(e.path)})
           /\ Listed(listing) \subseteq Members(e.path)
           /\ \/ /\ \A q \in Members(e.path) : MatchOf(q, e) = "none"
                 /\ listing.match = "none" /\ Listed(listing) = Members(e.path)
              \/ \E q \in Members(e.path) :
                    /\ MatchOf(q, e) # "none"
                    /\ listing.match = MatchOf(q, e) /\ Listed(listing) = Members(e.path) \ {q}
<1> USE DEF TracedInv, Typed, TypedKernel
<1> DEFINE M == Members(e.path)
           victim == [pid |-> e.pid, nsPid |-> e.nsPid]
<1>1. M \subseteq Proc /\ IsFiniteSet(M)
  BY FS_Subset DEF Members
<1>2. PICK order \in SetToSeqs(M) :
        listing = ProcessesFrom([i \in DOMAIN order |-> Entry(order[i])], victim)
  BY DEF Listings
<1> HIDE DEF M
<1> DEFINE S == {Entry(q) : q \in M}
           procs == [i \in DOMAIN order |-> Entry(order[i])]
           nsMatch == UnambiguousNSPid(procs, e.nsPid)
<1>3. /\ order \in Seq(M) /\ Len(order) \in Nat /\ DOMAIN order = 1 .. Len(order)
      /\ \A i, j \in DOMAIN order : order[i] = order[j] => i = j
      /\ \A q \in M : \E i \in DOMAIN order : order[i] = q
  BY <1>1, OrderIs
<1>4. \A i \in DOMAIN order : order[i] \in M
  BY <1>3
<1>5. /\ procs \in Seq(S) /\ DOMAIN procs = DOMAIN order
      /\ \A i \in DOMAIN order : procs[i] = Entry(order[i])
  BY <1>3, <1>4
<1>6. \A q \in M : /\ Entry(q).pid = visiblePid[q] /\ Entry(q).nsPid = InnerPid[q]
                   /\ Entry(q).who = q
  <2> SUFFICES ASSUME NEW q \in M PROVE Entry(q).nsPid = InnerPid[q]
    BY DEF Entry
  <2>1. InnerPid[q] # 0 /\ q \in Proc
    BY <1>1, EbpfAssumption
  <2>2. CASE InnerPid[q] = visiblePid[q]
    BY <2>2 DEF Entry, StatusFile, NSPidOf
  <2>3. CASE InnerPid[q] # visiblePid[q]
    <3>1. Last(<<visiblePid[q], InnerPid[q]>>) = InnerPid[q]
      BY DEF Last
    <3> QED
      BY <2>1, <2>3, <3>1 DEF Entry, StatusFile, NSPidOf
  <2> QED
    BY <2>2, <2>3
<1> HIDE DEF procs, S
<1>7. nsMatch = (e.nsPid # 0 /\ \E r \in M : \A t \in M : InnerPid[t] = e.nsPid <=> t = r)
  <2> DEFINE same == {i \in DOMAIN procs : procs[i].nsPid = e.nsPid}
  <2>1. IsFiniteSet(same)
    <3>1. IsFiniteSet(1 .. Len(order))
      BY <1>3, FS_Interval
    <3>2. same \subseteq 1 .. Len(order)
      BY <1>3, <1>5
    <3> HIDE DEF same
    <3> QED
      BY <3>1, <3>2, FS_Subset
  <2>2. \A i \in DOMAIN order : i \in same <=> InnerPid[order[i]] = e.nsPid
    BY <1>4, <1>5, <1>6
  <2>3. same \subseteq DOMAIN order
    BY <1>5
  <2>4. nsMatch = (e.nsPid # 0 /\ Cardinality(same) = 1)
    BY DEF UnambiguousNSPid
  <2> HIDE DEF same, nsMatch
  <2>5. Cardinality(same) = 1 <=> \E x : same = {x}
    BY <2>1, FS_Singleton
  <2>6. ASSUME NEW x, same = {x} PROVE \E r \in M : \A t \in M : InnerPid[t] = e.nsPid <=> t = r
    <3>1. x \in DOMAIN order /\ order[x] \in M
      BY <1>4, <2>3, <2>6
    <3>2. ASSUME NEW t \in M PROVE InnerPid[t] = e.nsPid <=> t = order[x]
      BY <1>3, <2>2, <2>6, <3>1
    <3> QED
      BY <3>1, <3>2
  <2>7. ASSUME NEW r \in M, \A t \in M : InnerPid[t] = e.nsPid <=> t = r PROVE \E x : same = {x}
    <3>1. PICK x \in DOMAIN order : order[x] = r
      BY <1>3
    <3>2. \A i \in DOMAIN order : i \in same <=> i = x
      BY <1>3, <1>4, <2>2, <2>7, <3>1
    <3>3. same = {x}
      BY <2>3, <3>1, <3>2
    <3> QED
      BY <3>3
  <2> QED
    BY <2>4, <2>5, <2>6, <2>7
<1>8. \A i \in DOMAIN procs : VictimMatch(procs[i], victim, nsMatch) = MatchOf(order[i], e)
  BY <1>5, <1>7 DEF MatchOf, M
<1>9. \/ /\ \A i \in DOMAIN procs : VictimMatch(procs[i], victim, nsMatch) = "none"
         /\ listing = [listed |-> procs, match |-> "none"]
      \/ \E k \in DOMAIN procs :
            /\ VictimMatch(procs[k], victim, nsMatch) # "none"
            /\ listing = [listed |-> RemoveAt(procs, k),
                          match |-> VictimMatch(procs[k], victim, nsMatch)]
  <2>1. nsMatch = UnambiguousNSPid(procs, victim.nsPid)
    OBVIOUS
  <2>2. listing = ProcessesFrom(procs, victim)
    BY <1>2 DEF procs
  <2> HIDE DEF nsMatch, victim
  <2> QED
    BY <1>5, <2>1, <2>2, ProcessesFromIs
<1> HIDE DEF nsMatch, victim
<1>10. CASE /\ \A i \in DOMAIN procs : VictimMatch(procs[i], victim, nsMatch) = "none"
            /\ listing = [listed |-> procs, match |-> "none"]
  <2>1. listing.listed = procs /\ listing.match = "none"
    BY <1>10
  <2>2. Listed(listing) = M
    <3>1. \A i \in DOMAIN order : procs[i].who = order[i] /\ order[i] \in M
      BY <1>4, <1>5, <1>6
    <3>2. Listed(listing) = {procs[i].who : i \in DOMAIN order}
      BY <1>5, <2>1 DEF Listed
    <3> QED
      BY <1>3, <3>1, <3>2
  <2>3. \A q \in M : MatchOf(q, e) = "none"
    BY <1>3, <1>5, <1>8, <1>10
  <2> QED
    BY <1>5, <2>1, <2>2, <2>3 DEF M, S
<1>11. ASSUME NEW k \in DOMAIN procs, VictimMatch(procs[k], victim, nsMatch) # "none",
              listing = [listed |-> RemoveAt(procs, k),
                         match |-> VictimMatch(procs[k], victim, nsMatch)]
       PROVE  /\ listing.listed \in Seq(S) /\ order[k] \in M
              /\ MatchOf(order[k], e) # "none" /\ listing.match = MatchOf(order[k], e)
              /\ Listed(listing) = M \ {order[k]}
  <2>1. listing.listed = RemoveAt(procs, k) /\ listing.match = MatchOf(order[k], e)
    BY <1>8, <1>11
  <2>2. /\ RemoveAt(procs, k) \in Seq(S)
        /\ \A i \in DOMAIN RemoveAt(procs, k) :
              \E j \in DOMAIN procs \ {k} : RemoveAt(procs, k)[i] = procs[j]
        /\ \A j \in DOMAIN procs \ {k} :
              \E i \in DOMAIN RemoveAt(procs, k) : RemoveAt(procs, k)[i] = procs[j]
    BY <1>5, RemoveAtIs
  <2>3. \A j \in DOMAIN procs : procs[j].who = order[j]
    BY <1>4, <1>5, <1>6
  <2>4. Listed(listing) = {order[j] : j \in DOMAIN procs \ {k}}
    <3> DEFINE l == listing.listed
    <3>1. \A i \in DOMAIN l : \E j \in DOMAIN procs \ {k} : l[i].who = order[j]
      BY <2>1, <2>2, <2>3
    <3>2. \A j \in DOMAIN procs \ {k} : \E i \in DOMAIN l : l[i].who = order[j]
      BY <2>1, <2>2, <2>3
    <3> QED
      BY <3>1, <3>2 DEF Listed
  <2>5. {order[j] : j \in DOMAIN procs \ {k}} = M \ {order[k]}
    BY <1>3, <1>4, <1>5
  <2> QED
    BY <1>4, <1>5, <1>8, <1>11, <2>1, <2>2, <2>4, <2>5
<1> QED
  BY <1>9, <1>10, <1>11 DEF M, S

\* A match by either number is the victim, where numbers agree and the container has it.
LEMMA MatchIsVictim ==
    ASSUME NumbersAgree, TracedInv, NEW e, e \in Events, EventSound(e), EventPlaced(e),
           e.chosen \in Members(e.path), NEW q \in Members(e.path), MatchOf(q, e) # "none"
    PROVE  q = e.chosen
<1> USE DEF TracedInv, Typed, TypedKernel
<1> DEFINE unique == \E r \in Members(e.path) :
                        \A t \in Members(e.path) : InnerPid[t] = e.nsPid <=> t = r
<1>1. q \in Proc /\ e.chosen \in Proc
  BY DEF Members
<1>2. Entry(q).pid = visiblePid[q] /\ Entry(q).nsPid = InnerPid[q]
  <2>1. Last(<<visiblePid[q], InnerPid[q]>>) = InnerPid[q]
    BY DEF Last
  <2> QED
    BY <1>1, <2>1, EbpfAssumption DEF Entry, StatusFile, NSPidOf
<1>3. \/ visiblePid[q] = e.pid
      \/ e.nsPid # 0 /\ unique /\ InnerPid[q] = e.nsPid
  BY <1>2 DEF MatchOf, VictimMatch
<1>4. CASE visiblePid[q] = e.pid
  BY <1>1, <1>4 DEF EventSound, NumbersAgree, visiblePid
<1>5. CASE e.nsPid # 0 /\ unique /\ InnerPid[q] = e.nsPid
  BY <1>1, <1>5 DEF EventPlaced
<1> QED
  BY <1>3, <1>4, <1>5

\* report.go ProcessesFrom: on a node that numbers as the kernel does or uses none of its
\* numbers, only the victim ever leaves the listing, and it stays only under another number
\* and with a PID in the container that is not known or not its alone.
THEOREM TracedVictimLeavesListing ==
    ASSUME NumbersAgree
    PROVE  Spec => []VictimLeavesListing
<1>1. TracedInv => VictimLeavesListing
  <2> SUFFICES ASSUME TracedInv, NEW e \in Entries(chan), e.chosen \in Members(e.path),
                      NEW listing \in Listings(e)
               PROVE  /\ Members(e.path) \ Listed(listing) \subseteq {e.chosen}
                      /\ e.chosen \in Listed(listing) =>
                            /\ listing.match = "none" /\ visiblePid[e.chosen] # e.pid
                            /\ ~ nsReadable \/ \E r \in Members(e.path) : Twin(e.chosen, r)
    BY DEF VictimLeavesListing
  <2>1. e \in Events /\ EventSound(e) /\ EventPlaced(e)
    BY DEF TracedInv, Typed, TypedDetector, Sound, Placed, Entries
  <2>2. \A q \in Members(e.path) : MatchOf(q, e) # "none" => q = e.chosen
    BY <2>1, MatchIsVictim
  <2>3. Members(e.path) \ Listed(listing) \subseteq {e.chosen}
    BY <2>2, ListingIs
  <2>4. ASSUME e.chosen \in Listed(listing)
        PROVE  /\ listing.match = "none" /\ visiblePid[e.chosen] # e.pid
               /\ ~ nsReadable \/ \E r \in Members(e.path) : Twin(e.chosen, r)
    <3>1. listing.match = "none" /\ MatchOf(e.chosen, e) = "none"
      BY <2>2, <2>4, ListingIs
    <3>2. e.chosen \in Proc /\ e.pid = KernelPid[e.chosen] /\ e.pid # 0
      BY <2>1, EbpfAssumption DEF EventSound
    <3>3. Entry(e.chosen).pid = visiblePid[e.chosen] /\ Entry(e.chosen).nsPid = InnerPid[e.chosen]
      <4>1. Last(<<visiblePid[e.chosen], InnerPid[e.chosen]>>) = InnerPid[e.chosen]
        BY DEF Last
      <4> QED
        BY <3>2, <4>1, EbpfAssumption DEF Entry, StatusFile, NSPidOf
    <3>4. visiblePid[e.chosen] # e.pid
      BY <3>1, <3>2, <3>3 DEF MatchOf, VictimMatch
    <3>5. ASSUME nsReadable PROVE \E r \in Members(e.path) : Twin(e.chosen, r)
      <4>1. e.nsPid = InnerPid[e.chosen] /\ e.nsPid # 0
        BY <2>1, <3>2, <3>5, EbpfAssumption DEF EventSound
      <4>2. ~ \A t \in Members(e.path) : InnerPid[t] = e.nsPid <=> t = e.chosen
        BY <3>1, <3>3, <3>4, <4>1 DEF MatchOf, VictimMatch
      <4> QED
        BY <4>1, <4>2 DEF Twin
    <3> QED
      BY <3>1, <3>4, <3>5
  <2> QED
    BY <2>3, <2>4
<1> QED
  BY <1>1, TracedInvariant, PTL

\* writeProcesses prints entries of the listing, all of it or its first rows.
LEMMA PrintedIsListed ==
    ASSUME NEW S, NEW listing, listing.listed \in Seq(S), NEW flag, NEW known
    PROVE  Printed(ProcessesText(listing, flag, known)) \subseteq Listed(listing)
<1> DEFINE l == listing.listed
           n == Len(l)
           rows == ProcessesText(listing, flag, known).rows
<1>1. n \in Nat /\ DOMAIN l = 1 .. n /\ \A i \in 1 .. n : l[i] \in S
  OBVIOUS
<1>2. \/ rows = << >> \/ rows = l
      \/ n > MaxProcesses /\ rows = SubSeq(l, 1, MaxProcesses)
  BY DEF ProcessesText
<1>3. ASSUME n > MaxProcesses, rows = SubSeq(l, 1, MaxProcesses)
      PROVE  \A i \in DOMAIN rows : i \in DOMAIN l /\ rows[i] = l[i]
  <2>1. \A i \in 1 .. MaxProcesses : l[i] \in S /\ i \in 1 .. n
    BY <1>1, <1>3, TextAssumption
  <2>2. /\ SubSeq(l, 1, MaxProcesses) \in Seq(S)
        /\ Len(SubSeq(l, 1, MaxProcesses)) = (IF 1 <= MaxProcesses THEN MaxProcesses - 1 + 1 ELSE 0)
        /\ \A i \in 1 .. MaxProcesses - 1 + 1 : SubSeq(l, 1, MaxProcesses)[i] = l[1 + i - 1]
    BY <2>1, TextAssumption, SubSeqProperties
  <2> HIDE DEF rows, n
  <2>3. DOMAIN rows = 1 .. MaxProcesses
    BY <1>3, <2>2, TextAssumption
  <2>4. MaxProcesses - 1 + 1 = MaxProcesses /\ \A i \in 1 .. MaxProcesses : 1 + i - 1 = i
    BY TextAssumption
  <2> QED
    BY <1>1, <1>3, <2>1, <2>2, <2>3, <2>4
<1> HIDE DEF rows, n
<1>4. \A i \in DOMAIN rows : i \in DOMAIN l /\ rows[i] = l[i]
  BY <1>2, <1>3
<1> QED
  BY <1>4 DEF Printed, Listed, rows

\* text.go writeProcesses with daemon.go applyGroupKill: there, whatever dies, is torn down or
\* made again before the report is built, processes it calls survivors were not killed, unless
\* a cgroup above theirs is in a group; a teardown is spoken of in a group only, and a victim
\* that is printed is warned of.
THEOREM TracedSurvivorsSurvived ==
    ASSUME NumbersAgree
    PROVE  Spec => []SurvivorsSurvived
<1>1. TracedInv => SurvivorsSurvived
  <2> SUFFICES ASSUME TracedInv, NEW e \in Entries(chan), NEW text \in Texts(e)
               PROVE  /\ text.claim = "survivors" /\ HighestOfItsGroup(e.path)
                            => Printed(text) \cap e.killed \subseteq {e.chosen}
                      /\ text.claim = "teardown" => e.path \in Grouped
                      /\ e.chosen \in Printed(text) => text.warned
    BY DEF SurvivorsSurvived
  <2> PICK listing \in Listings(e), flag \in FlagsOf(e) : text = ProcessesText(listing, flag, TRUE)
    BY DEF Texts
  <2> USE DEF TracedInv, Typed
  <2>1. e \in Events /\ EventSound(e) /\ EventPlaced(e)
    BY DEF TypedDetector, Sound, Placed, Entries
  <2>2. Printed(text) \subseteq Listed(listing) /\ Listed(listing) \subseteq Members(e.path)
    BY ListingIs, PrintedIsListed
  <2>3. text.claim # "none" => text.claim = Claim(flag) /\ text.warned = (listing.match = "none")
    BY DEF ProcessesText
  <2>4. text.claim = "none" => Printed(text) = {}
    BY DEF ProcessesText, Claim, Printed
  <2>5. /\ flag \in {"unread", "yes", "no"}
        /\ flag = "yes" => e.path \in Grouped
        /\ flag = "no" => e.group = "no" \/ e.path \notin Grouped
    BY <2>1 DEF FlagsOf, EventSound, Events
  <2>6. ASSUME text.claim = "survivors", HighestOfItsGroup(e.path), NEW r \in Printed(text), r \in e.killed
        PROVE  r = e.chosen
    <3>1. flag = "no"
      BY <2>3, <2>5, <2>6 DEF Claim
    <3>2. r \in alive /\ home[r] = e.path
      BY <2>2, <2>6 DEF Members
    <3>3. e.path \notin Grouped
      BY <2>1, <2>5, <2>6, <3>1, <3>2 DEF EventSound
    <3> QED
      BY <2>1, <2>6, <3>2, <3>3 DEF EventSound, KillSound, HighestOfItsGroup, Around
  <2>7. text.claim = "teardown" => e.path \in Grouped
    BY <2>3, <2>5 DEF Claim
  <2>8. ASSUME e.chosen \in Printed(text) PROVE text.warned
    <3>1. e.chosen \in Listed(listing) /\ e.chosen \in Members(e.path)
      BY <2>2, <2>8
    <3>2. \A q \in Members(e.path) : MatchOf(q, e) # "none" => q = e.chosen
      BY <2>1, <3>1, MatchIsVictim
    <3>3. listing.match = "none"
      BY <3>1, <3>2, ListingIs
    <3> QED
      BY <2>3, <2>4, <2>8, <3>3
  <2> QED
    BY <2>6, <2>7, <2>8
<1> QED
  BY <1>1, TracedInvariant, PTL

-----------------------------------------------------------------------------
\* The names that the kubelet and the runtimes give cgroups.  A UID and an ID are none of
\* the words they are put together with.
Tiers == {"burstable", "besteffort"}
Words == Tiers \cup {"kubepods", "-", "-pod", "pod", ".slice", ".scope", ".service"}

Drivers == {"systemd", "cgroupfs"}

Segment == Seq(STRING) \ {<< >>}

\* Part of a cgroup root that the kubelet was given: it names no pod and no tier.
Plain(segment, n) == \A i \in 1 .. n : segment[i] \notin Tiers \cup {"pod", "-pod"}

\* kubepods, or kubepods.slice, perhaps below or behind the name of a cgroup root.
RootDir(segment, driver) ==
    LET n == Len(segment) IN
    \/ driver = "cgroupfs" /\ segment = <<"kubepods">>
    \/ /\ driver = "systemd" /\ n >= 2 /\ Plain(segment, n - 2)
       /\ segment[n - 1] = "kubepods" /\ segment[n] = ".slice"

\* burstable, or kubepods-burstable.slice.
TierDir(segment, tier, driver) ==
    LET n == Len(segment) IN
    \/ driver = "cgroupfs" /\ segment = <<tier>>
    \/ /\ driver = "systemd" /\ n >= 4 /\ Plain(segment, n - 4)
       /\ segment[n - 3] = "kubepods" /\ segment[n - 2] = "-"
       /\ segment[n - 1] = tier /\ segment[n] = ".slice"

\* pod<uid>, or kubepods-burstable-pod<uid>.slice with the UID as systemd spells it.
PodDir(segment, uid, driver) ==
    LET n == Len(segment) IN
    \/ driver = "cgroupfs" /\ \E u \in STRING \ Words : segment = <<"pod", u>> /\ uid = <<u>>
    \/ /\ driver = "systemd" /\ n >= 3 /\ segment[n - 2] = "-pod" /\ segment[n] = ".slice"
       /\ segment[n - 1] \notin Words /\ uid = Unescaped(<<segment[n - 1]>>)

\* <id>, or cri-containerd-<id>.scope.
ContainerDir(segment, id, runtime, driver) ==
    \E i \in STRING \ Words :
        /\ id = <<i>>
        /\ \/ driver = "cgroupfs" /\ segment = <<i>> /\ runtime = "unknown"
           \/ /\ driver = "systemd"
              /\ \E prefix \in DOMAIN RuntimeOf \cap STRING :
                    segment = <<prefix, i, ".scope">> /\ runtime = RuntimeOf[prefix]

\* The first n segments are the kubelet's tree as far as the pods of this tier.
TreeOf(path, n, qos, driver) ==
    \E k \in 1 .. n :
        /\ \A i \in 1 .. k - 1 : Plain(path[i], Len(path[i]))
        /\ RootDir(path[k], driver)
        /\ \/ qos = "guaranteed" /\ n = k
           \/ qos \in Tiers /\ n = k + 1 /\ TierDir(path[n], qos, driver)

Scopes == [kind : {"pod", "container"}, uid : Seq(STRING), id : Seq(STRING), runtime : STRING,
           driver : Drivers, qos : Tiers \cup {"guaranteed"}]

\* The path of the cgroup of a pod or a container.
Encodes(path, scope) ==
    /\ path \in Seq(Segment) /\ scope \in Scopes
    /\ \E n \in 1 .. Len(path) :
         /\ TreeOf(path, n, scope.qos, scope.driver)
         /\ \/ /\ scope.kind = "pod" /\ Len(path) = n + 1
               /\ PodDir(path[n + 1], scope.uid, scope.driver)
               /\ scope.id = << >> /\ scope.runtime = "unknown"
            \/ /\ scope.kind = "container" /\ Len(path) = n + 2
               /\ PodDir(path[n + 1], scope.uid, scope.driver)
               /\ ContainerDir(path[n + 2], scope.id, scope.runtime, scope.driver)

\* The path of a cgroup of neither: above the pods, or elsewhere and not below what looks
\* like a pod.
Outside(path) ==
    /\ path \in Seq(Segment) \ {<< >>}
    /\ \/ \E qos \in Tiers \cup {"guaranteed"}, driver \in Drivers :
             TreeOf(path, Len(path), qos, driver)
       \/ /\ ~ InKubepodsTree(path)
          /\ Len(path) > 1 => Plain(path[Len(path) - 1], Len(path[Len(path) - 1]))

LEMMA FrontIs ==
    ASSUME NEW s \in Segment
    PROVE  /\ Len(s) \in Nat \ {0} /\ DOMAIN s = 1 .. Len(s)
           /\ Front(s) \in Seq(STRING) /\ Len(Front(s)) = Len(s) - 1
           /\ DOMAIN Front(s) = 1 .. Len(s) - 1
           /\ \A i \in 1 .. Len(s) - 1 : Front(s)[i] = s[i]
           /\ Last(s) = s[Len(s)] /\ Head(s) = s[1]
<1>1. s \in Seq(STRING) /\ Len(s) \in Nat /\ DOMAIN s = 1 .. Len(s) /\ s # << >>
  BY LenProperties DEF Segment
<1>2. Len(s) # 0
  BY <1>1, EmptySeq
<1>3. Len(s) - 1 \in 0 .. Len(s) /\ 1 \in 1 .. Len(s) + 1 /\ Len(s) - 1 - 1 + 1 = Len(s) - 1
  BY <1>1, <1>2
<1>4. \A i \in 1 .. Len(s) - 1 : s[i] \in STRING
  BY <1>1, <1>3
<1>5. PICK n \in Nat : n = Len(s) - 1
  <2>1. Len(s) - 1 \in Nat
    BY <1>1, <1>2
  <2> QED
    BY <2>1
<1>6. /\ SubSeq(s, 1, n) \in Seq(STRING)
      /\ Len(SubSeq(s, 1, n)) = n
      /\ \A i \in 1 .. n : SubSeq(s, 1, n)[i] = s[i]
  <2>1. \A i \in 1 .. n : s[i] \in STRING
    BY <1>4, <1>5
  <2>2. 1 \in Int /\ n \in Int /\ n - 1 + 1 = n /\ (1 <= n \/ n = 0)
    BY <1>5
  <2>3. /\ SubSeq(s, 1, n) \in Seq(STRING)
        /\ Len(SubSeq(s, 1, n)) = IF 1 <= n THEN n - 1 + 1 ELSE 0
        /\ \A i \in 1 .. n - 1 + 1 : SubSeq(s, 1, n)[i] = s[1 + i - 1]
    BY <2>1, <2>2, SubSeqProperties
  <2>4. \A i \in 1 .. n : 1 + i - 1 = i
    BY <1>5
  <2> QED
    BY <2>2, <2>3, <2>4
<1>7. Front(s) = SubSeq(s, 1, n)
  BY <1>5 DEF Front
<1>8. Head(s) = s[1]
  BY <1>1
<1> QED
  BY <1>1, <1>2, <1>5, <1>6, <1>7, <1>8, LenProperties DEF Last

\* What stands behind the last of a word in a segment.
LEMMA AfterLastIs ==
    ASSUME NEW s \in Seq(STRING), NEW k \in 1 .. Len(s), NEW token, s[k] = token,
           \A j \in k + 1 .. Len(s) : s[j] # token
    PROVE  /\ AfterLast(s, token) \in Seq(STRING)
           /\ Len(AfterLast(s, token)) = Len(s) - k
           /\ \A i \in 1 .. Len(s) - k : AfterLast(s, token)[i] = s[k + i]
<1>1. Len(s) \in Nat /\ DOMAIN s = 1 .. Len(s)
  BY LenProperties
<1> DEFINE IsLast(i) == s[i] = token /\ \A j \in i + 1 .. Len(s) : s[j] # token
           last == CHOOSE i \in DOMAIN s : IsLast(i)
<1>2. IsLast(k) /\ k \in DOMAIN s
  BY <1>1
<1>3. last \in DOMAIN s /\ IsLast(last)
  <2> HIDE DEF IsLast
  <2> QED
    BY <1>2
<1>4. AfterLast(s, token) = SubSeq(s, last + 1, Len(s))
  BY DEF AfterLast
<1>5. last = k
  <2>1. PICK l \in 1 .. Len(s) : l = last /\ s[l] = token /\ \A j \in l + 1 .. Len(s) : s[j] # token
    BY <1>1, <1>3
  <2>2. ~ (l < k) /\ ~ (k < l)
    BY <1>1, <1>2, <2>1
  <2> QED
    BY <1>1, <2>1, <2>2
<1> HIDE DEF last
<1>6. k \in Nat /\ k + 1 \in 1 .. Len(s) + 1 /\ Len(s) \in 0 .. Len(s)
  BY <1>1
<1>7. PICK m \in Nat : m = Len(s) - k
  <2>1. Len(s) - k \in Nat
    BY <1>1
  <2> QED
    BY <2>1
<1>8. \A i \in k + 1 .. Len(s) : s[i] \in STRING
  BY <1>1
<1>9. /\ SubSeq(s, k + 1, Len(s)) \in Seq(STRING)
      /\ Len(SubSeq(s, k + 1, Len(s))) = IF k + 1 <= Len(s) THEN Len(s) - (k + 1) + 1 ELSE 0
      /\ \A i \in 1 .. Len(s) - (k + 1) + 1 : SubSeq(s, k + 1, Len(s))[i] = s[k + 1 + i - 1]
  <2>1. k + 1 \in Int /\ Len(s) \in Int
    BY <1>1, <1>6
  <2> QED
    BY <1>8, <2>1, SubSeqProperties
<1>10. Len(s) - (k + 1) + 1 = m /\ \A i \in 1 .. m : k + 1 + i - 1 = k + i
  BY <1>1, <1>7
<1> QED
  <2>1. (IF k + 1 <= Len(s) THEN Len(s) - (k + 1) + 1 ELSE 0) = m
    <3>1. PICK n \in Nat : n = Len(s)
      BY <1>1
    <3> QED
      BY <1>6, <1>7, <3>1
  <2> QED
    BY <1>4, <1>5, <1>7, <1>9, <1>10, <2>1

\* A word that occurs has a last occurrence.
LEMMA LastOccurs ==
    ASSUME NEW s \in Seq(STRING), NEW token, Names(s, token)
    PROVE  \E k \in 1 .. Len(s) : s[k] = token /\ \A j \in k + 1 .. Len(s) : s[j] # token
<1>1. Len(s) \in Nat /\ DOMAIN s = 1 .. Len(s)
  BY LenProperties
<1>2. PICK n \in Nat : n = Len(s)
  BY <1>1
<1> DEFINE Behind == {n - i : i \in {j \in 1 .. n : s[j] = token}}
<1>3. Behind \subseteq Nat /\ Behind # {}
  BY <1>1, <1>2 DEF Names
<1>4. PICK least \in Behind : \A i \in Behind : least <= i
  <2> HIDE DEF Behind
  <2> QED
    BY <1>3, LeastExists
<1>5. PICK k \in 1 .. n : s[k] = token /\ least = n - k
  BY <1>4
<1>6. ASSUME NEW j \in k + 1 .. n, s[j] = token PROVE FALSE
  <2>1. n - j \in Behind /\ j \in Nat /\ k < j
    BY <1>2, <1>6
  <2>2. n - k <= n - j
    BY <1>4, <1>5, <2>1
  <2> QED
    BY <1>2, <2>1, <2>2
<1> QED
  BY <1>2, <1>5, <1>6

\* parseQoS: the name of a tier stands at the end of a unit's name.
LEMMA TierEndsUnit ==
    ASSUME NEW s \in Segment, NEW t, TierName(s, "systemd") = <<t>>
    PROVE  IF s[Len(s)] = ".slice" THEN Len(s) > 1 /\ s[Len(s) - 1] = t ELSE s[Len(s)] = t
<1> DEFINE unit == IF Ends(s, ".slice") THEN Front(s) ELSE s
           tail == IF Names(unit, "kubepods") THEN AfterLast(unit, "kubepods") ELSE << >>
<1>1. /\ Len(s) \in Nat \ {0} /\ s \in Seq(STRING) /\ s # << >>
      /\ Front(s) \in Seq(STRING) /\ Len(Front(s)) = Len(s) - 1
      /\ \A i \in 1 .. Len(s) - 1 : Front(s)[i] = s[i]
      /\ Last(s) = s[Len(s)]
  BY FrontIs DEF Segment
<1>2. unit = IF s[Len(s)] = ".slice" THEN Front(s) ELSE s
  BY <1>1 DEF Ends
<1>3. TierName(s, "systemd") = IF Starts(tail, "-") THEN Tail(tail) ELSE unit
  BY DEF TierName
<1> HIDE DEF unit
<1>4. unit \in Seq(STRING) /\ Len(unit) \in Nat
  BY <1>1, <1>2, LenProperties
<1>5. Len(unit) > 0 /\ unit[Len(unit)] = t
  <2>1. CASE ~ Starts(tail, "-")
    <3>1. unit = <<t>>
      BY <1>3, <2>1
    <3> QED
      BY <3>1
  <2>2. CASE Starts(tail, "-")
    <3>1. Tail(tail) = <<t>> /\ tail # << >>
      BY <1>3, <2>2 DEF Starts
    <3>2. Names(unit, "kubepods") /\ tail = AfterLast(unit, "kubepods")
      BY <3>1
    <3>3. PICK k \in 1 .. Len(unit) :
             unit[k] = "kubepods" /\ \A j \in k + 1 .. Len(unit) : unit[j] # "kubepods"
      BY <1>4, <3>2, LastOccurs
    <3> HIDE DEF tail
    <3>4. /\ tail \in Seq(STRING) /\ Len(tail) = Len(unit) - k
          /\ \A i \in 1 .. Len(unit) - k : tail[i] = unit[k + i]
      BY <1>4, <3>2, <3>3, AfterLastIs
    <3>5. Len(tail) = 2 /\ tail[2] = t
      <4>0. PICK rest : rest = Tail(tail)
        OBVIOUS
      <4>1. Len(Tail(tail)) = 1 /\ Tail(tail)[1] = t
        <5>1. rest = <<t>>
          BY <3>1, <4>0
        <5>2. Len(rest) = 1 /\ rest[1] = t
          BY <5>1
        <5> QED
          BY <4>0, <5>2
      <4>2. Len(Tail(tail)) = Len(tail) - 1 /\ Len(tail) \in Nat
        BY <3>1, <3>4, HeadTailProperties, LenProperties
      <4>3. Len(tail) = 2
        BY <4>1, <4>2
      <4>4. Tail(tail)[1] = tail[2]
        BY <3>1, <3>4, <4>3, HeadTailProperties
      <4> QED
        BY <4>1, <4>3, <4>4
    <3>6. k + 2 = Len(unit) /\ k \in Nat
      <4>1. PICK m \in Nat : m = Len(unit)
        BY <1>4
      <4>2. k \in 1 .. m /\ m - k = 2
        BY <3>4, <3>5, <4>1
      <4> QED
        BY <4>1, <4>2
    <3>7. 2 \in 1 .. Len(unit) - k
      BY <1>4, <3>6
    <3> QED
      BY <1>4, <3>4, <3>5, <3>6, <3>7
  <2> QED
    BY <2>1, <2>2
<1>6. CASE s[Len(s)] = ".slice"
  <2>1. Len(unit) = Len(s) - 1 /\ \A i \in 1 .. Len(s) - 1 : unit[i] = s[i]
    BY <1>1, <1>2, <1>6
  <2>2. Len(s) - 1 \in 1 .. Len(s) - 1 /\ Len(s) > 1
    BY <1>1, <1>4, <1>5, <2>1
  <2> QED
    BY <1>5, <1>6, <2>1, <2>2
<1>7. CASE s[Len(s)] # ".slice"
  BY <1>2, <1>5, <1>7
<1> QED
  BY <1>6, <1>7

\* parseQoS finds the tier in the name of its slice.
LEMMA TierRead ==
    ASSUME NEW s \in Segment, NEW tier \in Tiers, TierDir(s, tier, "systemd")
    PROVE  TierName(s, "systemd") = <<tier>>
<1> DEFINE unit == IF Ends(s, ".slice") THEN Front(s) ELSE s
           tail == IF Names(unit, "kubepods") THEN AfterLast(unit, "kubepods") ELSE << >>
<1>1. /\ Len(s) \in Nat \ {0} /\ s \in Seq(STRING) /\ s # << >>
      /\ Front(s) \in Seq(STRING) /\ Len(Front(s)) = Len(s) - 1
      /\ \A i \in 1 .. Len(s) - 1 : Front(s)[i] = s[i]
      /\ Last(s) = s[Len(s)]
  BY FrontIs DEF Segment
<1>2. PICK n \in Nat : n = Len(s)
  BY <1>1
<1>3. /\ n >= 4 /\ s[n - 3] = "kubepods" /\ s[n - 2] = "-" /\ s[n - 1] = tier /\ s[n] = ".slice"
  BY <1>2 DEF TierDir
<1>4. unit = Front(s)
  BY <1>1, <1>2, <1>3 DEF Ends
<1>5. TierName(s, "systemd") = IF Starts(tail, "-") THEN Tail(tail) ELSE unit
  BY DEF TierName
<1>6. /\ unit \in Seq(STRING) /\ Len(unit) = n - 1 /\ DOMAIN unit = 1 .. n - 1
      /\ unit[n - 3] = "kubepods" /\ unit[n - 2] = "-" /\ unit[n - 1] = tier
  <2>1. /\ Front(s) \in Seq(STRING) /\ Len(Front(s)) = n - 1
        /\ \A i \in 1 .. n - 1 : Front(s)[i] = s[i]
    BY <1>1, <1>2
  <2>2. n - 3 \in 1 .. n - 1 /\ n - 2 \in 1 .. n - 1 /\ n - 1 \in 1 .. n - 1
    BY <1>2, <1>3
  <2> HIDE DEF unit
  <2> QED
    BY <1>3, <1>4, <2>1, <2>2, LenProperties
<1> HIDE DEF unit
<1>7. PICK k \in 1 .. Len(unit) :
          /\ k = n - 3 /\ unit[k] = "kubepods" /\ Len(unit) - k = 2
          /\ unit[k + 1] = "-" /\ unit[k + 2] = tier
          /\ \A j \in k + 1 .. Len(unit) : unit[j] # "kubepods"
  <2>1. n - 3 \in 1 .. n - 1 /\ n - 3 + 1 = n - 2 /\ n - 3 + 2 = n - 1 /\ n - 1 - (n - 3) = 2
    BY <1>2, <1>3
  <2>2. \A j \in n - 3 + 1 .. n - 1 : j = n - 2 \/ j = n - 1
    BY <1>2, <1>3
  <2>3. tier # "kubepods"
    BY DEF Tiers
  <2> QED
    BY <1>6, <2>1, <2>2, <2>3
<1>8. Names(unit, "kubepods") /\ tail = AfterLast(unit, "kubepods")
  BY <1>6, <1>7, LenProperties DEF Names
<1> HIDE DEF tail
<1>9. /\ tail \in Seq(STRING) /\ Len(tail) = 2
      /\ \A i \in 1 .. 2 : tail[i] = unit[k + i]
  <2>1. unit \in Seq(STRING) /\ k \in 1 .. Len(unit) /\ unit[k] = "kubepods"
        /\ \A j \in k + 1 .. Len(unit) : unit[j] # "kubepods"
    BY <1>6, <1>7
  <2>2. /\ AfterLast(unit, "kubepods") \in Seq(STRING)
        /\ Len(AfterLast(unit, "kubepods")) = Len(unit) - k
        /\ \A i \in 1 .. Len(unit) - k : AfterLast(unit, "kubepods")[i] = unit[k + i]
    BY <2>1, AfterLastIs
  <2> QED
    BY <1>7, <1>8, <2>2
<1>10. tail = <<"-", tier>>
  BY <1>7, <1>9
<1>11. Starts(tail, "-") /\ Tail(tail) = <<tier>>
  BY <1>10 DEF Starts
<1> QED
  BY <1>5, <1>11

LEMMA SingletonIs ==
    ASSUME NEW s \in Seq(STRING), Len(s) = 1
    PROVE  s = <<s[1]>>
OBVIOUS

\* parsePodSegment takes no directory for a pod's that does not say pod.
LEMMA NoPodRead ==
    ASSUME NEW s \in Segment, \A i \in 1 .. Len(s) : s[i] \notin {"pod", "-pod"}
    PROVE  PodSegment(s).uid = << >>
<1>1. /\ Len(s) \in Nat \ {0} /\ s \in Seq(STRING) /\ s # << >>
      /\ Front(s) \in Seq(STRING) /\ Len(Front(s)) = Len(s) - 1 /\ DOMAIN Front(s) = 1 .. Len(s) - 1
      /\ \A i \in 1 .. Len(s) - 1 : Front(s)[i] = s[i]
      /\ Last(s) = s[Len(s)] /\ Head(s) = s[1]
  BY FrontIs DEF Segment
<1>2. CASE Ends(s, ".slice")
  <2>1. PICK name : name = Front(s)
    OBVIOUS
  <2>2. ~ Names(name, "-pod")
    BY <1>1, <2>1 DEF Names
  <2>3. ~ Starts(name, "pod")
    <3>1. SUFFICES ASSUME name # << >> PROVE Head(name) # "pod"
      BY DEF Starts
    <3>2. name \in Seq(STRING) \ {<< >>}
      BY <1>1, <2>1, <3>1
    <3>3. Head(name) = name[1] /\ 1 \in 1 .. Len(s) - 1
      BY <1>1, <2>1, <3>2, FrontIs DEF Segment
    <3> QED
      BY <1>1, <2>1, <3>3
  <2>4. UnitUID(name) = << >>
    BY <2>2, <2>3 DEF UnitUID
  <2>5. PodSegment(s) = [uid |-> Unescaped(<< >>), driver |-> "systemd"]
    BY <1>2, <2>1, <2>4 DEF PodSegment
  <2>6. Unescaped(<< >>) = << >>
    BY DEF Unescaped
  <2> QED
    BY <2>5, <2>6
<1>3. CASE ~ Ends(s, ".slice")
  <2>1. ~ Starts(s, "pod")
    BY <1>1 DEF Starts
  <2>2. PodSegment(s) = [uid |-> << >>, driver |-> "cgroupfs"]
    BY <1>3, <2>1 DEF PodSegment
  <2> QED
    BY <2>2
<1> QED
  BY <1>2, <1>3

\* parsePodSegment reads the UID that the kubelet wrote, under either driver.
LEMMA PodRead ==
    ASSUME NEW s \in Segment, NEW uid, NEW driver, PodDir(s, uid, driver)
    PROVE  PodSegment(s) = [uid |-> uid, driver |-> driver] /\ uid # << >>
<1>1. /\ Len(s) \in Nat \ {0} /\ s \in Seq(STRING) /\ s # << >>
      /\ Front(s) \in Seq(STRING) /\ Len(Front(s)) = Len(s) - 1 /\ DOMAIN Front(s) = 1 .. Len(s) - 1
      /\ \A i \in 1 .. Len(s) - 1 : Front(s)[i] = s[i]
      /\ Last(s) = s[Len(s)] /\ Head(s) = s[1]
  BY FrontIs DEF Segment
<1>2. PICK n \in Nat : n = Len(s)
  BY <1>1
<1>3. ASSUME driver = "cgroupfs", NEW u \in STRING \ Words, s = <<"pod", u>>, uid = <<u>>
      PROVE  PodSegment(s) = [uid |-> uid, driver |-> driver] /\ uid # << >>
  <2>1. ~ Ends(s, ".slice") /\ Starts(s, "pod") /\ Tail(s) = uid
    <3>1. Len(s) = 2 /\ s[2] = u /\ s[1] = "pod"
      BY <1>3
    <3>2. Last(s) = u /\ Head(s) = "pod"
      BY <1>1, <3>1
    <3>3. u # ".slice"
      BY DEF Words
    <3>4. Tail(s) = uid
      BY <1>3
    <3> QED
      BY <1>1, <3>2, <3>3, <3>4 DEF Ends, Starts
  <2> QED
    BY <1>3, <2>1 DEF PodSegment
<1>4. ASSUME driver = "systemd", n >= 3, s[n - 2] = "-pod", s[n] = ".slice",
             s[n - 1] \notin Words, uid = Unescaped(<<s[n - 1]>>)
      PROVE  PodSegment(s) = [uid |-> uid, driver |-> driver] /\ uid # << >>
  <2>1. PICK name : name = Front(s)
    OBVIOUS
  <2>2. PICK u : u = s[n - 1]
    OBVIOUS
  <2>3. PICK k \in Nat : k = n - 2
    <3>1. n - 2 \in Nat
      BY <1>2, <1>4
    <3> QED
      BY <3>1
  <2>4. /\ name \in Seq(STRING) /\ Len(name) = k + 1 /\ DOMAIN name = 1 .. k + 1
        /\ k \in 1 .. k + 1 /\ k + 1 \in 1 .. k + 1
        /\ name[k] = "-pod" /\ name[k + 1] = u
    <3>1. Len(s) - 1 = k + 1 /\ k >= 1 /\ n - 1 = k + 1
      BY <1>2, <1>4, <2>3
    <3>2. /\ name \in Seq(STRING) /\ Len(name) = k + 1 /\ DOMAIN name = 1 .. k + 1
          /\ \A i \in 1 .. k + 1 : name[i] = s[i]
      BY <1>1, <2>1, <3>1
    <3>3. k \in 1 .. k + 1 /\ k + 1 \in 1 .. k + 1
      BY <2>3, <3>1
    <3> QED
      BY <1>4, <2>2, <2>3, <3>1, <3>2, <3>3
  <2>5. \A j \in k + 1 .. k + 1 : name[j] # "-pod"
    <3>1. u # "-pod"
      BY <1>4, <2>2 DEF Words
    <3> QED
      BY <2>3, <2>4, <3>1
  <2>6. /\ AfterLast(name, "-pod") \in Seq(STRING)
        /\ Len(AfterLast(name, "-pod")) = k + 1 - k
        /\ \A i \in 1 .. k + 1 - k : AfterLast(name, "-pod")[i] = name[k + i]
    <3>1. /\ name \in Seq(STRING) /\ k \in 1 .. Len(name) /\ name[k] = "-pod"
          /\ \A j \in k + 1 .. Len(name) : name[j] # "-pod"
      BY <2>4, <2>5
    <3>2. /\ AfterLast(name, "-pod") \in Seq(STRING)
          /\ Len(AfterLast(name, "-pod")) = Len(name) - k
          /\ \A i \in 1 .. Len(name) - k : AfterLast(name, "-pod")[i] = name[k + i]
      BY <3>1, AfterLastIs
    <3> QED
      BY <2>4, <3>2
  <2>7. AfterLast(name, "-pod") = <<u>>
    <3>1. k + 1 - k = 1
      BY <2>3
    <3>2. PICK rest \in Seq(STRING) : rest = AfterLast(name, "-pod")
      BY <2>6
    <3>3. Len(rest) = 1 /\ rest[1] = u
      BY <2>4, <2>6, <3>1, <3>2
    <3>4. rest = <<u>>
      BY <3>3
    <3> QED
      BY <3>2, <3>4
  <2>8. Names(name, "-pod")
    BY <2>4 DEF Names
  <2>9. Unescaped(UnitUID(name)) = uid
    BY <1>4, <2>2, <2>7, <2>8 DEF UnitUID
  <2>10. Ends(s, ".slice")
    BY <1>1, <1>2, <1>4 DEF Ends
  <2>11. PodSegment(s) = [uid |-> uid, driver |-> "systemd"]
    BY <2>1, <2>9, <2>10 DEF PodSegment
  <2>12. uid # << >>
    <3>1. PICK one : one = <<u>>
      OBVIOUS
    <3>2. DOMAIN one = 1 .. 1
      BY <3>1
    <3>3. DOMAIN uid = 1 .. 1
      BY <1>4, <2>2, <3>1, <3>2 DEF Unescaped
    <3>4. 1 \in 1 .. 1 /\ DOMAIN << >> = {}
      OBVIOUS
    <3> QED
      BY <3>3, <3>4
  <2> QED
    BY <1>4, <2>11, <2>12
<1> QED
  BY <1>2, <1>3, <1>4 DEF PodDir

\* parseContainerSegment takes no pod's directory for a container's.
LEMMA PodIsNoContainer ==
    ASSUME NEW s \in Segment, NEW uid, NEW driver, PodDir(s, uid, driver), NEW parent
    PROVE  ContainerSegment(s, parent).id = << >>
<1>1. /\ Len(s) \in Nat \ {0} /\ s \in Seq(STRING) /\ s # << >> /\ DOMAIN s = 1 .. Len(s)
      /\ Last(s) = s[Len(s)] /\ Head(s) = s[1]
  BY FrontIs DEF Segment
<1>2. ~ Ends(s, ".scope") /\ (Dotted(s) \/ Starts(s, "pod"))
  <2>1. ASSUME NEW u \in STRING \ Words, s = <<"pod", u>>
        PROVE  ~ Ends(s, ".scope") /\ (Dotted(s) \/ Starts(s, "pod"))
    <3>1. Len(s) = 2 /\ s[2] = u /\ s[1] = "pod"
      BY <2>1
    <3>2. u # ".scope"
      BY DEF Words
    <3> QED
      BY <1>1, <3>1, <3>2 DEF Ends, Starts
  <2>2. ASSUME s[Len(s)] = ".slice"
        PROVE  ~ Ends(s, ".scope") /\ (Dotted(s) \/ Starts(s, "pod"))
    <3>1. Len(s) \in 1 .. Len(s)
      BY <1>1
    <3> QED
      BY <1>1, <2>2, <3>1 DEF Ends, Dotted, Names
  <2> QED
    BY <2>1, <2>2 DEF PodDir
<1>3. ContainerSegment(s, parent) = [id |-> << >>, runtime |-> "unknown"]
  BY <1>2 DEF ContainerSegment
<1> QED
  BY <1>3

\* parseContainerSegment reads the ID and the runtime, under either driver.
LEMMA ContainerRead ==
    ASSUME NEW s \in Segment, NEW id, NEW runtime, NEW driver, ContainerDir(s, id, runtime, driver)
    PROVE  ContainerSegment(s, driver) = [id |-> id, runtime |-> runtime] /\ id # << >>
<1>1. /\ Len(s) \in Nat \ {0} /\ s \in Seq(STRING) /\ s # << >> /\ DOMAIN s = 1 .. Len(s)
      /\ Last(s) = s[Len(s)] /\ Head(s) = s[1]
  BY FrontIs DEF Segment
<1>2. PICK i \in STRING \ Words :
          /\ id = <<i>>
          /\ \/ driver = "cgroupfs" /\ s = <<i>> /\ runtime = "unknown"
             \/ /\ driver = "systemd"
                /\ \E prefix \in DOMAIN RuntimeOf \cap STRING :
                      s = <<prefix, i, ".scope">> /\ runtime = RuntimeOf[prefix]
  BY DEF ContainerDir
<1>3. id # << >>
  BY <1>2
<1>4. ASSUME driver = "cgroupfs", s = <<i>>, runtime = "unknown"
      PROVE  ContainerSegment(s, driver) = [id |-> id, runtime |-> runtime]
  <2>1. Len(s) = 1 /\ s[1] = i
    BY <1>4
  <2>2. i \notin {".slice", ".scope", ".service", "pod"}
    BY DEF Words
  <2>3. ~ Dotted(s) /\ ~ Starts(s, "pod")
    BY <1>1, <2>1, <2>2 DEF Dotted, Names, Starts
  <2> QED
    BY <1>2, <1>4, <2>3 DEF ContainerSegment
<1>5. ASSUME driver = "systemd", NEW prefix \in DOMAIN RuntimeOf \cap STRING,
             s = <<prefix, i, ".scope">>, runtime = RuntimeOf[prefix]
      PROVE  ContainerSegment(s, driver) = [id |-> id, runtime |-> runtime]
  <2>1. Len(s) = 3 /\ s[1] = prefix /\ s[3] = ".scope"
    BY <1>5
  <2>2. Ends(s, ".scope") /\ Head(s) \in DOMAIN RuntimeOf /\ Head(s) = prefix
    BY <1>1, <2>1 DEF Ends
  <2>3. PICK rest : rest = Tail(s)
    OBVIOUS
  <2>4. rest = <<i, ".scope">>
    BY <1>5, <2>3
  <2>5. Front(rest) = <<i>>
    <3>1. Len(rest) = 2 /\ rest[1] = i
      BY <2>4
    <3>2. rest \in Seq(STRING)
      BY <1>1, <2>3, HeadTailProperties
    <3>3. rest # << >>
      BY <2>4
    <3>4. 2 - 1 = 1 /\ 1 \in 1 .. 1
      OBVIOUS
    <3>5. /\ Front(rest) \in Seq(STRING) /\ Len(Front(rest)) = Len(rest) - 1
          /\ \A k \in 1 .. Len(rest) - 1 : Front(rest)[k] = rest[k]
      <4>1. rest \in Segment
        BY <3>2, <3>3 DEF Segment
      <4> QED
        BY <4>1, FrontIs
    <3>6. PICK f \in Seq(STRING) : f = Front(rest)
      BY <3>5
    <3>7. Len(f) = 1 /\ f[1] = i
      BY <3>1, <3>4, <3>5, <3>6
    <3>8. f = <<i>>
      BY <3>6, <3>7, SingletonIs
    <3> QED
      BY <3>6, <3>8
  <2> QED
    BY <1>2, <1>5, <2>2, <2>3, <2>5 DEF ContainerSegment
<1> QED
  BY <1>2, <1>3, <1>4, <1>5

TierNames == {<<"burstable">>, <<"besteffort">>}

\* parseQoS: a directory whose name does not end in a tier's is no tier.
LEMMA NoTierRead ==
    ASSUME NEW s \in Segment, NEW driver \in Drivers,
           driver = "cgroupfs" => Len(s) > 1 \/ s[1] \notin Tiers,
           driver = "systemd" =>
              IF s[Len(s)] = ".slice" THEN Len(s) > 1 => s[Len(s) - 1] \notin Tiers
              ELSE s[Len(s)] \notin Tiers
    PROVE  TierName(s, driver) \notin TierNames
<1>1. SUFFICES ASSUME NEW t \in Tiers, TierName(s, driver) = <<t>> PROVE FALSE
  BY DEF TierNames, Tiers
<1>2. CASE driver = "systemd"
  BY <1>1, <1>2, TierEndsUnit
<1>3. CASE driver = "cgroupfs"
  <2>1. s = <<t>>
    BY <1>1, <1>3 DEF TierName
  <2>2. Len(s) = 1 /\ s[1] = t
    BY <2>1
  <2> QED
    BY <1>3, <2>2
<1> QED
  BY <1>2, <1>3 DEF Drivers

\* Nothing but the tier's own directory is read as a tier.
LEMMA OthersAreNoTier ==
    ASSUME NEW s \in Segment, NEW driver \in Drivers
    PROVE  /\ Plain(s, Len(s)) => TierName(s, driver) \notin TierNames
           /\ RootDir(s, driver) => TierName(s, driver) \notin TierNames
           /\ \A uid : PodDir(s, uid, driver) => TierName(s, driver) \notin TierNames
           /\ \A id, runtime : ContainerDir(s, id, runtime, driver)
                                  => TierName(s, driver) \notin TierNames
<1>1. PICK n \in Nat \ {0} : n = Len(s)
  BY FrontIs
<1>2. n \in 1 .. n /\ 1 \in 1 .. n /\ (n > 1 => n - 1 \in 1 .. n)
  BY <1>1
<1>3. ASSUME Plain(s, Len(s)) PROVE TierName(s, driver) \notin TierNames
  <2>1. \A i \in 1 .. n : s[i] \notin Tiers
    BY <1>1, <1>3 DEF Plain
  <2> QED
    BY <1>1, <1>2, <2>1, NoTierRead
<1>4. ASSUME RootDir(s, driver) PROVE TierName(s, driver) \notin TierNames
  <2>1. CASE driver = "cgroupfs"
    <3>1. s = <<"kubepods">>
      BY <1>4, <2>1 DEF RootDir
    <3>2. s[1] = "kubepods"
      BY <3>1
    <3>3. s[1] \notin Tiers
      BY <3>2 DEF Tiers
    <3> QED
      BY <2>1, <3>3, NoTierRead
  <2>2. CASE driver = "systemd"
    <3>1. n >= 2 /\ s[n - 1] = "kubepods" /\ s[n] = ".slice"
      BY <1>1, <1>4, <2>2 DEF RootDir
    <3>2. s[n - 1] \notin Tiers
      BY <3>1 DEF Tiers
    <3> QED
      BY <1>1, <2>2, <3>1, <3>2, NoTierRead
  <2> QED
    BY <2>1, <2>2 DEF Drivers
<1>5. ASSUME NEW uid, PodDir(s, uid, driver) PROVE TierName(s, driver) \notin TierNames
  <2>1. CASE driver = "cgroupfs"
    <3>1. PICK u \in STRING : s = <<"pod", u>>
      BY <1>5, <2>1 DEF PodDir
    <3>2. Len(s) = 2
      BY <3>1
    <3>3. Len(s) > 1
      BY <3>2
    <3> QED
      BY <2>1, <3>3, NoTierRead
  <2>2. CASE driver = "systemd"
    <3>1. n >= 3 /\ s[n] = ".slice" /\ s[n - 1] \notin Words
      BY <1>1, <1>5, <2>2 DEF PodDir
    <3>2. s[n - 1] \notin Tiers
      BY <3>1 DEF Words
    <3> QED
      BY <1>1, <2>2, <3>1, <3>2, NoTierRead
  <2> QED
    BY <2>1, <2>2 DEF Drivers
<1>6. ASSUME NEW id, NEW runtime, ContainerDir(s, id, runtime, driver)
      PROVE  TierName(s, driver) \notin TierNames
  <2>1. CASE driver = "cgroupfs"
    <3>1. PICK i \in STRING \ Words : s = <<i>>
      BY <1>6, <2>1 DEF ContainerDir
    <3>2. s[1] = i
      BY <3>1
    <3>3. s[1] \notin Tiers
      BY <3>2 DEF Words
    <3> QED
      BY <2>1, <3>3, NoTierRead
  <2>2. CASE driver = "systemd"
    <3>1. PICK i \in STRING, prefix \in STRING : s = <<prefix, i, ".scope">>
      BY <1>6, <2>2 DEF ContainerDir
    <3>2. Len(s) = 3 /\ s[3] = ".scope"
      BY <3>1
    <3>3. s[Len(s)] # ".slice" /\ s[Len(s)] \notin Tiers
      BY <3>2 DEF Tiers
    <3> QED
      BY <2>2, <3>3, NoTierRead
  <2> QED
    BY <2>1, <2>2 DEF Drivers
<1> QED
  BY <1>3, <1>4, <1>5, <1>6

\* parseQoS in the kubelet's tree.
LEMMA QoSRead ==
    ASSUME NEW path \in Seq(Segment), NEW driver, InKubepodsTree(path)
    PROVE  /\ \A k \in 1 .. Len(path), tier \in Tiers :
                 (/\ TierName(path[k], driver) = <<tier>>
                  /\ \A i \in 1 .. Len(path) : i # k => TierName(path[i], driver) \notin TierNames)
                 => QoS(path, driver) = tier
           /\ (\A i \in 1 .. Len(path) : TierName(path[i], driver) \notin TierNames)
                 => QoS(path, driver) = "guaranteed"
<1> DEFINE tiers == {i \in DOMAIN path :
                        TierName(path[i], driver) \in {<<"burstable">>, <<"besteffort">>}}
           first == CHOOSE i \in tiers : \A j \in tiers : i <= j
<1>1. DOMAIN path = 1 .. Len(path) /\ Len(path) \in Nat
  BY LenProperties
<1>2. QoS(path, driver) = IF tiers # {} THEN TierName(path[first], driver)[1]
                          ELSE IF InKubepodsTree(path) THEN "guaranteed" ELSE "unknown"
  BY DEF QoS
<1>3. ASSUME NEW k \in 1 .. Len(path), NEW tier \in Tiers,
             TierName(path[k], driver) = <<tier>>,
             \A i \in 1 .. Len(path) : i # k => TierName(path[i], driver) \notin TierNames
      PROVE  QoS(path, driver) = tier
  <2>1. <<tier>> \in {<<"burstable">>, <<"besteffort">>}
    BY DEF Tiers
  <2>2. tiers = {k}
    BY <1>1, <1>3, <2>1 DEF TierNames
  <2>3. k \in Nat
    BY <1>1
  <2> HIDE DEF tiers
  <2>4. first = k
    <3>1. k \in tiers /\ \A j \in tiers : k <= j
      BY <2>2, <2>3
    <3>2. first \in tiers
      BY <3>1
    <3> QED
      BY <2>2, <3>2
  <2> HIDE DEF first
  <2>5. PICK name : name = TierName(path[k], driver)
    OBVIOUS
  <2>6. name = <<tier>>
    BY <1>3, <2>5
  <2>7. name[1] = tier
    BY <2>6
  <2> QED
    BY <1>2, <2>2, <2>4, <2>5, <2>7
<1>4. ASSUME \A i \in 1 .. Len(path) : TierName(path[i], driver) \notin TierNames
      PROVE  QoS(path, driver) = "guaranteed"
  <2>1. tiers = {}
    BY <1>1, <1>4 DEF TierNames
  <2> HIDE DEF tiers
  <2> QED
    BY <1>2, <2>1
<1> QED
  BY <1>3, <1>4

\* The kubelet's tree down to its pods.
LEMMA TreeIs ==
    ASSUME NEW path \in Seq(Segment), NEW n \in 1 .. Len(path), NEW qos, NEW driver \in Drivers,
           TreeOf(path, n, qos, driver)
    PROVE  /\ InKubepodsTree(path)
           /\ \A i \in 1 .. n : PodSegment(path[i]).uid = << >>
           /\ qos \in Tiers \cup {"guaranteed"}
           /\ \A i \in 1 .. n : i # n \/ qos = "guaranteed" => TierName(path[i], driver) \notin TierNames
           /\ qos # "guaranteed" => TierName(path[n], driver) = <<qos>>
<1>0. Len(path) \in Nat /\ DOMAIN path = 1 .. Len(path) /\ \A i \in 1 .. Len(path) : path[i] \in Segment
  BY LenProperties, ElementOfSeq
<1>1. PICK k \in 1 .. n :
        /\ \A i \in 1 .. k - 1 : Plain(path[i], Len(path[i]))
        /\ RootDir(path[k], driver)
        /\ \/ qos = "guaranteed" /\ n = k
           \/ qos \in Tiers /\ n = k + 1 /\ TierDir(path[n], qos, driver)
  BY DEF TreeOf
<1>2. \A i \in 1 .. n : path[i] \in Segment /\ i \in DOMAIN path
  BY <1>0
<1>3. \A i \in 1 .. n : i \in 1 .. k - 1 \/ i = k \/ (i = n /\ n = k + 1)
  BY <1>0, <1>1
<1>4. ASSUME NEW s \in Segment, RootDir(s, driver)
      PROVE  /\ Names(s, "kubepods")
             /\ \A i \in 1 .. Len(s) : s[i] \notin {"pod", "-pod"}
  <2>1. PICK m \in Nat : m = Len(s) /\ DOMAIN s = 1 .. m
    BY FrontIs
  <2>2. CASE driver = "cgroupfs"
    <3>1. s = <<"kubepods">>
      BY <1>4, <2>2 DEF RootDir
    <3>2. Len(s) = 1 /\ s[1] = "kubepods"
      BY <3>1
    <3>3. 1 \in DOMAIN s /\ \A i \in 1 .. Len(s) : i = 1
      BY <2>1, <3>2
    <3> QED
      BY <3>2, <3>3 DEF Names
  <2>3. CASE driver = "systemd"
    <3>1. m >= 2 /\ Plain(s, m - 2) /\ s[m - 1] = "kubepods" /\ s[m] = ".slice"
      BY <1>4, <2>1, <2>3 DEF RootDir
    <3>2. m - 1 \in 1 .. m /\ \A i \in 1 .. m : i \in 1 .. m - 2 \/ i = m - 1 \/ i = m
      BY <2>1, <3>1
    <3>3. \A i \in 1 .. m - 2 : s[i] \notin {"pod", "-pod"}
      BY <3>1 DEF Plain
    <3> QED
      BY <2>1, <3>1, <3>2, <3>3 DEF Names
  <2> QED
    BY <2>2, <2>3 DEF Drivers
<1>5. ASSUME NEW s \in Segment, qos \in Tiers, TierDir(s, qos, driver)
      PROVE  /\ \A i \in 1 .. Len(s) : s[i] \notin {"pod", "-pod"}
             /\ TierName(s, driver) = <<qos>>
  <2>1. PICK m \in Nat : m = Len(s)
    BY FrontIs
  <2>0. qos \notin {"pod", "-pod"}
    BY <1>5 DEF Tiers
  <2>2. CASE driver = "cgroupfs"
    <3>1. s = <<qos>>
      BY <1>5, <2>2 DEF TierDir
    <3>2. Len(s) = 1 /\ s[1] = qos
      BY <3>1
    <3>3. \A i \in 1 .. Len(s) : i = 1
      BY <3>2
    <3> QED
      BY <2>0, <2>2, <3>1, <3>2, <3>3 DEF TierName
  <2>3. CASE driver = "systemd"
    <3>1. /\ m >= 4 /\ Plain(s, m - 4) /\ s[m - 3] = "kubepods" /\ s[m - 2] = "-"
          /\ s[m - 1] = qos /\ s[m] = ".slice"
      BY <1>5, <2>1, <2>3 DEF TierDir
    <3>2. \A i \in 1 .. m : i \in 1 .. m - 4 \/ i = m - 3 \/ i = m - 2 \/ i = m - 1 \/ i = m
      BY <2>1, <3>1
    <3>3. \A i \in 1 .. m - 4 : s[i] \notin {"pod", "-pod"}
      BY <3>1 DEF Plain
    <3>4. TierName(s, driver) = <<qos>>
      BY <1>5, <2>3, TierRead
    <3> QED
      BY <2>0, <2>1, <3>1, <3>2, <3>3, <3>4
  <2> QED
    BY <2>2, <2>3 DEF Drivers
<1>6. InKubepodsTree(path)
  BY <1>1, <1>2, <1>4 DEF InKubepodsTree
<1>7. ASSUME NEW i \in 1 .. n PROVE PodSegment(path[i]).uid = << >>
  <2>1. CASE i \in 1 .. k - 1
    <3>1. \A j \in 1 .. Len(path[i]) : path[i][j] \notin {"pod", "-pod"}
      BY <1>1, <2>1 DEF Plain
    <3> QED
      BY <1>2, <3>1, NoPodRead
  <2>2. CASE i = k
    BY <1>1, <1>2, <1>4, <2>2, NoPodRead
  <2>3. CASE i = n /\ n = k + 1
    BY <1>1, <1>2, <1>5, <2>3, NoPodRead
  <2> QED
    BY <1>3, <2>1, <2>2, <2>3
<1>8. ASSUME NEW i \in 1 .. n, i # n \/ qos = "guaranteed"
      PROVE  TierName(path[i], driver) \notin TierNames
  <2>0. "guaranteed" \notin Tiers
    BY DEF Tiers
  <2>1. i \in 1 .. k - 1 \/ i = k
    BY <1>1, <1>3, <1>8, <2>0
  <2> QED
    BY <1>1, <1>2, <2>1, OthersAreNoTier
<1>9. qos # "guaranteed" => TierName(path[n], driver) = <<qos>>
  BY <1>1, <1>2, <1>5
<1> QED
  BY <1>1, <1>6, <1>7, <1>8, <1>9

\* cgrouppath.go ParseCgroupPath: whatever pod or container the kubelet and a runtime made a
\* cgroup for, under either driver, in any tier and below any cgroup root that names neither
\* a pod nor a tier, the parser reads back which it is.
THEOREM ParserReadsNames ==
    ASSUME NEW path, NEW scope, Encodes(path, scope)
    PROVE  ParseCgroupPath(path) = scope
<1>1. path \in Seq(Segment) /\ Len(path) \in Nat /\ \A i \in 1 .. Len(path) : path[i] \in Segment
  BY LenProperties, ElementOfSeq DEF Encodes
<1>2. PICK uid, qos, driver :
        /\ uid = scope.uid /\ qos = scope.qos /\ driver = scope.driver
        /\ driver \in Drivers /\ scope \in Scopes
  BY DEF Encodes, Scopes
<1>3. PICK n \in 1 .. Len(path) :
         /\ TreeOf(path, n, qos, driver)
         /\ \/ /\ scope.kind = "pod" /\ Len(path) = n + 1
               /\ PodDir(path[n + 1], uid, driver)
               /\ scope.id = << >> /\ scope.runtime = "unknown"
            \/ /\ scope.kind = "container" /\ Len(path) = n + 2
               /\ PodDir(path[n + 1], uid, driver)
               /\ ContainerDir(path[n + 2], scope.id, scope.runtime, driver)
  BY <1>2 DEF Encodes
<1>4. n \in Nat /\ n + 1 \in 1 .. Len(path) /\ n + 1 <= Len(path) /\ ~ (Len(path) < 2)
  BY <1>1, <1>3
<1>5. /\ InKubepodsTree(path) /\ qos \in Tiers \cup {"guaranteed"}
      /\ \A i \in 1 .. n : PodSegment(path[i]).uid = << >>
      /\ \A i \in 1 .. n : i # n \/ qos = "guaranteed" => TierName(path[i], driver) \notin TierNames
      /\ qos # "guaranteed" => TierName(path[n], driver) = <<qos>>
  BY <1>1, <1>2, <1>3, TreeIs
<1>6. PodSegment(path[n + 1]) = [uid |-> uid, driver |-> driver] /\ uid # << >>
  BY <1>1, <1>3, <1>4, PodRead
<1>7. \A i \in 1 .. Len(path) : ~ (i <= n) => TierName(path[i], driver) \notin TierNames
  <2>1. TierName(path[n + 1], driver) \notin TierNames
    BY <1>1, <1>2, <1>3, <1>4, OthersAreNoTier
  <2>2. Len(path) = n + 2 => TierName(path[n + 2], driver) \notin TierNames
    <3>1. SUFFICES ASSUME Len(path) = n + 2 PROVE TierName(path[n + 2], driver) \notin TierNames
      OBVIOUS
    <3>2. n + 2 \in 1 .. Len(path) /\ Len(path) # n + 1
      BY <1>1, <1>4, <3>1
    <3>3. ContainerDir(path[n + 2], scope.id, scope.runtime, driver)
      BY <1>3, <3>2
    <3> QED
      BY <1>1, <1>2, <3>2, <3>3, OthersAreNoTier
  <2>3. \A i \in 1 .. Len(path) : ~ (i <= n) => i = n + 1 \/ (i = n + 2 /\ Len(path) = n + 2)
    BY <1>1, <1>3, <1>4
  <2> QED
    BY <2>1, <2>2, <2>3
<1>8. QoS(path, driver) = qos
  <2>1. \A i \in 1 .. Len(path) : i \in 1 .. n \/ ~ (i <= n)
    BY <1>1, <1>4
  <2>2. CASE qos = "guaranteed"
    <3>1. \A i \in 1 .. Len(path) : TierName(path[i], driver) \notin TierNames
      BY <1>5, <1>7, <2>1, <2>2
    <3> QED
      BY <1>1, <1>5, <2>2, <3>1, QoSRead
  <2>3. CASE qos # "guaranteed"
    <3>1. \A i \in 1 .. Len(path) : i # n => TierName(path[i], driver) \notin TierNames
      BY <1>5, <1>7, <2>1
    <3> QED
      BY <1>1, <1>3, <1>5, <2>3, <3>1, QoSRead
  <2> QED
    BY <2>2, <2>3
<1>9. path # << >>
  BY <1>1, <1>4, EmptySeq
<1>10. CASE scope.kind = "pod" /\ Len(path) = n + 1
  <2>1. scope = [kind |-> "pod", uid |-> uid, id |-> << >>, runtime |-> "unknown",
                 driver |-> driver, qos |-> qos]
    BY <1>2, <1>3, <1>10 DEF Scopes
  <2>2. Len(path) - 1 = n
    BY <1>4, <1>10
  <2>3. PICK parent : parent = PodSegment(path[n])
    OBVIOUS
  <2>4. parent.uid = << >>
    BY <1>4, <1>5, <2>3
  <2>5. ContainerScope(path) = NoScope
    BY <2>2, <2>3, <2>4 DEF ContainerScope
  <2>6. PodScope(path) = [kind |-> "pod", uid |-> uid, id |-> << >>, runtime |-> "unknown",
                          driver |-> driver, qos |-> qos]
    <3>1. PICK pod : pod = PodSegment(path[n + 1])
      OBVIOUS
    <3>2. pod.uid = uid /\ pod.driver = driver
      BY <1>6, <3>1
    <3> QED
      BY <1>5, <1>6, <1>8, <1>10, <3>1, <3>2 DEF PodScope, MayNamePod
  <2> QED
    BY <1>9, <2>1, <2>5, <2>6 DEF ParseCgroupPath
<1>11. CASE scope.kind = "container" /\ Len(path) = n + 2
  <2>1. scope = [kind |-> "container", uid |-> uid, id |-> scope.id, runtime |-> scope.runtime,
                 driver |-> driver, qos |-> qos]
    BY <1>2, <1>3, <1>11 DEF Scopes
  <2>2. n + 2 \in 1 .. Len(path) /\ Len(path) - 1 = n + 1 /\ Len(path) # n + 1
    BY <1>4, <1>11
  <2>3. /\ ContainerSegment(path[n + 2], driver) = [id |-> scope.id, runtime |-> scope.runtime]
        /\ scope.id # << >>
    BY <1>1, <1>3, <2>2, ContainerRead
  <2>4. PICK pod : pod = PodSegment(path[n + 1])
    OBVIOUS
  <2>5. pod.uid = uid /\ pod.driver = driver
    BY <1>6, <2>4
  <2>6. PICK container : container = ContainerSegment(path[n + 2], driver)
    OBVIOUS
  <2>7. container.id = scope.id /\ container.runtime = scope.runtime
    BY <2>3, <2>6
  <2>8. ContainerScope(path) =
           [kind |-> "container", uid |-> uid, id |-> scope.id, runtime |-> scope.runtime,
            driver |-> driver, qos |-> qos]
    BY <1>4, <1>6, <1>8, <1>11, <2>2, <2>3, <2>4, <2>5, <2>6, <2>7 DEF ContainerScope
  <2>9. scope # NoScope
    <3>1. scope.kind # NoScope.kind
      BY <1>11 DEF NoScope
    <3> QED
      BY <3>1
  <2> QED
    BY <1>9, <2>1, <2>8, <2>9 DEF ParseCgroupPath
<1> QED
  BY <1>3, <1>10, <1>11

\* cgrouppath.go ParseCgroupPath reports false for what is above the pods, and for what is
\* outside of their tree unless it lies below something named as a pod.
LEMMA OutsideIsNothing ==
    ASSUME NEW path, Outside(path)
    PROVE  ParseCgroupPath(path) = NoScope
<1>1. /\ path \in Seq(Segment) /\ path # << >> /\ Len(path) \in Nat \ {0}
      /\ \A i \in 1 .. Len(path) : path[i] \in Segment
  BY LenProperties, ElementOfSeq, EmptySeq DEF Outside
<1>2. PICK n \in Nat \ {0} : n = Len(path)
  BY <1>1
<1>3. n \in 1 .. n /\ (~ (n < 2) => n - 1 \in 1 .. n)
  BY <1>2
<1>4. CASE \E qos \in Tiers \cup {"guaranteed"}, driver \in Drivers : TreeOf(path, n, qos, driver)
  <2>1. \A i \in 1 .. n : PodSegment(path[i]).uid = << >>
    BY <1>1, <1>2, <1>3, <1>4, TreeIs
  <2>2. ContainerScope(path) = NoScope
    BY <1>2, <1>3, <2>1 DEF ContainerScope
  <2>3. PodScope(path) = NoScope
    BY <1>2, <1>3, <2>1 DEF PodScope
  <2> QED
    BY <1>1, <2>2, <2>3 DEF ParseCgroupPath
<1>5. CASE ~ InKubepodsTree(path) /\ (n > 1 => Plain(path[n - 1], Len(path[n - 1])))
  <2>1. ContainerScope(path) = NoScope
    <3>1. CASE n < 2
      BY <1>2, <3>1 DEF ContainerScope
    <3>2. CASE ~ (n < 2)
      <4>1. Plain(path[n - 1], Len(path[n - 1])) /\ path[n - 1] \in Segment
        BY <1>1, <1>2, <1>3, <1>5, <3>2
      <4>2. PodSegment(path[n - 1]).uid = << >>
        BY <4>1, NoPodRead DEF Plain
      <4> QED
        BY <1>2, <4>2 DEF ContainerScope
    <3> QED
      BY <3>1, <3>2
  <2>2. PodScope(path) = NoScope
    BY <1>5 DEF PodScope, MayNamePod
  <2> QED
    BY <1>1, <2>1, <2>2 DEF ParseCgroupPath
<1> QED
  BY <1>2, <1>4, <1>5 DEF Outside

-----------------------------------------------------------------------------
\* Where the daemon's cgroup namespace begins beside the path: the two part at once.
Beside(path, root) ==
    /\ path \in Seq(Segment) \ {<< >>} /\ \A i \in 1 .. Len(path) : path[i] # Up
    /\ root \in Seq(Segment) /\ (root = << >> \/ root[1] # path[1])

\* kernfs_path_from_node: then the kernel climbs from the root of the namespace to the real
\* one and writes the whole path.
LEMMA WrittenIs ==
    ASSUME NEW path, NEW root, Beside(path, root)
    PROVE  LET written == Written(path, root) IN
           /\ written \in Seq(Segment \cup {Up}) /\ Len(written) = Len(root) + Len(path)
           /\ \A i \in 1 .. Len(root) : written[i] = Up
           /\ \A i \in 1 .. Len(path) : written[Len(root) + i] = path[i]
<1>1. /\ path \in Seq(Segment) /\ path # << >> /\ Len(path) \in Nat \ {0}
      /\ root \in Seq(Segment) /\ Len(root) \in Nat
  BY LenProperties, EmptySeq DEF Beside
<1> DEFINE Steps == Segment \cup {Up}
<1> DEFINE Common(n) == /\ n <= Len(path) /\ SubSeq(root, 1, n) = SubSeq(path, 1, n)
                        /\ n < Len(root) /\ n < Len(path) => root[n + 1] # path[n + 1]
<1>2. Shared(root, path) = CHOOSE n \in 0 .. Len(root) : Common(n)
  BY DEF Shared
<1>3. Common(0) /\ 0 \in 0 .. Len(root)
  <2>1. SubSeq(root, 1, 0) = << >> /\ SubSeq(path, 1, 0) = << >>
    BY <1>1, SubSeqEmpty
  <2>2. 0 < Len(root) => root[1] # path[1]
    BY <1>1, EmptySeq DEF Beside
  <2> QED
    BY <1>1, <2>1, <2>2
<1>4. ASSUME NEW n \in 0 .. Len(root), Common(n) PROVE n = 0
  <2>1. SUFFICES ASSUME n # 0 PROVE FALSE
    OBVIOUS
  <2>2. n \in Nat /\ n \in 1 .. Len(root) /\ n \in 1 .. Len(path) /\ 1 \in 1 .. n /\ 1 + 1 - 1 = 1
    BY <1>1, <1>4, <2>1
  <2>3. SubSeq(root, 1, n)[1] = root[1]
    <3>1. \A i \in 1 .. n : root[i] \in Segment
      BY <1>1, <2>2
    <3>2. \A i \in 1 .. n - 1 + 1 : SubSeq(root, 1, n)[i] = root[1 + i - 1]
      BY <2>2, <3>1, SubSeqProperties
    <3> QED
      BY <2>2, <3>2
  <2>4. SubSeq(path, 1, n)[1] = path[1]
    <3>1. \A i \in 1 .. n : path[i] \in Segment
      BY <1>1, <2>2
    <3>2. \A i \in 1 .. n - 1 + 1 : SubSeq(path, 1, n)[i] = path[1 + i - 1]
      BY <2>2, <3>1, SubSeqProperties
    <3> QED
      BY <2>2, <3>2
  <2>5. root # << >>
    BY <1>1, <2>2, EmptySeq
  <2> QED
    BY <1>4, <2>3, <2>4, <2>5 DEF Beside
<1>5. Shared(root, path) = 0
  <2> HIDE DEF Common
  <2> QED
    BY <1>2, <1>3, <1>4
<1>6. PICK climb : climb = [i \in 1 .. Len(root) |-> Up]
  OBVIOUS
<1>7. climb \in Seq(Steps) /\ Len(climb) = Len(root) /\ \A i \in 1 .. Len(root) : climb[i] = Up
  BY <1>1, <1>6
<1>8. Written(path, root) = climb \o path
  <2>1. Len(root) - 0 = Len(root) /\ 0 + 1 = 1
    BY <1>1
  <2>2. SubSeq(path, 1, Len(path)) = path
    BY <1>1, SubSeqFull
  <2> QED
    BY <1>5, <1>6, <2>1, <2>2 DEF Written
<1>9. /\ climb \o path \in Seq(Steps) /\ Len(climb \o path) = Len(climb) + Len(path)
      /\ \A i \in 1 .. Len(climb) + Len(path) :
            (climb \o path)[i] = IF i <= Len(climb) THEN climb[i] ELSE path[i - Len(climb)]
  <2>1. path \in Seq(Steps)
    BY <1>1
  <2> QED
    BY <1>7, <2>1, ConcatProperties
<1>10. /\ \A i \in 1 .. Len(root) : i \in 1 .. Len(root) + Len(path) /\ i <= Len(root)
       /\ \A i \in 1 .. Len(path) :
            /\ Len(root) + i \in 1 .. Len(root) + Len(path) /\ ~ (Len(root) + i <= Len(root))
            /\ Len(root) + i - Len(root) = i
  BY <1>1
<1>11. PICK written : written = climb \o path
  OBVIOUS
<1>12. /\ \A i \in 1 .. Len(root) : written[i] = Up
       /\ \A i \in 1 .. Len(path) : written[Len(root) + i] = path[i]
  BY <1>7, <1>9, <1>10, <1>11
<1> QED
  BY <1>7, <1>8, <1>9, <1>11, <1>12

\* normaliseCgroupPath: a climb to the real root goes, and what follows it stays.
LEMMA CleanedIs ==
    ASSUME NEW path \in Seq(Segment \cup {Up}), NEW c \in Nat, NEW rest \in Seq(Segment),
           Len(path) = c + Len(rest), \A i \in 1 .. c : path[i] = Up,
           \A i \in 1 .. Len(rest) : path[c + i] = rest[i] /\ rest[i] # Up
    PROVE  Cleaned(path) = rest
<1> DEFINE n == Len(path)
           Body(g, i) == IF i = 0 THEN << >>
                         ELSE IF path[i] # Up THEN Append(g[i - 1], path[i])
                         ELSE IF g[i - 1] = << >> THEN << >> ELSE Front(g[i - 1])
           Turns(g, m) == g = [i \in 0 .. m |-> Body(g, i)]
           T == {m \in 0 .. n : ~ \E g : Turns(g, m)}
<1>0. n \in Nat /\ Len(rest) \in Nat
  BY LenProperties
<1>1. ASSUME NEW m \in 0 .. n PROVE \E g : Turns(g, m)
  <2> SUFFICES ASSUME T # {} PROVE FALSE
    OBVIOUS
  <2>1. PICK k \in T : \A i \in T : k <= i
    <3>1. T \subseteq Nat /\ T # {}
      BY <1>0
    <3> HIDE DEF T
    <3> QED
      BY <3>1, LeastExists
  <2>2. k \in 0 .. n /\ ~ \E g : Turns(g, k)
    BY <2>1
  <2>3. k # 0
    <3>1. PICK g : g = [i \in 0 .. 0 |-> << >>]
      OBVIOUS
    <3>2. Turns(g, 0)
      BY <3>1
    <3> QED
      BY <2>2, <3>2
  <2>4. k \in 1 .. n /\ k - 1 \in 0 .. n /\ ~ (k <= k - 1)
    BY <1>0, <2>2, <2>3
  <2>5. PICK g : Turns(g, k - 1)
    <3> HIDE DEF Turns
    <3> QED
      BY <2>1, <2>4
  <2>6. PICK h : h = [i \in 0 .. k |-> IF i = k THEN Body(g, k) ELSE g[i]]
    OBVIOUS
  <2>7. \A i \in 0 .. k - 1 : g[i] = Body(g, i)
    <3> DEFINE F == [i \in 0 .. k - 1 |-> Body(g, i)]
    <3>1. g = F
      BY <2>5
    <3>2. \A i \in 0 .. k - 1 : F[i] = Body(g, i)
      OBVIOUS
    <3> HIDE DEF F, Body
    <3> QED
      BY <3>1, <3>2
  <2>8. \A i \in 0 .. k : h[i] = Body(h, i)
    <3>1. h[k] = Body(g, k) /\ h[k - 1] = g[k - 1] /\ k # 0
      <4> HIDE DEF Body
      <4> QED
        BY <2>4, <2>6
    <3>2. \A i \in 0 .. k - 1 : h[i] = g[i] /\ (i # 0 => h[i - 1] = g[i - 1])
      <4> HIDE DEF Body
      <4> QED
        BY <2>4, <2>6
    <3>3. \A i \in 0 .. k - 1 : Body(h, i) = Body(g, i)
      BY <3>2
    <3>4. Body(h, k) = Body(g, k)
      BY <3>1
    <3>5. \A i \in 0 .. k : i \in 0 .. k - 1 \/ i = k
      BY <2>4
    <3> HIDE DEF Body
    <3> QED
      BY <2>7, <3>1, <3>2, <3>3, <3>4, <3>5
  <2>9. Turns(h, k)
    <3> HIDE DEF Body
    <3> QED
      BY <2>6, <2>8
  <2> QED
    BY <2>2, <2>9
<1>2. \E g : Turns(g, n)
  <2>1. n \in 0 .. n
    BY <1>0
  <2> HIDE DEF Turns, n
  <2> QED
    BY <1>1, <2>1
<1> DEFINE upTo == CHOOSE g : g = [i \in 0 .. n |-> Body(g, i)]
<1>3. upTo = [i \in 0 .. n |-> Body(upTo, i)]
  BY <1>2
<1>4. Cleaned(path) = upTo[n]
  BY DEF Cleaned
<1> HIDE DEF upTo
<1>5. upTo[0] = << >> /\ \A i \in 1 .. n : upTo[i] = Body(upTo, i)
  <2> DEFINE F == [i \in 0 .. n |-> Body(upTo, i)]
  <2>1. upTo = F
    BY <1>3
  <2>2. F[0] = << >> /\ \A i \in 1 .. n : F[i] = Body(upTo, i)
    BY <1>0
  <2> HIDE DEF F, Body
  <2> QED
    BY <2>1, <2>2
<1> DEFINE Kept(s, m) == /\ s \in Seq(Segment) /\ Len(s) = IF m <= c THEN 0 ELSE m - c
                         /\ \A i \in 1 .. Len(s) : s[i] = rest[i]
           U == {m \in 0 .. n : ~ Kept(upTo[m], m)}
<1>6. U = {}
  <2> SUFFICES ASSUME U # {} PROVE FALSE
    OBVIOUS
  <2>1. PICK m \in U : \A k \in U : m <= k
    <3>1. U \subseteq Nat /\ U # {}
      BY <1>0
    <3> HIDE DEF U
    <3> QED
      BY <3>1, LeastExists
  <2>2. m \in 0 .. n /\ ~ Kept(upTo[m], m)
    BY <2>1
  <2>3. m # 0
    <3>1. Kept(<< >>, 0)
      OBVIOUS
    <3> HIDE DEF Kept
    <3> QED
      BY <1>5, <2>2, <3>1
  <2>4. m \in 1 .. n /\ m - 1 \in 0 .. n /\ m - 1 \in Nat /\ ~ (m <= m - 1)
    BY <1>0, <2>2, <2>3
  <2>5. PICK s : s = upTo[m - 1] /\ Kept(s, m - 1)
    <3>1. m - 1 \notin U
      <4> HIDE DEF U
      <4> QED
        BY <2>1, <2>4
    <3>2. Kept(upTo[m - 1], m - 1)
      <4> HIDE DEF Kept
      <4> QED
        BY <2>4, <3>1
    <3> QED
      BY <3>2
  <2>6. upTo[m] = IF path[m] # Up THEN Append(s, path[m])
                  ELSE IF s = << >> THEN << >> ELSE Front(s)
    BY <1>5, <2>3, <2>4, <2>5
  <2>7. CASE m <= c
    <3>1. path[m] = Up /\ m - 1 <= c
      BY <2>4, <2>7
    <3>2. s = << >>
      BY <2>5, <3>1, EmptySeq
    <3>3. upTo[m] = s /\ Kept(s, m)
      BY <2>5, <2>6, <2>7, <3>1, <3>2
    <3> QED
      BY <2>2, <3>3
  <2>8. CASE ~ (m <= c)
    <3>1. PICK i \in 1 .. Len(rest) : m = c + i
      <4>1. m - c \in 1 .. Len(rest) /\ m = c + (m - c)
        BY <1>0, <2>4, <2>8
      <4> QED
        BY <4>1
    <3>2. path[m] = rest[i] /\ rest[i] # Up /\ i \in Nat /\ rest[i] \in Segment
      BY <1>0, <3>1, ElementOfSeq
    <3>3. s \in Seq(Segment) /\ Len(s) = i - 1 /\ \A j \in 1 .. i - 1 : s[j] = rest[j]
      <4>1. (IF m - 1 <= c THEN 0 ELSE m - 1 - c) = i - 1
        <5>1. CASE i = 1
          BY <3>1, <5>1
        <5>2. CASE i # 1
          <6>1. ~ (m - 1 <= c) /\ m - 1 - c = i - 1
            BY <3>1, <3>2, <5>2
          <6> QED
            BY <6>1
        <5> QED
          BY <5>1, <5>2
      <4> QED
        BY <2>5, <4>1
    <3>4. upTo[m] = Append(s, rest[i])
      BY <2>6, <3>2
    <3>5. /\ upTo[m] \in Seq(Segment) /\ Len(upTo[m]) = i
          /\ \A j \in 1 .. i : upTo[m][j] = rest[j]
      <4>1. /\ Append(s, rest[i]) \in Seq(Segment) /\ Len(Append(s, rest[i])) = Len(s) + 1
            /\ \A j \in 1 .. Len(s) : Append(s, rest[i])[j] = s[j]
            /\ Append(s, rest[i])[Len(s) + 1] = rest[i]
        <5>1. s \in Seq(Segment) /\ rest[i] \in Segment
          BY <3>2, <3>3
        <5> QED
          BY <5>1, AppendProperties
      <4>2. Len(s) + 1 = i /\ \A j \in 1 .. i : j \in 1 .. i - 1 \/ j = i
        BY <3>2, <3>3
      <4> QED
        BY <3>3, <3>4, <4>1, <4>2
    <3>6. m - c = i
      BY <3>1, <3>2
    <3> QED
      BY <2>2, <2>8, <3>5, <3>6
  <2> QED
    BY <2>7, <2>8
<1>7. Kept(upTo[n], n)
  <2>1. n \in 0 .. n
    BY <1>0
  <2> HIDE DEF Kept, n
  <2> QED
    BY <1>6, <2>1
<1>8. (IF n <= c THEN 0 ELSE n - c) = Len(rest)
  BY <1>0
<1> QED
  BY <1>4, <1>7, <1>8, SeqEqual

LEMMA LastOfIs ==
    ASSUME NEW lines, NEW hits \in SUBSET Nat, NEW k \in hits, \A j \in hits : j <= k
    PROVE  LastOf(lines, hits) = lines[k].path
<1>1. \A i \in hits : (\A j \in hits : j <= i) => i = k
  OBVIOUS
<1>2. (CHOOSE i \in hits : \A j \in hits : j <= i) = k
  BY <1>1
<1> QED
  BY <1>2 DEF LastOf

\* A line is as its fields, and a file as its lines.
LEMMA LinesAre ==
    ASSUME NEW written
    PROVE  LET legacy == << Line({"cpu", "cpuacct"}, written), Line({"memory"}, written),
                            Line({"name=systemd"}, << >>) >>
               unified == << Line({}, written) >>
               both == legacy \o unified
           IN  /\ DOMAIN unified = 1 .. 1 /\ unified[1] = Line({}, written)
               /\ DOMAIN legacy = 1 .. 3 /\ legacy[1] = Line({"cpu", "cpuacct"}, written)
               /\ legacy[2] = Line({"memory"}, written)
               /\ legacy[3] = Line({"name=systemd"}, << >>)
               /\ DOMAIN both = 1 .. 4
               /\ \A i \in 1 .. 3 : both[i] = legacy[i]
               /\ both[4] = Line({}, written)
<1>1. PICK x, y, z, w : /\ x = Line({"cpu", "cpuacct"}, written) /\ y = Line({"memory"}, written)
                        /\ z = Line({"name=systemd"}, << >>) /\ w = Line({}, written)
  OBVIOUS
<1> DEFINE legacy == <<x, y, z>>
           unified == <<w>>
           L == {x, y, z, w}
<1>2. /\ legacy \in Seq(L) /\ Len(legacy) = 3 /\ legacy[1] = x /\ legacy[2] = y /\ legacy[3] = z
      /\ unified \in Seq(L) /\ Len(unified) = 1 /\ unified[1] = w
  OBVIOUS
<1>3. /\ legacy \o unified \in Seq(L)
      /\ Len(legacy \o unified) = Len(legacy) + Len(unified)
      /\ \A i \in 1 .. Len(legacy) + Len(unified) :
            (legacy \o unified)[i] = IF i <= Len(legacy) THEN legacy[i]
                                     ELSE unified[i - Len(legacy)]
  BY <1>2, ConcatProperties
<1>4. PICK both : both = legacy \o unified
  OBVIOUS
<1>5. Len(both) = 4 /\ \A i \in 1 .. 4 : both[i] = IF i <= 3 THEN legacy[i] ELSE unified[i - 3]
  BY <1>2, <1>3, <1>4
<1>6. DOMAIN both = 1 .. 4 /\ DOMAIN legacy = 1 .. 3 /\ DOMAIN unified = 1 .. 1
  BY <1>2, <1>3, <1>4, <1>5, LenProperties
<1>7. both[4] = w /\ \A i \in 1 .. 3 : both[i] = legacy[i]
  BY <1>2, <1>5
<1> QED
  BY <1>1, <1>2, <1>4, <1>6, <1>7

\* ParseCgroup: whichever hierarchies there are, the path is the process's.
THEOREM ProcFileNamesThePath ==
    ASSUME NEW path, NEW root, Beside(path, root), NEW file \in CgroupFiles(path, root)
    PROVE  ParseCgroup(file) = path
<1>1. PICK written : written = Written(path, root)
  OBVIOUS
<1>2. /\ written \in Seq(Segment \cup {Up}) /\ Len(written) = Len(root) + Len(path)
      /\ \A i \in 1 .. Len(root) : written[i] = Up
      /\ \A i \in 1 .. Len(path) : written[Len(root) + i] = path[i]
  BY <1>1, WrittenIs
<1>3. /\ path \in Seq(Segment) /\ Len(path) \in Nat \ {0} /\ Len(root) \in Nat
      /\ \A i \in 1 .. Len(path) : path[i] # Up
  BY LenProperties, EmptySeq DEF Beside
<1>4. Cleaned(written) = path
  BY <1>2, <1>3, CleanedIs
<1>5. written # NoLine
  <2>1. SUFFICES ASSUME written = NoLine PROVE FALSE
    OBVIOUS
  <2>2. Len(written) = 1 /\ written[1] = Up
    BY <2>1 DEF NoLine
  <2>3. Len(path) = 1 /\ Len(root) + 1 = 1 /\ 1 \in 1 .. Len(path)
    BY <1>2, <1>3, <2>2
  <2>4. written[1] = path[1]
    BY <1>2, <2>3
  <2> QED
    BY <1>3, <2>2, <2>3, <2>4
<1> DEFINE Unified(lines) == {i \in DOMAIN lines : lines[i].controllers = {}}
           Memory(lines) == {i \in DOMAIN lines : "memory" \in lines[i].controllers}
<1>6. PICK legacy, unified, both :
        /\ legacy = << Line({"cpu", "cpuacct"}, written), Line({"memory"}, written),
                       Line({"name=systemd"}, << >>) >>
        /\ unified = << Line({}, written) >> /\ both = legacy \o unified
  OBVIOUS
<1>7. /\ DOMAIN unified = 1 .. 1 /\ unified[1] = Line({}, written)
      /\ DOMAIN legacy = 1 .. 3 /\ legacy[1] = Line({"cpu", "cpuacct"}, written)
      /\ legacy[2] = Line({"memory"}, written) /\ legacy[3] = Line({"name=systemd"}, << >>)
      /\ DOMAIN both = 1 .. 4 /\ \A i \in 1 .. 3 : both[i] = legacy[i]
      /\ both[4] = Line({}, written)
  BY <1>6, LinesAre
<1>8. \A controllers : /\ Line(controllers, written).controllers = controllers
                       /\ Line(controllers, written).path = written
                       /\ Line(controllers, << >>).controllers = controllers
  BY DEF Line
<1>9. Unified(unified) = {1}
  BY <1>7, <1>8
<1>10. Unified(legacy) = {} /\ Memory(legacy) = {2}
  <2>1. legacy[1].controllers = {"cpu", "cpuacct"} /\ legacy[2].controllers = {"memory"}
        /\ legacy[3].controllers = {"name=systemd"}
    BY <1>7, <1>8
  <2>2. \A i \in DOMAIN legacy : i = 1 \/ i = 2 \/ i = 3
    BY <1>7
  <2>3. 1 \in DOMAIN legacy /\ 2 \in DOMAIN legacy /\ 3 \in DOMAIN legacy
    BY <1>7
  <2> QED
    BY <2>1, <2>2, <2>3
<1>11. Unified(both) = {4}
  <2>1. both[1].controllers = {"cpu", "cpuacct"} /\ both[2].controllers = {"memory"}
        /\ both[3].controllers = {"name=systemd"} /\ both[4].controllers = {}
    BY <1>7, <1>8
  <2>2. \A i \in DOMAIN both : i = 1 \/ i = 2 \/ i = 3 \/ i = 4
    BY <1>7
  <2>3. 4 \in DOMAIN both
    BY <1>7
  <2> QED
    BY <2>1, <2>2, <2>3
<1>12. /\ LastOf(unified, Unified(unified)) = written /\ LastOf(both, Unified(both)) = written
       /\ LastOf(legacy, Memory(legacy)) = written /\ LastOf(legacy, Unified(legacy)) = NoLine
  <2>1. LastOf(legacy, {}) = NoLine
    BY DEF LastOf
  <2>2. LastOf(unified, {1}) = unified[1].path
    BY LastOfIs
  <2>3. LastOf(both, {4}) = both[4].path
    BY LastOfIs
  <2>4. LastOf(legacy, {2}) = legacy[2].path
    BY LastOfIs
  <2>5. /\ unified[1].path = written /\ both[4].path = written /\ legacy[2].path = written
    BY <1>7, <1>8
  <2> HIDE DEF Unified, Memory
  <2> QED
    BY <1>9, <1>10, <1>11, <2>1, <2>2, <2>3, <2>4, <2>5
<1>13. file = unified \/ file = legacy \/ file = both
  BY <1>1, <1>6 DEF CgroupFiles
<1>14. ParseCgroup(unified) = path
  BY <1>4, <1>5, <1>12 DEF ParseCgroup
<1>15. ParseCgroup(both) = path
  BY <1>4, <1>5, <1>12 DEF ParseCgroup
<1>16. ParseCgroup(legacy) = path
  BY <1>4, <1>5, <1>12 DEF ParseCgroup
<1> QED
  BY <1>13, <1>14, <1>15, <1>16

\* What a name that the kubelet gave says of the pod is never empty.
LEMMA EncodedIs ==
    ASSUME NEW path, NEW scope, Encodes(path, scope)
    PROVE  /\ scope.kind \in {"pod", "container"} /\ scope.uid # << >>
           /\ scope.id = << >> <=> scope.kind = "pod"
<1>1. scope \in Scopes
  BY DEF Encodes
<1>2. \A segment, driver : PodDir(segment, scope.uid, driver) => scope.uid # << >>
  <2> SUFFICES ASSUME NEW segment, NEW driver, PodDir(segment, scope.uid, driver)
               PROVE  scope.uid # << >>
    OBVIOUS
  <2>1. \A u : <<u>> # << >> /\ Len(<<u>>) = 1 /\ DOMAIN <<u>> = 1 .. 1
    OBVIOUS
  <2>2. CASE \E u : scope.uid = <<u>>
    BY <2>1, <2>2
  <2>3. CASE \E u : scope.uid = Unescaped(<<u>>)
    <3>1. PICK u : scope.uid = Unescaped(<<u>>)
      BY <2>3
    <3>2. DOMAIN Unescaped(<<u>>) = 1 .. 1
      BY <2>1 DEF Unescaped
    <3>3. 1 \in DOMAIN scope.uid /\ 1 \notin DOMAIN << >>
      BY <3>1, <3>2
    <3> QED
      BY <3>3
  <2> QED
    BY <2>2, <2>3 DEF PodDir
<1>3. \A segment, runtime, driver : ContainerDir(segment, scope.id, runtime, driver)
                                        => scope.id # << >>
  BY DEF ContainerDir
<1> QED
  BY <1>1, <1>2, <1>3 DEF Encodes, Scopes

-----------------------------------------------------------------------------
\* How the kubelet, the runtimes and the administrator name cgroups: a pod's and a
\* container's by their encoding, the host's as nothing that looks like one; and the daemon
\* is not in a cgroup namespace that begins in the part of the tree it watches.  A pod of
\* the cluster has a name.
NamedByKubelet ==
    /\ \A layout \in Layouts, p \in Path :
          /\ Beside(layout.segments[p], layout.root)
          /\ \/ Encodes(layout.segments[p], layout.scope[p])
             \/ Outside(layout.segments[p]) /\ layout.scope[p] = NoScope
    /\ \A uid \in DOMAIN Pods : Pods[uid].name # ""

\* daemon.go buildReport with procfs/parse.go ParseCgroup, cgrouppath.go ParseCgroupPath and
\* resolver.go Resolve: however its path was found and under any hierarchy, a report
\* identifies what the kubelet encoded in it and what the cluster knows of that; a kill
\* outside of the tree makes no report, and the text leaves no pod or container blank.
THEOREM TracedReportIdentifies == ASSUME NamedByKubelet PROVE Spec => []ReportIdentifies
<1>1. ASSUME NEW layout \in Layouts, NEW p \in Path
      PROVE  LET scope == layout.scope[p] IN
             \A identity \in Identities[layout][p] :
                /\ identity.scope = scope
                /\ identity.pod # "" <=> scope # NoScope /\ scope.uid \in DOMAIN Pods
                /\ identity.container # "" => scope.kind = "container"
                /\ scope # NoScope =>
                      /\ PodLine(identity) # << >>
                      /\ ContainerLine(identity) = << >> <=> scope.kind = "pod"
  <2>1. PICK path, scope : path = layout.segments[p] /\ scope = layout.scope[p]
    OBVIOUS
  <2>2. /\ Beside(path, layout.root)
        /\ Encodes(path, scope) \/ (Outside(path) /\ scope = NoScope)
    <3>1. /\ Beside(layout.segments[p], layout.root)
          /\ \/ Encodes(layout.segments[p], layout.scope[p])
             \/ Outside(layout.segments[p]) /\ layout.scope[p] = NoScope
      BY DEF NamedByKubelet
    <3> QED
      BY <2>1, <3>1
  <2>3. ParseCgroupPath(path) = scope
    BY <2>2, ParserReadsNames, OutsideIsNothing
  <2>4. scope = NoScope \/ /\ scope.kind \in {"pod", "container"} /\ scope.uid # << >>
                           /\ scope.id = << >> <=> scope.kind = "pod"
    BY <2>2, EncodedIs
  <2>5. NamesOf(layout, p) = {path}
    BY <2>1, <2>2, ProcFileNamesThePath DEF NamesOf
  <2>6. Identities[layout][p] = {Resolve(path, Pods)}
    <3>1. Identities[layout][p] = {Resolve(name, Pods) : name \in NamesOf(layout, p)}
      BY DEF Identities
    <3>2. {Resolve(name, Pods) : name \in {path}} = {Resolve(path, Pods)}
      OBVIOUS
    <3> QED
      BY <2>5, <3>1, <3>2
  <2>7. PICK identity : identity = Resolve(path, Pods)
    OBVIOUS
  <2> DEFINE known == scope # NoScope /\ scope.uid \in DOMAIN Pods
             named == known /\ scope.kind = "container"
                      /\ scope.id \in DOMAIN Pods[scope.uid].containers
  <2>8. /\ identity.scope = scope
        /\ identity.pod = IF known THEN Pods[scope.uid].name ELSE ""
        /\ identity.container = IF named THEN Pods[scope.uid].containers[scope.id] ELSE ""
    BY <2>3, <2>7 DEF Resolve
  <2>9. identity.pod # "" <=> known
    BY <2>8 DEF NamedByKubelet
  <2>10. identity.container # "" => scope.kind = "container"
    BY <2>8
  <2>11. ASSUME scope # NoScope
         PROVE  /\ PodLine(identity) # << >>
                /\ ContainerLine(identity) = << >> <=> scope.kind = "pod"
    <3>1. \A text : <<text>> # << >>
      OBVIOUS
    <3>2. PodLine(identity) # << >>
      BY <2>4, <2>8, <2>11, <3>1 DEF PodLine
    <3>3. CASE scope.kind = "pod"
      <4>1. identity.container = "" /\ identity.scope.id = << >>
        BY <2>4, <2>8, <2>10, <2>11, <3>3
      <4> QED
        BY <3>2, <3>3, <4>1 DEF ContainerLine
    <3>4. CASE scope.kind = "container"
      <4>1. scope.kind # "pod" /\ identity.scope.id # << >>
        BY <2>4, <2>8, <2>11, <3>4
      <4> QED
        BY <3>1, <3>2, <4>1 DEF ContainerLine
    <3> QED
      BY <2>4, <2>11, <3>2, <3>3, <3>4
  <2> HIDE DEF named
  <2> QED
    BY <2>1, <2>6, <2>7, <2>8, <2>9, <2>10, <2>11
<1>2. ASSUME TracedInv PROVE ReportIdentifies
  <2> SUFFICES ASSUME NEW e \in Entries(chan), NEW layout \in Layouts, e.path # NoPath
               PROVE  LET scope == layout.scope[e.path] IN
                      \A identity \in Identities[layout][e.path] :
                         /\ identity.scope = scope
                         /\ identity.pod # "" <=> scope # NoScope /\ scope.uid \in DOMAIN Pods
                         /\ identity.container # "" => scope.kind = "container"
                         /\ scope # NoScope =>
                               /\ PodLine(identity) # << >>
                               /\ ContainerLine(identity) = << >> <=> scope.kind = "pod"
    BY DEF ReportIdentifies
  <2>1. e \in Events
    BY <1>2 DEF TracedInv, Typed, TypedDetector, Entries
  <2>2. e.path \in Path
    BY <2>1 DEF Events
  <2> QED
    BY <1>1, <2>2
<1> QED
  BY <1>2, TracedInvariant, PTL

\* procfs/parse.go normaliseCgroupPath: for such names and such a daemon the climb is as long
\* as the comment has it, and cleaning gives the absolute path under every hierarchy.
THEOREM TracedCleaningIsAbsolute == ASSUME NamedByKubelet PROVE Spec => []CleaningIsAbsolute
<1>1. ASSUME TracedInv PROVE CleaningIsAbsolute
  <2> SUFFICES ASSUME NEW e \in Entries(chan), NEW layout \in Layouts, e.path # NoPath
               PROVE  NamesOf(layout, e.path) = {layout.segments[e.path]}
    BY DEF CleaningIsAbsolute
  <2>1. e \in Events
    BY <1>1 DEF TracedInv, Typed, TypedDetector, Entries
  <2>2. Beside(layout.segments[e.path], layout.root)
    BY <2>1 DEF Events, NamedByKubelet
  <2> QED
    BY <2>2, ProcFileNamesThePath DEF NamesOf
<1> QED
  BY <1>1, TracedInvariant, PTL

\* cgrouppath.go ParseCgroupPath: for such names what makes a report is in the pods' tree.
THEOREM TracedHostKillsSkipped == ASSUME NamedByKubelet PROVE Spec => []HostKillsSkipped
<1>1. ASSUME TracedInv PROVE HostKillsSkipped
  <2> SUFFICES ASSUME NEW e \in Entries(chan), NEW layout \in Layouts, e.path # NoPath,
                      Resolve(layout.segments[e.path], Pods).scope # NoScope
               PROVE  InKubepodsTree(layout.segments[e.path])
    BY DEF HostKillsSkipped
  <2>1. PICK path, scope : path = layout.segments[e.path] /\ scope = layout.scope[e.path]
    OBVIOUS
  <2>2. ParseCgroupPath(path) # NoScope
    BY <2>1 DEF Resolve
  <2>3. e \in Events
    BY <1>1 DEF TracedInv, Typed, TypedDetector, Entries
  <2>4. Encodes(path, scope) \/ Outside(path)
    BY <2>1, <2>3 DEF Events, NamedByKubelet
  <2>5. Encodes(path, scope)
    BY <2>2, <2>4, OutsideIsNothing
  <2>6. PICK n \in 1 .. Len(path) : TreeOf(path, n, scope.qos, scope.driver)
    BY <2>5 DEF Encodes
  <2>7. path \in Seq(Segment) /\ scope.driver \in Drivers
    BY <2>5 DEF Encodes, Scopes
  <2> QED
    BY <2>1, <2>6, <2>7, TreeIs
<1> QED
  BY <1>1, TracedInvariant, PTL
=============================================================================
