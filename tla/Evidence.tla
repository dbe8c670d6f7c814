------------------------------- MODULE Evidence -------------------------------
(***************************************************************************)
(* The sampler, a detector and Daemon.Handle on one clock: kills wait in    *)
(* the event channel while the sampler goes on sampling and evicting, and   *)
(* buildReport takes for a report whatever history is held by then.  An     *)
(* event is reduced to its path and the time of the kill, a report to the   *)
(* times of its trajectory.                                                *)
(***************************************************************************)
EXTENDS Sampler

CONSTANTS Buffer,      \* capacity of the event channel
          MaxKills,    \* bound on the kills
          Never        \* no sample has been taken

ASSUME EvidenceAssumption ==
    Buffer \in Nat \ {0} /\ MaxKills \in Nat /\ Never \notin Time

VARIABLES kills,       \* kills so far
          chan         \* the event channel

evidence == <<kills, chan>>

EvidenceInit == Init /\ kills = 0 /\ chan = << >>

LastSample(p) == IF p \in DOMAIN rings THEN Latest(rings[p]) ELSE Never

\* The OOM killer strikes in p and the detector sends an event.  With it goes, for the
\* properties, the last sample before the kill.
Kill(p) ==
    /\ p \in exists /\ kills < MaxKills /\ Len(chan) < Buffer
    /\ kills' = kills + 1
    /\ chan' = Append(chan, [path |-> p, at |-> clock, seen |-> LastSample(p)])
    /\ UNCHANGED vars

\* Mutant of History: only the cgroups of the last pass have a history.
HistoryOfLive(p) == IF p \in DOMAIN rings /\ p \in live THEN RingSamples(rings[p]) ELSE << >>

\* Sampler.History: a copy, taken under the lock.
History(p) == IF p \in DOMAIN rings THEN RingSamples(rings[p]) ELSE << >>

\* Daemon.Handle, as the loop of Run takes the next event.  The trajectory of its report
\* is History of the event's path, as it is at this step.
HandleKill ==
    /\ chan # << >> /\ chan' = Tail(chan)
    /\ UNCHANGED <<vars, kills>>

EvidenceNext ==
    \/ Next /\ UNCHANGED evidence
    \/ \E p \in Path : Kill(p)
    \/ HandleKill

EvidenceSpec == EvidenceInit /\ [][EvidenceNext]_<<vars, evidence>>

\* What the sampler is given; no kill occurs and none is handled for certain.
FairEvidenceSpec == EvidenceSpec /\ Fairness

-----------------------------------------------------------------------------
EvidenceTypeOK ==
    /\ TypeOK /\ kills \in 0 .. MaxKills /\ Len(chan) <= Buffer
    /\ \A i \in DOMAIN chan :
         chan[i] \in [path : Path, at : Time, seen : Time \cup {Never}]

\* daemon.go buildReport: a trajectory "is absent only when the container appeared and
\* died inside a single sample window".  When the sampler had seen the cgroup before the
\* kill, a report built within the retention of that sample has a trajectory that goes at
\* least that far, however long the event has waited and whatever became of the cgroup.
TrajectoryKept ==
    \A i \in DOMAIN chan :
        LET trajectory == History(chan[i].path) IN
        chan[i].seen # Never /\ clock - chan[i].seen < Retention =>
            trajectory # << >> /\ trajectory[Len(trajectory)] >= chan[i].seen

\* docs/reference/api.md on trajectory: "Memory history leading up to the kill": no
\* sample in it is later than the kill.
TrajectoryLeadsUp ==
    \A i \in DOMAIN chan : \A j \in DOMAIN History(chan[i].path) :
        History(chan[i].path)[j] <= chan[i].at
=============================================================================
