---------------------------- MODULE ProcessListing ----------------------------
(***************************************************************************)
(* How internal/oom takes the victim out of the list of its container's    *)
(* processes.  An entry has a pid, in the numbering of the daemon's /proc, *)
(* and an nsPid, in that of the innermost namespace; the victim has both   *)
(* as its detector saw them, zero when unknown.                            *)
(***************************************************************************)
EXTENDS Integers, SequencesExt

\* victimNSPidIsUnambiguous.
UnambiguousNSPid(procs, nsPid) ==
    nsPid # 0 /\ Cardinality({i \in DOMAIN procs : procs[i].nsPid = nsPid}) = 1

\* Mutant of VictimMatch: the two numberings are taken for one.
HostOnlyMatch(proc, victim, nsMatch) ==
    IF victim.pid # 0 /\ proc.pid = victim.pid THEN "hostPid" ELSE "none"

\* victimMatch: the host PID decides before the PID in the container.
VictimMatch(proc, victim, nsMatch) ==
    IF victim.pid # 0 /\ proc.pid = victim.pid THEN "hostPid"
    ELSE IF nsMatch /\ victim.nsPid # 0 /\ proc.nsPid = victim.nsPid THEN "nsPid"
    ELSE "none"

\* ProcessesFrom: the first entry that matches is left out, the others are kept.
ProcessesFrom(procs, victim) ==
    LET nsMatch == UnambiguousNSPid(procs, victim.nsPid)
        match   == [i \in DOMAIN procs |-> VictimMatch(procs[i], victim, nsMatch)]
        hits    == {i \in DOMAIN procs : match[i] # "none"}
        first   == CHOOSE i \in hits : \A j \in hits : i <= j
    IN  IF hits = {} THEN [listed |-> procs, match |-> "none"]
        ELSE [listed |-> RemoveAt(procs, first), match |-> match[first]]
=============================================================================
