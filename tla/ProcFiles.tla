------------------------------- MODULE ProcFiles -------------------------------
(***************************************************************************)
(* What internal/procfs takes from /proc/<pid>/cgroup and /proc/<pid>/status. *)
(* A path is the sequence of its segments; a line of the cgroup file is its *)
(* set of controllers, empty for the unified hierarchy, and its path, which *)
(* the kernel writes relative to the root of the reader's cgroup namespace. *)
(***************************************************************************)
EXTENDS Integers, SequencesExt

Up == <<"..">>

\* How many leading segments two paths share.
Shared(p, q) ==
    CHOOSE n \in 0 .. Len(p) :
        /\ n <= Len(q) /\ SubSeq(p, 1, n) = SubSeq(q, 1, n)
        /\ n < Len(p) /\ n < Len(q) => p[n + 1] # q[n + 1]

\* The kernel climbs from the reader's root to where the paths part, and descends.
Written(path, root) ==
    [i \in 1 .. Len(root) - Shared(root, path) |-> Up]
        \o SubSeq(path, Shared(root, path) + 1, Len(path))

Line(controllers, path) == [controllers |-> controllers, path |-> path]

\* The file of a process at path, under the unified, the legacy and both hierarchies.
CgroupFiles(path, root) ==
    LET legacy == << Line({"cpu", "cpuacct"}, Written(path, root)),
                     Line({"memory"}, Written(path, root)),
                     Line({"name=systemd"}, << >>) >>
        unified == << Line({}, Written(path, root)) >>
    IN  {unified, legacy, legacy \o unified}

\* normaliseCgroupPath: path.Clean, which drops a climb above the root.
Cleaned(path) ==
    LET upTo[i \in 0 .. Len(path)] ==
          IF i = 0 THEN << >>
          ELSE IF path[i] # Up THEN Append(upTo[i - 1], path[i])
          ELSE IF upTo[i - 1] = << >> THEN << >> ELSE Front(upTo[i - 1])
    IN  upTo[Len(path)]

NoLine == << Up >>

\* The path of the last of these lines, if there is one.
LastOf(lines, hits) ==
    IF hits = {} THEN NoLine ELSE lines[CHOOSE i \in hits : \A j \in hits : j <= i].path

\* Mutant of ParseCgroup: the path is taken as it is written.
Uncleaned(lines) == LastOf(lines, DOMAIN lines)

\* ParseCgroup: the unified line before the memory controller's.
ParseCgroup(lines) ==
    LET unified == LastOf(lines, {i \in DOMAIN lines : lines[i].controllers = {}})
        memory  == LastOf(lines, {i \in DOMAIN lines : "memory" \in lines[i].controllers})
    IN  IF unified # NoLine THEN Cleaned(unified)
        ELSE IF memory # NoLine THEN Cleaned(memory) ELSE NoLine

\* Mutant of NSPidOf: the outermost namespace's.
OutermostPid(status) == IF status.nsPids = << >> THEN status.pid ELSE Head(status.nsPids)

\* ParseStatus: the last of the NSpid line; without one the process is its own view.
NSPidOf(status) ==
    IF status.nsPids = << >> THEN status.pid
    ELSE IF Last(status.nsPids) = 0 THEN status.pid ELSE Last(status.nsPids)
=============================================================================
