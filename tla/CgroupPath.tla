------------------------------ MODULE CgroupPath ------------------------------
(***************************************************************************)
(* What internal/correlate reads out of a cgroup path.  A path is a        *)
(* sequence of segments, and a segment the sequence of the tokens that the *)
(* parser tells apart: literals such as "kubepods", "-pod" and ".slice",   *)
(* and pod UIDs and container IDs as a whole.                              *)
(***************************************************************************)
EXTENDS Integers, SequencesExt

CONSTANT Dashed     \* Dashed[u]: the UID that systemd spells u, with "_" for "-"

Names(segment, token) == \E i \in DOMAIN segment : segment[i] = token
Starts(segment, token) == segment # << >> /\ Head(segment) = token
Ends(segment, token) == segment # << >> /\ Last(segment) = token

AfterLast(segment, token) ==
    LET last == CHOOSE i \in DOMAIN segment :
                    segment[i] = token /\ \A j \in i + 1 .. Len(segment) : segment[j] # token
    IN  SubSeq(segment, last + 1, Len(segment))

\* A kubelet with a cgroup root of its own prefixes every name, so any mention counts.
InKubepodsTree(path) == \E i \in DOMAIN path : Names(path[i], "kubepods")

Unescaped(uid) == [i \in DOMAIN uid |-> IF uid[i] \in DOMAIN Dashed THEN Dashed[uid[i]]
                                        ELSE uid[i]]

\* The UID in a unit name; "-pod" and not "pod", which "kubepods" contains.
UnitUID(name) ==
    IF Names(name, "-pod") THEN AfterLast(name, "-pod")
    ELSE IF Starts(name, "pod") THEN Tail(name) ELSE << >>

\* parsePodSegment; an empty uid stands for its ok = false.
PodSegment(segment) ==
    IF Ends(segment, ".slice")
    THEN [uid |-> Unescaped(UnitUID(Front(segment))), driver |-> "systemd"]
    ELSE [uid |-> IF Starts(segment, "pod") THEN Tail(segment) ELSE << >>,
          driver |-> "cgroupfs"]

RuntimeOf == [prefix \in {"cri-containerd-", "containerd-", "crio-", "docker-"} |->
                 CASE prefix = "crio-"   -> "cri-o"
                   [] prefix = "docker-" -> "docker"
                   [] OTHER              -> "containerd"]

Dotted(segment) == \E dot \in {".slice", ".scope", ".service"} : Names(segment, dot)

\* parseContainerSegment; an empty id stands for its ok = false.
ContainerSegment(segment, driver) ==
    LET systemd == driver = "systemd" /\ Ends(segment, ".scope")
                   /\ Head(segment) \in DOMAIN RuntimeOf
        bare    == driver = "cgroupfs" /\ ~ Dotted(segment) /\ ~ Starts(segment, "pod")
    IN  [id      |-> IF systemd THEN Front(Tail(segment)) ELSE IF bare THEN segment ELSE << >>,
         runtime |-> IF systemd THEN RuntimeOf[Head(segment)] ELSE "unknown"]

\* What parseQoS compares with the tiers: a unit's name without its suffix and
\* without what precedes and includes the last "kubepods-".
TierName(segment, driver) ==
    LET unit == IF Ends(segment, ".slice") THEN Front(segment) ELSE segment
        tail == IF Names(unit, "kubepods") THEN AfterLast(unit, "kubepods") ELSE << >>
    IN  IF driver # "systemd" THEN segment
        ELSE IF Starts(tail, "-") THEN Tail(tail) ELSE unit

QoS(path, driver) ==
    LET tiers == {i \in DOMAIN path :
                     TierName(path[i], driver) \in {<<"burstable">>, <<"besteffort">>}}
        first == CHOOSE i \in tiers : \A j \in tiers : i <= j
    IN  IF tiers # {} THEN TierName(path[first], driver)[1]
        ELSE IF InKubepodsTree(path) THEN "guaranteed" ELSE "unknown"

NoScope == [kind |-> "none"]

\* parseContainerScope: the last two segments are a pod and its container.
ContainerScope(path) ==
    LET pod       == PodSegment(path[Len(path) - 1])
        container == ContainerSegment(path[Len(path)], pod.driver)
    IN  IF Len(path) < 2 \/ pod.uid = << >> \/ container.id = << >>
        THEN NoScope
        ELSE [kind |-> "container", uid |-> pod.uid, id |-> container.id,
              runtime |-> container.runtime, driver |-> pod.driver,
              qos |-> QoS(path, pod.driver)]

\* Mutant of MayNamePod: a directory named pod... is a pod wherever it is.
AnywhereMayNamePod(path) == TRUE

\* The guard of parsePodScope: without it podman and podinfo would be pods.
MayNamePod(path) == InKubepodsTree(path)

\* parsePodScope: the path ends at a pod, in the kubelet's tree.
PodScope(path) ==
    LET pod == PodSegment(path[Len(path)])
    IN  IF ~ MayNamePod(path) \/ pod.uid = << >>
        THEN NoScope
        ELSE [kind |-> "pod", uid |-> pod.uid, id |-> << >>, runtime |-> "unknown",
              driver |-> pod.driver, qos |-> QoS(path, pod.driver)]

\* ParseCgroupPath of a path whose empty segments splitPath has dropped.
ParseCgroupPath(path) ==
    IF path = << >> THEN NoScope
    ELSE IF ContainerScope(path) # NoScope THEN ContainerScope(path) ELSE PodScope(path)

\* Resolve: what the cluster knows of the scope.  pods[uid] names the pod and, in
\* containers, the containers it has by ID.
Resolve(path, pods) ==
    LET scope == ParseCgroupPath(path)
        known == scope # NoScope /\ scope.uid \in DOMAIN pods
        named == known /\ scope.kind = "container"
                 /\ scope.id \in DOMAIN pods[scope.uid].containers
    IN  [scope     |-> scope,
         pod       |-> IF known THEN pods[scope.uid].name ELSE "",
         container |-> IF named THEN pods[scope.uid].containers[scope.id] ELSE ""]
=============================================================================
