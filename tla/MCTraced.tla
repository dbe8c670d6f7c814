------------------------------- MODULE MCTraced -------------------------------
(* A pod's slice with its container's scope, and a cgroup of the host, named   *)
(* as either driver does; two processes in the container, or one outside it.   *)
EXTENDS Traced, TLC

CONSTANTS branch, leaf, host, a, b     \* the slice, the scope, the host's; processes

MCPath == {branch, leaf, host}
MCAncestors == [p \in MCPath |-> IF p = leaf THEN {branch} ELSE {}]
Together == (a :> leaf) @@ (b :> leaf)
Apart    == (a :> leaf) @@ (b :> host)
MCKernelPid == (a :> 1) @@ (b :> 2)

\* A container that runs a runtime of its own may hold an inner PID twice.
TwinPids == (a :> 1) @@ (b :> 1)
DistinctPids == (a :> 1) @@ (b :> 7)

Node(homes, numbering, readable) ==
    [home |-> homes, visiblePid |-> numbering, nsReadable |-> readable]

\* The daemon on the host, and in a node that is a container itself.
Nested == (a :> 11) @@ (b :> 12)

MCNodes == {Node(Together, MCKernelPid, TRUE), Node(Together, Nested, TRUE),
            Node(Apart, Nested, FALSE)}

HostNode  == {Node(Together, MCKernelPid, TRUE)}
ApartNode == {Node(Apart, MCKernelPid, TRUE)}

\* A nested node that happens to use a kernel's number for another process.
Colliding == {Node(Apart, (a :> 11) @@ (b :> 1), TRUE)}

MCDashed == "u_1" :> "u-1"
MCPods == <<"u-1">> :> [name |-> "web", containers |-> <<"c1">> :> "main"]

Scope(kind, driver, runtime, qos) ==
    [kind |-> kind, uid |-> <<"u-1">>, id |-> IF kind = "pod" THEN << >> ELSE <<"c1">>,
     runtime |-> runtime, driver |-> driver, qos |-> qos]

\* What the kubelet's drivers and the runtimes call a pod and its container, and whether
\* the daemon is in the host's cgroup namespace, in one below a service, or a pod's own.
Layout(tree, pod, container, outside, root, driver, runtime, qos) ==
    [root |-> root,
     segments |-> (branch :> Append(tree, pod)) @@ (leaf :> tree \o <<pod, container>>)
                  @@ (host :> outside),
     scope |-> (branch :> Scope("pod", driver, "unknown", qos))
               @@ (leaf :> Scope("container", driver, runtime, qos)) @@ (host :> NoScope)]

Kubepods == <<"kubepods", ".slice">>
Burstable == <<"kubepods", "-", "burstable", ".slice">>

Service == <<<<"system", ".slice">>, <<"docker", ".service">>>>
Podman  == <<<<"machine", ".slice">>, <<"pod", "man">>>>
Podinfo == <<<<"system", ".slice">>, <<"pod", "info", ".slice">>>>
Tier    == <<<<"kubepods">>, <<"burstable">>>>

HostRoot    == << >>
ServiceRoot == <<<<"user", ".slice">>, <<"daemon", ".service">>>>

MCLayouts == {
    Layout(<<Kubepods, Burstable>>, <<"kubepods", "-", "burstable", "-pod", "u_1", ".slice">>,
           <<"cri-containerd-", "c1", ".scope">>, Podinfo, HostRoot, "systemd", "containerd", "burstable"),
    Layout(<<<<"kubelet", ".slice">>, <<"kubelet", "-", "kubepods", ".slice">>>>,
           <<"kubelet", "-", "kubepods", "-pod", "u_1", ".slice">>,
           <<"crio-", "c1", ".scope">>, Service, ServiceRoot, "systemd", "cri-o", "guaranteed"),
    Layout(<<<<"kubepods">>, <<"besteffort">>>>, <<"pod", "u-1">>, <<"c1">>, Podman,
           ServiceRoot, "cgroupfs", "unknown", "besteffort"),
    Layout(<<<<"kubepods">>>>, <<"pod", "u-1">>, <<"c1">>, Tier,
           HostRoot, "cgroupfs", "unknown", "guaranteed")}

\* The cgroup that kubelets were told to put the container runtime in.
PodRuntime == {Layout(<<<<"kubepods">>>>, <<"pod", "u-1">>, <<"c1">>,
                      <<<<"pod", "runtime">>, <<"runtime">>>>, HostRoot, "cgroupfs",
                      "unknown", "guaranteed")}

\* A daemon in the private cgroup namespace of its own pod, beside the victim's.
PodRoot == {Layout(<<<<"kubepods">>, <<"besteffort">>>>, <<"pod", "u-1">>, <<"c1">>, Podman,
                   <<<<"kubepods">>, <<"besteffort">>, <<"pod", "u-2">>, <<"c2">>>>,
                   "cgroupfs", "unknown", "besteffort")}
=============================================================================
