------------------------------ MODULE Lifecycle ------------------------------
(***************************************************************************)
(* One daemon process from its flags to its deferred Close: runDaemon      *)
(* chooses a detector and a pod cache and starts Daemon.Run, the sampler,   *)
(* the loop of either detector, the HTTP server and the pod cache, joined   *)
(* by two contexts that end together and by the channels events and         *)
(* samplerDone.                                                            *)
(***************************************************************************)
EXTENDS Naturals

CONSTANTS Buffer,     \* capacity of the event channel
          PassMax     \* bound on the events of one polling pass

ASSUME LifecycleAssumption == Buffer \in Nat \ {0} /\ PassMax \in Nat \ {0}

VARIABLES
    flags,        \* --detector and --kubernetes
    main,         \* runDaemon: building, in group.Wait, in its deferred Close, or gone
    method,       \* the detector it has built
    held,         \* what the tracer holds of the kernel
    failed,       \* the errgroup, or runDaemon before it, has an error
    cancelled,    \* groupCtx is done
    run,          \* where Daemon.Run is
    watching,     \* d.watching
    sampler,      \* where the sampler's goroutine is
    samplerDone,  \* the channel of its result
    tracked,      \* the sampler holds some cgroup's history
    loop,         \* where the detector's goroutine is
    unsent,       \* events of its pass, or of its sample, not yet sent
    queued,       \* events in the channel
    closed,       \* the channel is closed
    panicked,     \* a send has met a closed channel
    server,       \* ListenAndServe
    pods          \* PodCache.Run

mainVars    == <<flags, main, method, held>>
groupVars   == <<failed, cancelled>>
daemonVars  == <<run, watching>>
samplerVars == <<sampler, samplerDone, tracked>>
streamVars  == <<loop, unsent, queued, closed, panicked>>
vars == <<mainVars, groupVars, daemonVars, samplerVars, streamVars, server, pods>>

\* What bpf.Load takes of the kernel, in this order.
Objects == <<"objects", "kprobe", "reader">>
AllHeld == {"objects", "kprobe", "reader"}

Init ==
    /\ flags \in [detector : {"auto", "ebpf", "poller", "unknown"},
                  kubernetes : {"auto", "on", "off", "unknown"}]
    /\ main = "building" /\ method = "none" /\ held = {}
    /\ failed = FALSE /\ cancelled = FALSE
    /\ run = "unstarted" /\ watching = FALSE
    /\ sampler = "unstarted" /\ samplerDone = "empty" /\ tracked = FALSE
    /\ loop = "unstarted" /\ unsent = 0 /\ queued = 0
    /\ closed = FALSE /\ panicked = FALSE
    /\ server = "unstarted" /\ pods = "absent"

\* A panic or the return of main ends every goroutine.
Running == ~ panicked /\ main # "exited"

-----------------------------------------------------------------------------
\* SIGINT or SIGTERM; groupCtx derives from the context it cancels.
Signal ==
    /\ Running /\ ~ cancelled /\ cancelled' = TRUE
    /\ UNCHANGED <<mainVars, failed, daemonVars, samplerVars, streamVars, server, pods>>

-----------------------------------------------------------------------------
\* buildDetector: the poller needs nothing; auto and ebpf begin with bpf.Load.
ChooseDetector ==
    /\ Running /\ main = "building"
    /\ CASE flags.detector = "poller" -> method' = "poller" /\ main' = "connecting"
         [] flags.detector \in {"auto", "ebpf"} -> method' = method /\ main' = "loading"
         [] OTHER -> method' = method /\ main' = "exited"
    /\ failed' = (main' = "exited")
    /\ UNCHANGED <<flags, held, cancelled, daemonVars, samplerVars, streamVars, server, pods>>

\* bpf.Load: the next of the kernel's objects.
LoadNext ==
    /\ Running /\ main = "loading"
    /\ \E k \in DOMAIN Objects :
         /\ held = {Objects[j] : j \in 1 .. k - 1}
         /\ held' = held \cup {Objects[k]}
    /\ UNCHANGED <<flags, main, method, groupVars, daemonVars, samplerVars, streamVars,
                   server, pods>>

\* Mutant of AfterFailure: the probe stays attached when the ring buffer does not open.
ForgetProbe(taken) == IF "reader" \in taken THEN {} ELSE taken \ {"objects"}

\* What is left held when Load, or NewEBPF's check of the clock after it, gives up.
AfterFailure(taken) == {}

\* auto falls back to polling; an explicit ebpf does not.
LoadFails ==
    /\ Running /\ main = "loading"
    /\ held' = AfterFailure(held)
    /\ IF flags.detector = "auto"
       THEN method' = "poller" /\ main' = "connecting" /\ failed' = failed
       ELSE method' = method /\ main' = "exited" /\ failed' = TRUE
    /\ UNCHANGED <<flags, cancelled, daemonVars, samplerVars, streamVars, server, pods>>

Loaded ==
    /\ Running /\ main = "loading" /\ held = AllHeld
    /\ method' = "ebpf" /\ main' = "connecting"
    /\ UNCHANGED <<flags, held, groupVars, daemonVars, samplerVars, streamVars, server, pods>>

\* buildPodCache, and then the group: auto goes on without a pod cache, on does not,
\* and leaves through the deferred Close.
StartGroup ==
    /\ Running /\ main = "connecting"
    /\ main' = "waiting" /\ run' = "starting" /\ server' = "serving"
    /\ \/ flags.kubernetes \in {"auto", "on"} /\ pods' = "running"
       \/ flags.kubernetes \in {"auto", "off"} /\ pods' = "absent"
    /\ UNCHANGED <<flags, method, held, groupVars, watching, samplerVars, streamVars>>

NoPodCache ==
    /\ Running /\ main = "connecting" /\ flags.kubernetes \in {"on", "unknown"}
    /\ main' = "closing" /\ failed' = TRUE
    /\ UNCHANGED <<flags, method, held, cancelled, daemonVars, samplerVars, streamVars,
                   server, pods>>

-----------------------------------------------------------------------------
\* errgroup: a function of the group returns.  The first error cancels groupCtx.
GroupReturn(error) ==
    /\ failed' = (failed \/ error)
    /\ cancelled' = (cancelled \/ error)

\* Where either loop waits: for a tick, or in the kernel for a sample.
Idle == IF method = "ebpf" THEN "reading" ELSE "waiting"

\* Daemon.Run: detector.Start primes the poller, and starts the loop of either.
StartDetector ==
    /\ Running /\ run = "starting"
    /\ run' = "selecting" /\ watching' = TRUE
    /\ loop' = Idle /\ sampler' = "collecting"
    /\ UNCHANGED <<mainVars, groupVars, samplerDone, tracked, unsent, queued, closed,
                   panicked, server, pods>>

\* Prime fails; the Start of the tracer cannot.
StartFails ==
    /\ Running /\ run = "starting" /\ method = "poller"
    /\ run' = "returned" /\ GroupReturn(TRUE)
    /\ UNCHANGED <<mainVars, watching, samplerVars, streamVars, server, pods>>

ReceiveEvent ==
    /\ Running /\ run = "selecting" /\ queued > 0
    /\ queued' = queued - 1 /\ run' = "handling"
    /\ UNCHANGED <<mainVars, groupVars, watching, samplerVars, loop, unsent, closed, panicked,
                   server, pods>>

Handled ==
    /\ Running /\ run = "handling" /\ run' = "selecting"
    /\ UNCHANGED <<mainVars, groupVars, watching, samplerVars, streamVars, server, pods>>

\* ctx.Done: Run goes on to wait for the sampler.
SeeCancelled ==
    /\ Running /\ run = "selecting" /\ cancelled
    /\ run' = "joining"
    /\ UNCHANGED <<mainVars, groupVars, watching, samplerVars, streamVars, server, pods>>

\* The stream has ended: Run waits for the sampler just the same.
SeeStreamClosed ==
    /\ Running /\ run = "selecting" /\ closed /\ queued = 0
    /\ run' = "joining"
    /\ UNCHANGED <<mainVars, groupVars, watching, samplerVars, streamVars, server, pods>>

\* Mutant of MayReturn: a cancelled Run does not wait for the sampler.
ReturnAtOnce == samplerDone # "empty" \/ cancelled

\* Run returns with the sampler's result, from its select or from a join.
MayReturn == samplerDone # "empty"

\* Mutant of RunResult: an error that arrives after cancellation is swallowed.
ResultUnlessCancelled == samplerDone = "error" /\ ~ cancelled

RunResult == samplerDone = "error"

RunReturns ==
    /\ Running /\ run \in {"selecting", "joining"} /\ MayReturn
    /\ run' = "returned" /\ watching' = FALSE /\ samplerDone' = "empty"
    /\ GroupReturn(RunResult)
    /\ UNCHANGED <<mainVars, sampler, tracked, streamVars, server, pods>>

-----------------------------------------------------------------------------
\* Sampler.Run: a pass, once up front and then at every tick.
CollectDone ==
    /\ Running /\ sampler = "collecting"
    /\ sampler' = "waiting" /\ tracked' \in BOOLEAN
    /\ UNCHANGED <<mainVars, groupVars, daemonVars, samplerDone, streamVars, server, pods>>

CollectFails ==
    /\ Running /\ sampler = "collecting"
    /\ sampler' = "done" /\ samplerDone' = "error"
    /\ UNCHANGED <<mainVars, groupVars, daemonVars, tracked, streamVars, server, pods>>

SamplerTick ==
    /\ Running /\ sampler = "waiting" /\ sampler' = "collecting"
    /\ UNCHANGED <<mainVars, groupVars, daemonVars, samplerDone, tracked, streamVars, server,
                   pods>>

\* Mutant of SamplerMayStop: the sampler's select lacks its Done case.
SamplerNeverStops == FALSE

SamplerMayStop == cancelled

SamplerStops ==
    /\ Running /\ sampler = "waiting" /\ SamplerMayStop
    /\ sampler' = "done" /\ samplerDone' = "nil"
    /\ UNCHANGED <<mainVars, groupVars, daemonVars, tracked, streamVars, server, pods>>

-----------------------------------------------------------------------------
\* Poller.loop and Poll.  The reads of a pass do not look at the context.
PollTick ==
    /\ Running /\ loop = "waiting" /\ loop' = "polling"
    /\ UNCHANGED <<mainVars, groupVars, daemonVars, samplerVars, unsent, queued, closed,
                   panicked, server, pods>>

PollDone ==
    /\ Running /\ loop = "polling"
    /\ \E n \in 0 .. PassMax : unsent' = n
    /\ loop' = "sending"
    /\ UNCHANGED <<mainVars, groupVars, daemonVars, samplerVars, queued, closed, panicked,
                   server, pods>>

\* Poll returns an error and loop returns; its deferred Close closes the stream.
PollFails ==
    /\ Running /\ loop = "polling"
    /\ loop' = "done" /\ closed' = TRUE
    /\ UNCHANGED <<mainVars, groupVars, daemonVars, samplerVars, unsent, queued, panicked,
                   server, pods>>

\* Mutant of MaySend: the buffer is not counted.
AlwaysSend == ~ closed

MaySend == ~ closed /\ queued < Buffer

SendEvent ==
    /\ Running /\ loop = "sending" /\ unsent > 0 /\ MaySend
    /\ unsent' = unsent - 1 /\ queued' = queued + 1
    /\ UNCHANGED <<mainVars, groupVars, daemonVars, samplerVars, loop, closed, panicked,
                   server, pods>>

\* A send on a closed channel is ready too: the select may choose it, and panics.
SendOnClosed ==
    /\ Running /\ loop = "sending" /\ unsent > 0 /\ closed
    /\ panicked' = TRUE
    /\ UNCHANGED <<mainVars, groupVars, daemonVars, samplerVars, loop, unsent, queued, closed,
                   server, pods>>

\* The poller gives up its pass; the tracer's loop returns and closes the stream.
SendAbandoned ==
    /\ Running /\ loop = "sending" /\ unsent > 0 /\ cancelled
    /\ unsent' = 0
    /\ IF method = "ebpf" THEN loop' = "done" /\ closed' = TRUE
                          ELSE loop' = "waiting" /\ closed' = closed
    /\ UNCHANGED <<mainVars, groupVars, daemonVars, samplerVars, queued, panicked, server,
                   pods>>

AllSent ==
    /\ Running /\ loop = "sending" /\ unsent = 0
    /\ loop' = Idle
    /\ UNCHANGED <<mainVars, groupVars, daemonVars, samplerVars, unsent, queued, closed,
                   panicked, server, pods>>

LoopStops ==
    /\ Running /\ loop = "waiting" /\ cancelled
    /\ loop' = "done" /\ closed' = TRUE
    /\ UNCHANGED <<mainVars, groupVars, daemonVars, samplerVars, unsent, queued, panicked,
                   server, pods>>

\* ebpfDetector.loop: the tracer's Read returns a kill.
ReadSample ==
    /\ Running /\ loop = "reading" /\ held = AllHeld
    /\ unsent' = 1 /\ loop' = "sending"
    /\ UNCHANGED <<mainVars, groupVars, daemonVars, samplerVars, queued, closed, panicked,
                   server, pods>>

\* Read fails and loop returns, closing the stream.  Nobody closes the tracer for it.
ReadFails ==
    /\ Running /\ loop = "reading"
    /\ loop' = "done" /\ closed' = TRUE
    /\ UNCHANGED <<mainVars, groupVars, daemonVars, samplerVars, unsent, queued, panicked,
                   server, pods>>

\* Read is deaf to the context: it fails for certain once the tracer is closed.
ReadClosed == ReadFails /\ held = {}

\* The goroutine Start leaves behind: it closes the tracer when the context ends,
\* unless runDaemon has done so.
WatcherCloses ==
    /\ Running /\ method = "ebpf" /\ loop # "unstarted" /\ cancelled /\ held # {}
    /\ held' = {}
    /\ UNCHANGED <<flags, main, method, groupVars, daemonVars, samplerVars, streamVars,
                   server, pods>>

-----------------------------------------------------------------------------
\* Server.ListenAndServe: the port is refused, or the context ends and Shutdown
\* has its seconds, which may run out.
ServerFails ==
    /\ Running /\ server = "serving"
    /\ server' = "done" /\ GroupReturn(TRUE)
    /\ UNCHANGED <<mainVars, daemonVars, samplerVars, streamVars, pods>>

ServerShutsDown ==
    /\ Running /\ server = "serving" /\ cancelled
    /\ server' = "done"
    /\ \E late \in BOOLEAN : GroupReturn(late)
    /\ UNCHANGED <<mainVars, daemonVars, samplerVars, streamVars, pods>>

PodCacheStops ==
    /\ Running /\ pods = "running" /\ cancelled
    /\ pods' = "absent"
    /\ UNCHANGED <<mainVars, groupVars, daemonVars, samplerVars, streamVars, server>>

\* group.Wait returns once all its functions have, and cancels groupCtx.
GroupDone == run = "returned" /\ server = "done" /\ pods = "absent"

WaitReturns ==
    /\ Running /\ main = "waiting" /\ GroupDone
    /\ main' = "closing" /\ cancelled' = TRUE
    /\ UNCHANGED <<flags, method, held, failed, daemonVars, samplerVars, streamVars, server, pods>>

\* Mutant of CloseEndsStream: the tracer's Close closes the channel as the poller's does.
AnyCloseEndsStream == TRUE

\* The poller's Close closes the channel; the tracer's leaves that to the loop.
CloseEndsStream == method = "poller"

\* The deferred Close of the detector, whose effect is had once.
CloseDetector ==
    /\ Running /\ main = "closing"
    /\ main' = "closed" /\ held' = {}
    /\ closed' = (closed \/ CloseEndsStream)
    /\ UNCHANGED <<flags, method, groupVars, daemonVars, samplerVars, loop, unsent, queued,
                   panicked, server, pods>>

Exit ==
    /\ Running /\ main = "closed" /\ main' = "exited"
    /\ UNCHANGED <<flags, method, held, groupVars, daemonVars, samplerVars, streamVars,
                   server, pods>>

Build == ChooseDetector \/ LoadNext \/ LoadFails \/ Loaded \/ StartGroup \/ NoPodCache
DaemonRun ==
    \/ StartDetector \/ StartFails \/ ReceiveEvent \/ Handled
    \/ SeeCancelled \/ SeeStreamClosed \/ RunReturns
SamplerRun == CollectDone \/ CollectFails \/ SamplerTick \/ SamplerStops
PollerLoop ==
    \/ PollTick \/ PollDone \/ PollFails \/ SendEvent \/ SendOnClosed \/ SendAbandoned
    \/ AllSent \/ LoopStops
TracerLoop == ReadSample \/ ReadFails
Main == WaitReturns \/ CloseDetector \/ Exit

Next ==
    \/ Signal \/ Build \/ DaemonRun \/ SamplerRun
    \/ PollerLoop \/ TracerLoop \/ WatcherCloses
    \/ ServerFails \/ ServerShutsDown \/ PodCacheStops \/ Main

Spec == Init /\ [][Next]_vars

\* Goroutines are scheduled and their reads return; a select whose case stays ready
\* takes it in the end; a Shutdown that times out still returns.  No kill need occur.
Fairness ==
    /\ WF_vars(Build) /\ WF_vars(ReadClosed) /\ WF_vars(WatcherCloses)
    /\ WF_vars(DaemonRun) /\ WF_vars(SamplerRun)
    /\ WF_vars(PollerLoop) /\ WF_vars(Main)
    /\ WF_vars(ServerShutsDown) /\ WF_vars(PodCacheStops)
    /\ SF_vars(SeeCancelled) /\ SF_vars(RunReturns)
    /\ SF_vars(SamplerStops) /\ SF_vars(LoopStops)

FairSpec == Spec /\ Fairness

-----------------------------------------------------------------------------
TypeOK ==
    /\ flags \in [detector : {"auto", "ebpf", "poller", "unknown"},
                  kubernetes : {"auto", "on", "off", "unknown"}]
    /\ method \in {"none", "poller", "ebpf"} /\ held \subseteq AllHeld
    /\ main \in {"building", "loading", "connecting", "waiting", "closing", "closed", "exited"}
    /\ failed \in BOOLEAN /\ cancelled \in BOOLEAN
    /\ watching \in BOOLEAN /\ tracked \in BOOLEAN
    /\ closed \in BOOLEAN /\ panicked \in BOOLEAN
    /\ run \in {"unstarted", "starting", "selecting", "handling", "joining", "returned"}
    /\ sampler \in {"unstarted", "collecting", "waiting", "done"}
    /\ samplerDone \in {"empty", "nil", "error"}
    /\ loop \in {"unstarted", "reading", "waiting", "polling", "sending", "done"}
    /\ unsent \in 0 .. PassMax /\ queued \in 0 .. Buffer
    /\ server \in {"unstarted", "serving", "done"} /\ pods \in {"running", "absent"}

Ready == watching /\ tracked

Over == ~ Running

\* daemon.go Run: it never leaves the sampler behind.  When it has returned, nothing
\* writes histories any more, so none is read half-built once the group is done.
SamplerJoined == run = "returned" => sampler \in {"unstarted", "done"}

\* cmd/daemon.go runDaemon: whatever the detector, the sampler, the server and the
\* pod cache are doing when the context ends, the process comes to an end.
ShutdownCompletes == cancelled ~> Over

\* daemon.go Run: "The sampler failing is fatal".  Its error ends the process with
\* one, also when the context is cancelled or the stream closes in the meantime.
SamplerFailureIsFatal == samplerDone = "error" ~> Over /\ (panicked \/ failed)

\* tracer_linux.go Load and Close: a daemon that has fallen back to polling, and one
\* that has left in order, keep nothing attached to the kernel: not when a later part
\* of the tracer fails to load, and not when a later part of the daemon does.
ProbeReleased == method = "poller" \/ main = "exited" => held = {}

\* ebpf_supported.go Close: the traced stream is closed by the loop that sends on it,
\* whoever closes the tracer, so that no send meets a closed channel and Run sees the
\* end only after the last event.
TracedStreamIsOwned == method = "ebpf" => ~ panicked /\ (closed => loop = "done")

\* daemon.go Ready: it "reports whether the daemon is actually watching this node": a
\* daemon whose event stream has ended does not stay ready.
BlindnessShows == closed ~> ~ Ready

\* poller.go Close "stops publishing": no send is attempted on the stream it closed.
NothingSentAfterClose == ~ panicked
=============================================================================
