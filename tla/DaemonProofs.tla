---------------------------- MODULE DaemonProofs ----------------------------
(***************************************************************************)
(* The daemon's processes and what it keeps.  Daemon.Run never leaves the   *)
(* sampler behind, an unused tracer never stays attached and a used one's   *)
(* stream is closed by its sender, for every size of the event channel and  *)
(* of a polling pass.  And the index of the report store is exact in every  *)
(* reachable state, the store implements ReportLog, and what a client is    *)
(* told is what the store holds, for every capacity and set of reports.    *)
(***************************************************************************)
EXTENDS Lifecycle, Queries, SequenceTheorems, FiniteSetTheorems, WellFoundedInduction, TLAPS

\* daemon.go Run: the sampler is started with the detector, and has put a result into
\* samplerDone only as its last step.
ResultIsLast ==
    /\ run \in {"unstarted", "starting"} => sampler = "unstarted"
    /\ samplerDone # "empty" => sampler = "done"

\* cmd/daemon.go runDaemon: it has built everything before it starts Daemon.Run.
BuiltFirst == main \in {"building", "loading", "connecting"} => run = "unstarted"

Inv == TypeOK /\ ResultIsLast /\ BuiltFirst /\ SamplerJoined

\* cmd/daemon.go: a process begins with its flags and nothing else.
LEMMA InitOK == Init => Inv
<1> SUFFICES ASSUME Init PROVE Inv
  OBVIOUS
<1>1. unsent \in 0 .. PassMax /\ queued \in 0 .. Buffer
  BY LifecycleAssumption DEF Init
<1>2. TypeOK
  BY <1>1 DEF Init, TypeOK
<1> QED
  BY <1>2 DEF Init, Inv, ResultIsLast, BuiltFirst, SamplerJoined

\* What the sampler's part of the invariant rests on is left alone by every other goroutine.
LEMMA SamplerUntouched ==
    ASSUME Inv, TypeOK', UNCHANGED <<sampler, samplerDone>>,
           main' = main \/ main' \notin {"building", "loading", "connecting"},
           run' = run \/ (/\ run \notin {"unstarted", "starting"}
                         /\ run' \notin {"unstarted", "starting", "returned"})
    PROVE  Inv'
BY DEF Inv, ResultIsLast, BuiltFirst, SamplerJoined

\* daemon.go Run: it returns before the sampler has started or with the sampler's result.
LEMMA DaemonRunOK == ASSUME Inv, DaemonRun PROVE Inv'
<1>1. CASE StartDetector
  BY <1>1 DEF Inv, StartDetector, TypeOK, ResultIsLast, BuiltFirst, SamplerJoined, mainVars, groupVars, Idle
<1>2. CASE StartFails
  BY <1>2 DEF Inv, StartFails, GroupReturn, TypeOK, ResultIsLast, BuiltFirst, SamplerJoined,
              mainVars, samplerVars, streamVars
<1>3. CASE ReceiveEvent
  <2>1. TypeOK'
    BY <1>3, LifecycleAssumption DEF Inv, ReceiveEvent, TypeOK, mainVars, groupVars, samplerVars
  <2> QED
    BY <1>3, <2>1, SamplerUntouched DEF ReceiveEvent, samplerVars, mainVars
<1>4. CASE Handled \/ SeeCancelled \/ SeeStreamClosed
  <2>1. TypeOK'
    BY <1>4 DEF Inv, Handled, SeeCancelled, SeeStreamClosed, TypeOK, mainVars, groupVars, samplerVars,
                streamVars
  <2> QED
    BY <1>4, <2>1, SamplerUntouched DEF Handled, SeeCancelled, SeeStreamClosed, samplerVars,
                                       mainVars
<1>5. CASE RunReturns
  <2>1. samplerDone # "empty" /\ sampler = "done"
    BY <1>5 DEF RunReturns, MayReturn, Inv, ResultIsLast
  <2> QED
    <3>1. TypeOK'
      <4>1. failed' \in BOOLEAN /\ cancelled' \in BOOLEAN
        BY <1>5 DEF RunReturns, GroupReturn
      <4>2. /\ run' = "returned" /\ watching' \in BOOLEAN /\ samplerDone' = "empty"
            /\ UNCHANGED <<sampler, tracked, server, pods>>
            /\ UNCHANGED mainVars /\ UNCHANGED streamVars
        BY <1>5 DEF RunReturns
      <4> QED
        BY <4>1, <4>2 DEF Inv, TypeOK, mainVars, streamVars
    <3>2. run' = "returned" /\ sampler' = "done" /\ samplerDone' = "empty" /\ main' = main
      BY <1>5, <2>1 DEF RunReturns, mainVars
    <3>3. run # "unstarted"
      BY <1>5 DEF RunReturns
    <3> QED
      BY <3>1, <3>2, <3>3 DEF Inv, ResultIsLast, BuiltFirst, SamplerJoined
<1> QED
  BY <1>1, <1>2, <1>3, <1>4, <1>5 DEF DaemonRun

\* sampler.go Run: while it collects or waits, Daemon.Run has started and not returned.
LEMMA SamplerRunOK == ASSUME Inv, SamplerRun PROVE Inv'
<1>1. CASE CollectDone \/ SamplerTick
  BY <1>1 DEF Inv, CollectDone, SamplerTick, TypeOK, ResultIsLast, BuiltFirst, SamplerJoined, mainVars,
              groupVars, daemonVars, streamVars
<1>2. CASE CollectFails \/ SamplerStops
  BY <1>2 DEF Inv, CollectFails, SamplerStops, TypeOK, ResultIsLast, BuiltFirst, SamplerJoined, mainVars,
              groupVars, daemonVars, streamVars
<1> QED
  BY <1>1, <1>2 DEF SamplerRun

\* cmd/daemon.go: while runDaemon builds, no goroutine but its own has run.
LEMMA BuildOK == ASSUME Inv, Build PROVE Inv'
<1>1. UNCHANGED <<sampler, samplerDone>> /\ UNCHANGED <<tracked, watching>>
  BY DEF Build, ChooseDetector, LoadNext, LoadFails, Loaded, StartGroup, NoPodCache,
         daemonVars, samplerVars
<1>2. /\ run = "unstarted"
      /\ run' = run \/ (run' = "starting" /\ main' = "waiting")
  BY DEF Inv, BuiltFirst, Build, ChooseDetector, LoadNext, LoadFails, Loaded, StartGroup,
         NoPodCache, daemonVars
<1>3. TypeOK'
  <2>1. CASE ChooseDetector
    BY <2>1 DEF Inv, ChooseDetector, TypeOK, daemonVars, samplerVars, streamVars
  <2>2. CASE LoadNext
    <3>1. held' \subseteq AllHeld
      BY <2>2 DEF Inv, TypeOK, LoadNext, Objects, AllHeld
    <3> QED
      BY <2>2, <3>1 DEF Inv, LoadNext, TypeOK, groupVars, daemonVars, samplerVars, streamVars
  <2>3. CASE LoadFails \/ Loaded
    <3>1. held' \subseteq AllHeld
      BY <2>3 DEF Inv, TypeOK, LoadFails, Loaded, AfterFailure
    <3>2. /\ failed' \in BOOLEAN /\ method' \in {"none", "poller", "ebpf"}
          /\ main' \in {"loading", "connecting", "exited"}
      BY <2>3 DEF Inv, TypeOK, LoadFails, Loaded, groupVars
    <3>3. /\ UNCHANGED <<flags, cancelled, server, pods>> /\ UNCHANGED daemonVars
          /\ UNCHANGED samplerVars /\ UNCHANGED streamVars
      BY <2>3 DEF LoadFails, Loaded, groupVars
    <3> QED
      BY <3>1, <3>2, <3>3 DEF Inv, TypeOK, daemonVars, samplerVars, streamVars
  <2>4. CASE StartGroup \/ NoPodCache
    <3>1. /\ failed' \in BOOLEAN /\ main' \in {"waiting", "closing"}
          /\ run' \in {run, "starting"} /\ server' \in {server, "serving"}
          /\ pods' \in {"running", "absent"}
      BY <2>4 DEF Inv, TypeOK, StartGroup, NoPodCache, groupVars, daemonVars
    <3>2. /\ UNCHANGED <<flags, method, held, cancelled, watching>>
          /\ UNCHANGED samplerVars /\ UNCHANGED streamVars
      BY <2>4 DEF StartGroup, NoPodCache, groupVars, daemonVars
    <3> QED
      BY <3>1, <3>2 DEF Inv, TypeOK, samplerVars, streamVars
  <2> QED
    BY <2>1, <2>2, <2>3, <2>4 DEF Build
<1> QED
  BY <1>1, <1>2, <1>3 DEF Inv, ResultIsLast, BuiltFirst, SamplerJoined

\* detector.go: whichever detector loops, the channel takes no more than its capacity,
\* and the sampler is not touched.
LEMMA LoopsOK == ASSUME Inv, PollerLoop \/ TracerLoop PROVE Inv'
<1>1. /\ UNCHANGED <<sampler, samplerDone, tracked>> /\ UNCHANGED <<run, watching>>
      /\ UNCHANGED <<flags, main, method, held, failed, cancelled, server, pods>>
  BY DEF PollerLoop, PollTick, PollDone, PollFails, SendEvent, SendOnClosed, SendAbandoned,
         AllSent, LoopStops, TracerLoop, ReadSample, ReadFails, mainVars, groupVars,
         daemonVars, samplerVars
<1>2. TypeOK'
  <2>1. /\ loop \in {"unstarted", "reading", "waiting", "polling", "sending", "done"}
        /\ unsent \in 0 .. PassMax /\ queued \in 0 .. Buffer
        /\ closed \in BOOLEAN /\ panicked \in BOOLEAN
    BY DEF Inv, TypeOK
  <2>2. /\ loop' \in {"unstarted", "reading", "waiting", "polling", "sending", "done"}
        /\ closed' \in BOOLEAN /\ panicked' \in BOOLEAN
    BY <2>1 DEF PollerLoop, PollTick, PollDone, PollFails, SendEvent, SendOnClosed,
                SendAbandoned, AllSent, LoopStops, TracerLoop, ReadSample, ReadFails, Idle
  <2>3. unsent' \in 0 .. PassMax /\ queued' \in 0 .. Buffer
    <3>1. CASE SendEvent
      BY <2>1, <3>1, LifecycleAssumption DEF SendEvent, MaySend
    <3>2. CASE PollDone \/ SendAbandoned \/ ReadSample
      BY <2>1, <3>2, LifecycleAssumption DEF PollDone, SendAbandoned, ReadSample
    <3>3. CASE PollTick \/ PollFails \/ SendOnClosed \/ AllSent \/ LoopStops \/ ReadFails
      BY <2>1, <3>3 DEF PollTick, PollFails, SendOnClosed, AllSent, LoopStops, ReadFails
    <3> QED
      BY <3>1, <3>2, <3>3 DEF PollerLoop, TracerLoop
  <2> QED
    BY <1>1, <2>2, <2>3 DEF Inv, TypeOK
<1> QED
  BY <1>1, <1>2, SamplerUntouched

\* cmd/daemon.go and ebpf_supported.go: the signal, the server, the pod cache, the
\* goroutine that closes the tracer, and the end of runDaemon.
LEMMA OthersOK ==
    ASSUME Inv,
           Signal \/ ServerFails \/ ServerShutsDown \/ PodCacheStops \/ WatcherCloses \/ Main
    PROVE  Inv'
<1>1. UNCHANGED <<sampler, samplerDone, run>>
  BY DEF Signal, ServerFails, ServerShutsDown, PodCacheStops, WatcherCloses, Main,
         WaitReturns, CloseDetector, Exit, daemonVars, samplerVars
<1>2. TypeOK'
  <2>1. CASE Signal \/ PodCacheStops \/ WatcherCloses
    <3>1. CASE Signal
      BY <3>1 DEF Inv, Signal, TypeOK, mainVars, daemonVars, samplerVars, streamVars
    <3>2. CASE PodCacheStops
      BY <3>2 DEF Inv, PodCacheStops, TypeOK, mainVars, groupVars, daemonVars, samplerVars,
                  streamVars
    <3>3. CASE WatcherCloses
      BY <3>3 DEF Inv, WatcherCloses, TypeOK, groupVars, daemonVars, samplerVars, streamVars
    <3> QED
      BY <2>1, <3>1, <3>2, <3>3
  <2>2. CASE ServerFails \/ ServerShutsDown
    <3>1. failed' \in BOOLEAN /\ cancelled' \in BOOLEAN
      BY <2>2 DEF ServerFails, ServerShutsDown, GroupReturn
    <3>2. /\ server' = "done" /\ UNCHANGED pods /\ UNCHANGED mainVars
          /\ UNCHANGED daemonVars /\ UNCHANGED samplerVars /\ UNCHANGED streamVars
      BY <2>2 DEF ServerFails, ServerShutsDown
    <3> QED
      BY <3>1, <3>2 DEF Inv, TypeOK, mainVars, daemonVars, samplerVars, streamVars
  <2>3. CASE Main
    <3>1. /\ main' \in {"closing", "closed", "exited"} /\ held' \in {held, {}}
          /\ cancelled' \in BOOLEAN /\ closed' \in BOOLEAN
      BY <2>3 DEF Inv, TypeOK, Main, WaitReturns, CloseDetector, Exit, groupVars, streamVars
    <3>2. /\ UNCHANGED <<flags, method, failed, server, pods, loop, unsent, queued, panicked>>
          /\ UNCHANGED daemonVars /\ UNCHANGED samplerVars
      BY <2>3 DEF Main, WaitReturns, CloseDetector, Exit, groupVars, streamVars
    <3> QED
      BY <3>1, <3>2 DEF Inv, TypeOK, daemonVars, samplerVars
  <2> QED
    BY <2>1, <2>2, <2>3
<1>3. main' = main \/ main' \notin {"building", "loading", "connecting"}
  BY DEF Signal, ServerFails, ServerShutsDown, PodCacheStops, WatcherCloses, Main,
         WaitReturns, CloseDetector, Exit, mainVars
<1> QED
  BY <1>1, <1>2, <1>3, SamplerUntouched

\* No goroutine's step breaks the invariant.
LEMMA NextOK == Inv /\ [Next]_vars => Inv'
<1> SUFFICES ASSUME Inv, [Next]_vars PROVE Inv'
  OBVIOUS
<1>1. CASE UNCHANGED vars
  BY <1>1 DEF Inv, vars, TypeOK, ResultIsLast, BuiltFirst, SamplerJoined, mainVars, groupVars,
              daemonVars, samplerVars, streamVars
<1> QED
  BY <1>1, DaemonRunOK, SamplerRunOK, BuildOK, LoopsOK, OthersOK DEF Next

\* The program counters and the channel stay in their types, for every Buffer and PassMax.
THEOREM LifecycleTypeCorrect == Spec => []TypeOK
<1>1. Inv => TypeOK
  BY DEF Inv
<1> QED
  BY <1>1, InitOK, NextOK, PTL DEF Spec

\* daemon.go Run: whichever of its three exits Run takes, the sampler has ended by then.
THEOREM LifecycleSamplerJoined == Spec => []SamplerJoined
<1>1. Inv => SamplerJoined
  BY DEF Inv
<1> QED
  BY <1>1, InitOK, NextOK, PTL DEF Spec

-----------------------------------------------------------------------------
\* cmd/daemon.go buildDetector: a detector is settled on before anything runs.
MethodFirst ==
    /\ main \in {"building", "loading"} => method = "none"
    /\ main = "connecting" \/ run # "unstarted" => method # "none"

\* tracer_linux.go Load and Close: what is held of the kernel is a tracer's that is being
\* loaded, or in use until it is closed.
HeldForUse ==
    /\ main = "building" \/ method = "poller" => held = {}
    /\ main \in {"closed", "exited"} => held = {}

\* ebpf_supported.go: without a poller the loop reads and sends, and closes as it returns.
LoopOwnsStream ==
    /\ run \in {"unstarted", "starting"} => loop = "unstarted"
    /\ method # "poller" => /\ ~ panicked /\ loop \notin {"waiting", "polling"}
                            /\ closed => loop = "done"

Owned == MethodFirst /\ HeldForUse /\ LoopOwnsStream

\* What the stream's part rests on is left alone by everything but the loops.
LEMMA StreamUntouched ==
    ASSUME LoopOwnsStream, UNCHANGED streamVars, method' = method \/ method # "poller",
           run' = run \/ run' \notin {"unstarted", "starting"} \/ run = "unstarted"
    PROVE  LoopOwnsStream'
BY DEF LoopOwnsStream, streamVars

\* cmd/daemon.go buildDetector and bpf.Load: what is taken is used, or given back.
LEMMA BuildOwned == ASSUME Inv, Owned, Build PROVE Owned'
<1>1. UNCHANGED streamVars /\ (method' = method \/ method # "poller")
  BY DEF Build, ChooseDetector, LoadNext, LoadFails, Loaded, StartGroup, NoPodCache, Owned,
         MethodFirst
<1>2. run = "unstarted" /\ run' \in {"unstarted", "starting"}
  BY DEF Inv, BuiltFirst, Build, ChooseDetector, LoadNext, LoadFails, Loaded, StartGroup,
         NoPodCache, daemonVars
<1>3. MethodFirst' /\ HeldForUse'
  <2>1. CASE ChooseDetector
    BY <1>2, <2>1 DEF ChooseDetector, Owned, MethodFirst, HeldForUse, daemonVars
  <2>2. CASE LoadNext
    BY <1>2, <2>2 DEF LoadNext, Owned, MethodFirst, HeldForUse, daemonVars
  <2>3. CASE LoadFails
    BY <1>2, <2>3 DEF LoadFails, AfterFailure, Owned, MethodFirst, HeldForUse, daemonVars
  <2>4. CASE Loaded
    BY <1>2, <2>4 DEF Loaded, Owned, MethodFirst, HeldForUse, daemonVars
  <2>5. CASE StartGroup \/ NoPodCache
    BY <1>2, <2>5 DEF StartGroup, NoPodCache, Owned, MethodFirst, HeldForUse, daemonVars
  <2> QED
    BY <2>1, <2>2, <2>3, <2>4, <2>5 DEF Build
<1>4. LoopOwnsStream'
  BY <1>1, <1>2, StreamUntouched DEF Owned
<1> QED
  BY <1>3, <1>4 DEF Owned

\* daemon.go Run: it starts the loop of the detector that was built, and stops none.
LEMMA DaemonRunOwned == ASSUME Inv, Owned, DaemonRun PROVE Owned'
<1>1. UNCHANGED <<main, method, held>> /\ run # "unstarted" /\ run' # "unstarted"
  BY DEF DaemonRun, StartDetector, StartFails, ReceiveEvent, Handled, SeeCancelled,
         SeeStreamClosed, RunReturns, mainVars
<1>2. LoopOwnsStream'
  <2>1. CASE StartDetector
    BY <1>1, <2>1 DEF Inv, TypeOK, StartDetector, Idle, Owned, MethodFirst, LoopOwnsStream
  <2>2. CASE ~ StartDetector
    <3>1. /\ UNCHANGED <<loop, closed, panicked>>
          /\ run' \notin {"unstarted", "starting"}
      BY <2>2 DEF DaemonRun, StartFails, ReceiveEvent, Handled, SeeCancelled,
                  SeeStreamClosed, RunReturns, streamVars
    <3> QED
      BY <1>1, <3>1 DEF Owned, LoopOwnsStream
  <2> QED
    BY <2>1, <2>2
<1> QED
  BY <1>1, <1>2 DEF Owned, MethodFirst, HeldForUse

\* poller.go loop and ebpf_supported.go loop: only a poller ticks, and the tracer's loop
\* closes its stream when it ends and at no other time.
LEMMA LoopsOwned == ASSUME Inv, Owned, PollerLoop \/ TracerLoop PROVE Owned'
<1>1. UNCHANGED <<main, method, held, run>>
  BY DEF PollerLoop, PollTick, PollDone, PollFails, SendEvent, SendOnClosed, SendAbandoned,
         AllSent, LoopStops, TracerLoop, ReadSample, ReadFails, mainVars, daemonVars
<1>2. loop \in {"waiting", "polling", "sending", "reading"} /\ loop' # "unstarted"
  BY DEF PollerLoop, PollTick, PollDone, PollFails, SendEvent, SendOnClosed, SendAbandoned,
         AllSent, LoopStops, TracerLoop, ReadSample, ReadFails, Idle
<1>3. run \notin {"unstarted", "starting"}
  BY <1>2 DEF Owned, LoopOwnsStream
<1>4. ASSUME method # "poller"
      PROVE  /\ ~ panicked' /\ loop' \notin {"waiting", "polling"}
             /\ closed' => loop' = "done"
  <2>1. ~ panicked /\ ~ closed /\ loop \in {"sending", "reading"} /\ method # "none"
    BY <1>2, <1>3, <1>4 DEF Owned, LoopOwnsStream, MethodFirst
  <2>2. SendEvent \/ SendAbandoned \/ AllSent \/ ReadSample \/ ReadFails
    BY <2>1 DEF PollerLoop, TracerLoop, PollTick, PollDone, PollFails, SendOnClosed, LoopStops
  <2>3. method = "ebpf" \/ ~ (SendAbandoned \/ AllSent)
    BY <1>4, <2>1 DEF Inv, TypeOK
  <2> QED
    BY <2>1, <2>2, <2>3 DEF SendEvent, SendAbandoned, AllSent, ReadSample, ReadFails, Idle
<1> QED
  BY <1>1, <1>3, <1>4 DEF Owned, MethodFirst, HeldForUse, LoopOwnsStream

\* ebpf_supported.go Close and cmd/daemon.go: the tracer is let go at the latest by the
\* deferred Close, which closes no stream but the poller's.
LEMMA OthersOwned ==
    ASSUME Owned,
           Signal \/ ServerFails \/ ServerShutsDown \/ PodCacheStops \/ WatcherCloses \/ Main
             \/ SamplerRun
    PROVE  Owned'
<1>1. UNCHANGED <<method, run, loop, panicked>>
  BY DEF Signal, ServerFails, ServerShutsDown, PodCacheStops, WatcherCloses, Main,
         WaitReturns, CloseDetector, Exit, SamplerRun, CollectDone, CollectFails, SamplerTick,
         SamplerStops, mainVars, daemonVars, streamVars
<1>2. closed' => closed \/ method = "poller"
  BY DEF Signal, ServerFails, ServerShutsDown, PodCacheStops, WatcherCloses, Main,
         WaitReturns, CloseDetector, CloseEndsStream, Exit, SamplerRun, CollectDone,
         CollectFails, SamplerTick, SamplerStops, streamVars
<1>3. /\ main' = main \/ main' \in {"closing", "closed", "exited"}
      /\ held' = {} \/ (held' = held /\ (main' \in {"closed", "exited"} => main \in {"closed", "exited"}))
  BY DEF Signal, ServerFails, ServerShutsDown, PodCacheStops, WatcherCloses, Main,
         WaitReturns, CloseDetector, Exit, SamplerRun, CollectDone, CollectFails, SamplerTick,
         SamplerStops, mainVars
<1> QED
  BY <1>1, <1>2, <1>3 DEF Owned, MethodFirst, HeldForUse, LoopOwnsStream

\* No step breaks what is owned.
LEMMA OwnedOK == Inv /\ Owned /\ [Next]_vars => Owned'
<1> SUFFICES ASSUME Inv, Owned, [Next]_vars PROVE Owned'
  OBVIOUS
<1>1. CASE UNCHANGED vars
  BY <1>1 DEF vars, mainVars, daemonVars, streamVars, Owned, MethodFirst, HeldForUse,
              LoopOwnsStream
<1> QED
  BY <1>1, BuildOwned, DaemonRunOwned, LoopsOwned, OthersOwned DEF Next

\* cmd/daemon.go: nothing is held and nothing runs when the process begins.
LEMMA InitOwned == Init => Owned
BY DEF Init, Owned, MethodFirst, HeldForUse, LoopOwnsStream

\* tracer_linux.go Load and Close: a polling daemon and one that has ended in order hold
\* nothing of the kernel, wherever Load or the rest of the start gave up.
THEOREM LifecycleProbeReleased == Spec => []ProbeReleased
<1>1. Owned => ProbeReleased
  BY DEF Owned, HeldForUse, ProbeReleased
<1> QED
  BY <1>1, InitOK, NextOK, InitOwned, OwnedOK, PTL DEF Spec

\* ebpf_supported.go Close: no send of the tracer's loop meets a closed channel.
THEOREM LifecycleTracedStreamIsOwned == Spec => []TracedStreamIsOwned
<1>1. Owned => TracedStreamIsOwned
  BY DEF Owned, LoopOwnsStream, TracedStreamIsOwned
<1> QED
  BY <1>1, InitOK, NextOK, InitOwned, OwnedOK, PTL DEF Spec

-----------------------------------------------------------------------------
\* The report store.
StoreInv == StoreTypeOK /\ IndexExact

\* NewMemory always ends up with a positive capacity.
LEMMA CapacityPositive == Capacity \in Nat /\ Capacity > 0
BY StoreAssumption DEF Capacity

\* What Insert works on, once room has been made.
Room == IF Len(ordered) >= Capacity THEN Evicted(ordered) ELSE ordered
RoomIndex == IF Len(ordered) >= Capacity THEN Indexed(Room) ELSE byID

\* store.go reindexLocked: rebuilding the index of a slice without repeated IDs
\* gives every report its own position.
LEMMA ReindexExact ==
    ASSUME NEW reports \in Seq(Report),
           \A i, j \in 1 .. Len(reports) : reports[i].id = reports[j].id => i = j
    PROVE  /\ DOMAIN Indexed(reports) = {reports[i].id : i \in 1 .. Len(reports)}
           /\ \A i \in 1 .. Len(reports) : Indexed(reports)[reports[i].id] = i
<1>1. DOMAIN reports = 1 .. Len(reports)
  BY LenProperties
<1>2. DOMAIN Indexed(reports) = {reports[i].id : i \in 1 .. Len(reports)}
  BY <1>1 DEF Indexed
<1>3. ASSUME NEW i \in 1 .. Len(reports)
      PROVE  Indexed(reports)[reports[i].id] = i
  <2> DEFINE P(j) == j \in 1 .. Len(reports) /\ reports[j].id = reports[i].id
  <2>1. Indexed(reports)[reports[i].id] =
            CHOOSE j \in 1 .. Len(reports) : reports[j].id = reports[i].id
    BY <1>1, <1>3 DEF Indexed
  <2>2. P(i)
    BY <1>3
  <2>3. \A j : P(j) => j = i
    BY <1>3
  <2> QED
    BY <2>1, <2>2, <2>3
<1> QED
  BY <1>2, <1>3

\* store.go Put up to the append: after the eviction and the reindexing the slice
\* has a free place and its index is exact.
LEMMA RoomOK ==
    ASSUME StoreInv
    PROVE  /\ Room \in Seq(Report)
           /\ Len(Room) < Capacity
           /\ DOMAIN RoomIndex = {Room[i].id : i \in 1 .. Len(Room)}
           /\ DOMAIN RoomIndex \subseteq DOMAIN byID
           /\ \A i \in 1 .. Len(Room) : RoomIndex[Room[i].id] = i
<1>1. /\ ordered \in Seq(Report)
      /\ Len(ordered) \in Nat
      /\ Len(ordered) <= Capacity
      /\ DOMAIN ordered = 1 .. Len(ordered)
  BY LenProperties DEF StoreInv, StoreTypeOK
<1>2. \A i \in 1 .. Len(ordered) : ordered[i].id \in DOMAIN byID /\ byID[ordered[i].id] = i
  BY <1>1 DEF StoreInv, IndexExact
<1>3. \A id \in DOMAIN byID : byID[id] \in 1 .. Len(ordered) /\ ordered[byID[id]].id = id
  BY <1>1 DEF StoreInv, IndexExact
<1>4. CASE Len(ordered) < Capacity
  <2>1. Room = ordered /\ RoomIndex = byID
    BY <1>1, <1>4, CapacityPositive DEF Room, RoomIndex
  <2> QED
    BY <1>1, <1>2, <1>3, <1>4, <2>1
<1>5. CASE Len(ordered) = Capacity
  <2>1. Room = Tail(ordered) /\ RoomIndex = Indexed(Room)
    BY <1>5, CapacityPositive DEF Room, RoomIndex, Evicted
  <2>2. /\ Room \in Seq(Report)
        /\ Len(Room) = Len(ordered) - 1
        /\ \A i \in 1 .. Len(Room) : Room[i] = ordered[i + 1]
    BY <1>1, <1>5, <2>1, CapacityPositive, HeadTailProperties, EmptySeq
  <2>3. \A i \in 1 .. Len(Room) : i + 1 \in 1 .. Len(ordered)
    BY <1>1, <2>2
  <2>4. \A i, j \in 1 .. Len(Room) : Room[i].id = Room[j].id => i = j
    <3> TAKE i, j \in 1 .. Len(Room)
    <3> HAVE Room[i].id = Room[j].id
    <3>1. ordered[i + 1].id = ordered[j + 1].id
      BY <2>2
    <3>2. i + 1 = j + 1
      BY <1>2, <2>3, <3>1
    <3> QED
      BY <3>2
  <2>5. /\ DOMAIN RoomIndex = {Room[i].id : i \in 1 .. Len(Room)}
        /\ \A i \in 1 .. Len(Room) : RoomIndex[Room[i].id] = i
    BY <2>1, <2>2, <2>4, ReindexExact
  <2>6. \A i \in 1 .. Len(Room) : Room[i].id \in DOMAIN byID
    BY <1>2, <2>2, <2>3
  <2>7. DOMAIN RoomIndex \subseteq DOMAIN byID
    BY <2>5, <2>6
  <2> QED
    BY <1>1, <1>5, <2>2, <2>5, <2>7, CapacityPositive
<1>6. Len(ordered) < Capacity \/ Len(ordered) = Capacity
  <2> DEFINE n == Len(ordered)
             c == Capacity
  <2>1. n \in Nat /\ c \in Nat /\ n <= c
    BY <1>1, CapacityPositive
  <2> HIDE DEF n, c
  <2>2. n < c \/ n = c
    BY <2>1
  <2> QED
    BY <2>2 DEF n, c
<1> QED
  BY <1>4, <1>5, <1>6

-----------------------------------------------------------------------------
LEMMA StoreInitOK == StoreInit => StoreInv
BY CapacityPositive DEF StoreInit, StoreInv, StoreTypeOK, IndexExact

\* store.go Put, known ID: the index still fits, as the report put keeps the ID.
LEMMA OverwriteOK ==
    ASSUME StoreInv, NEW r \in Report, Overwrite(r)
    PROVE  StoreInv'
<1>1. /\ ordered \in Seq(Report)
      /\ Len(ordered) \in Nat
      /\ DOMAIN ordered = 1 .. Len(ordered)
  BY LenProperties DEF StoreInv, StoreTypeOK
<1>2. /\ byID[r.id] \in 1 .. Len(ordered)
      /\ ordered[byID[r.id]].id = r.id
  BY <1>1 DEF StoreInv, IndexExact, Overwrite
<1>3. /\ ordered' \in Seq(Report)
      /\ Len(ordered') = Len(ordered)
      /\ DOMAIN ordered' = 1 .. Len(ordered)
      /\ \A i \in 1 .. Len(ordered) : ordered'[i] = IF i = byID[r.id] THEN r ELSE ordered[i]
  <2>1. ordered' = [ordered EXCEPT ![byID[r.id]] = r]
    BY DEF Overwrite
  <2> QED
    BY <1>1, <1>2, <2>1, ExceptSeq
<1>4. \A i \in 1 .. Len(ordered) : ordered'[i].id = ordered[i].id
  BY <1>2, <1>3
<1>5. UNCHANGED byID
  BY DEF Overwrite
<1> QED
  BY <1>1, <1>3, <1>4, <1>5 DEF StoreInv, StoreTypeOK, IndexExact

\* store.go Put, new ID.
LEMMA InsertOK ==
    ASSUME StoreInv, NEW r \in Report, Insert(r)
    PROVE  StoreInv'
<1>1. /\ Room \in Seq(Report)
      /\ Len(Room) \in Nat
      /\ Len(Room) < Capacity
      /\ DOMAIN RoomIndex = {Room[i].id : i \in 1 .. Len(Room)}
      /\ DOMAIN RoomIndex \subseteq DOMAIN byID
      /\ \A i \in 1 .. Len(Room) : RoomIndex[Room[i].id] = i
  BY RoomOK, LenProperties
<1>2. /\ ordered' = Append(Room, r)
      /\ byID' = [id \in DOMAIN RoomIndex \cup {r.id} |->
                     IF id = r.id THEN Len(Room) + 1 ELSE RoomIndex[id]]
  BY DEF Insert, Room, RoomIndex
<1>3. r.id \notin DOMAIN RoomIndex /\ DOMAIN byID \subseteq ID /\ r.id \in ID
  BY <1>1 DEF Insert, StoreInv, StoreTypeOK, Report
<1>4. /\ ordered' \in Seq(Report)
      /\ Len(ordered') = Len(Room) + 1
      /\ \A i \in 1 .. Len(Room) : ordered'[i] = Room[i]
      /\ ordered'[Len(Room) + 1] = r
      /\ DOMAIN ordered' = 1 .. Len(Room) + 1
  BY <1>1, <1>2, AppendProperties, LenProperties
<1>5. \A id \in DOMAIN RoomIndex : /\ RoomIndex[id] \in 1 .. Len(Room)
                                   /\ Room[RoomIndex[id]].id = id
  BY <1>1
<1>6. StoreTypeOK'
  BY <1>1, <1>2, <1>3, <1>4, <1>5, CapacityPositive DEF StoreTypeOK
<1>7. ASSUME NEW id \in DOMAIN byID'
      PROVE  byID'[id] \in DOMAIN ordered' /\ ordered'[byID'[id]].id = id
  <2>1. CASE id = r.id
    BY <1>1, <1>2, <1>4, <2>1
  <2>2. CASE id # r.id
    <3>1. id \in DOMAIN RoomIndex /\ byID'[id] = RoomIndex[id]
      BY <1>2, <1>7, <2>2
    <3> QED
      BY <1>1, <1>4, <1>5, <3>1
  <2> QED
    BY <2>1, <2>2
<1>8. ASSUME NEW i \in DOMAIN ordered'
      PROVE  ordered'[i].id \in DOMAIN byID' /\ byID'[ordered'[i].id] = i
  <2>1. CASE i = Len(Room) + 1
    BY <1>2, <1>4, <2>1
  <2>2. CASE i # Len(Room) + 1
    <3>1. i \in 1 .. Len(Room) /\ ordered'[i] = Room[i]
      BY <1>1, <1>4, <1>8, <2>2
    <3>2. Room[i].id \in DOMAIN RoomIndex /\ Room[i].id # r.id
      BY <1>1, <1>3, <3>1
    <3> QED
      BY <1>1, <1>2, <3>1, <3>2
  <2> QED
    BY <2>1, <2>2
<1> QED
  BY <1>6, <1>7, <1>8 DEF StoreInv, IndexExact

LEMMA StoreNextOK == StoreInv /\ [StoreNext]_storeVars => StoreInv'
<1> SUFFICES ASSUME StoreInv, [StoreNext]_storeVars PROVE StoreInv'
  OBVIOUS
<1>1. ASSUME NEW r \in Report, Overwrite(r) PROVE StoreInv'
  BY <1>1, OverwriteOK
<1>2. ASSUME NEW r \in Report, Insert(r) PROVE StoreInv'
  BY <1>2, InsertOK
<1>3. CASE UNCHANGED storeVars
  BY <1>3 DEF StoreInv, StoreTypeOK, IndexExact, storeVars
<1> QED
  BY <1>1, <1>2, <1>3 DEF StoreNext, Put

\* store.go: slice and index keep their types and the slice its bound, for every
\* capacity and any sequence of Puts.
THEOREM StoreTypeCorrect == StoreSpec => []StoreTypeOK
<1>1. StoreInv => StoreTypeOK
  BY DEF StoreInv
<1> QED
  BY <1>1, StoreInitOK, StoreNextOK, PTL DEF StoreSpec

\* store.go Put and reindexLocked: Get finds every retained report under its own
\* ID, and no ID leads to another's report, for every capacity.
THEOREM StoreIndexExact == StoreSpec => []IndexExact
<1>1. StoreInv => IndexExact
  BY DEF StoreInv
<1> QED
  BY <1>1, StoreInitOK, StoreNextOK, PTL DEF StoreSpec

\* store.go Put: the indexed store implements the log that is searched by ID: a
\* known ID is replaced in place, a new one appended, and only the oldest report
\* is ever given up.
THEOREM StoreImplementsLog == StoreSpec => ImplementsLog
<1>1. StoreInit => Log!LogInit
  BY DEF StoreInit, Log!LogInit
<1>2. StoreInv /\ [StoreNext]_storeVars => [Log!LogNext]_ordered
  <2> SUFFICES ASSUME StoreInv, [StoreNext]_storeVars PROVE [Log!LogNext]_ordered
    OBVIOUS
  <2>0. DOMAIN ordered = 1 .. Len(ordered) /\ Len(ordered) \in Nat
    BY LenProperties DEF StoreInv, StoreTypeOK
  <2>1. ASSUME NEW r \in Report, Overwrite(r) PROVE Log!LogNext
    <3>1. byID[r.id] \in Log!Entries(r.id)
      BY <2>0, <2>1 DEF StoreInv, IndexExact, Overwrite, Log!Entries
    <3> QED
      BY <2>1, <3>1 DEF Overwrite, Log!LogNext, Log!Replace
  <2>2. ASSUME NEW r \in Report, Insert(r) PROVE Log!LogNext
    <3>1. Log!Entries(r.id) = {}
      BY <2>0, <2>2 DEF StoreInv, IndexExact, Insert, Log!Entries
    <3>2. ordered' = Append(IF Len(ordered) < Capacity THEN ordered ELSE Tail(ordered), r)
      BY <2>0, <2>2, CapacityPositive DEF Insert, Evicted
    <3> QED
      BY <3>1, <3>2 DEF Log!LogNext, Log!Arrive
  <2>3. CASE UNCHANGED storeVars
    BY <2>3 DEF storeVars
  <2> QED
    BY <2>1, <2>2, <2>3 DEF StoreNext, Put
<1> QED
  BY <1>1, <1>2, StoreInitOK, StoreNextOK, PTL DEF StoreSpec, ImplementsLog, Log!LogSpec

-----------------------------------------------------------------------------
\* What is read from the store, starting with the loop of List: an argument by the least
\* counterexample takes the place of an induction over its turns.
LEMMA LeastExists ==
    ASSUME NEW T, T \subseteq Nat, T # {}
    PROVE  \E least \in T : \A i \in T : least <= i
<1>1. PICK least \in T : \A i \in T : ~ (<<i, least>> \in OpToRel(<, Nat))
  BY NatLessThanWellFounded, WFMin
<1>2. \A i \in T : ~ (i < least)
  BY <1>1 DEF OpToRel
<1> QED
  BY <1>2

\* s is the matching ones of the first i reports, in their order: its k-th is the report
\* at position pos[k].
PicksOut(f, i, s, pos) ==
    /\ s \in Seq(Report)
    /\ pos \in [1 .. Len(s) -> 1 .. i]
    /\ \A k, l \in 1 .. Len(s) : k < l => pos[k] < pos[l]
    /\ \A k \in 1 .. Len(s) : s[k] = ordered[pos[k]] /\ Matches(f, ordered[pos[k]])
    /\ \A j \in 1 .. i : Matches(f, ordered[j]) => \E k \in 1 .. Len(s) : pos[k] = j

\* store.go List: one turn of the loop.
LEMMA OneMore ==
    ASSUME NEW f, NEW i \in Nat, ordered \in Seq(Report), i + 1 \in 1 .. Len(ordered),
           NEW s, NEW pos, PicksOut(f, i, s, pos)
    PROVE  \E p : PicksOut(f, i + 1, IF Matches(f, ordered[i + 1])
                                      THEN Append(s, ordered[i + 1]) ELSE s, p)
<1>1. /\ s \in Seq(Report) /\ Len(s) \in Nat
      /\ pos \in [1 .. Len(s) -> 1 .. i]
      /\ \A k \in 1 .. Len(s) : pos[k] \in 1 .. i
      /\ ordered[i + 1] \in Report
  BY LenProperties, ElementOfSeq DEF PicksOut
<1>2. CASE ~ Matches(f, ordered[i + 1])
  <2>1. pos \in [1 .. Len(s) -> 1 .. i + 1]
    BY <1>1
  <2>2. \A j \in 1 .. i + 1 : j \in 1 .. i \/ j = i + 1
    OBVIOUS
  <2>3. PicksOut(f, i + 1, s, pos)
    BY <1>2, <2>1, <2>2 DEF PicksOut
  <2> QED
    BY <1>2, <2>3
<1>3. CASE Matches(f, ordered[i + 1])
  <2> DEFINE m == Len(s)
             t == Append(s, ordered[i + 1])
  <2>1. /\ t \in Seq(Report) /\ Len(t) = m + 1
        /\ t[m + 1] = ordered[i + 1] /\ \A k \in 1 .. m : t[k] = s[k]
    BY <1>1, AppendProperties
  <2>2. PICK p : p = [k \in 1 .. m + 1 |-> IF k = m + 1 THEN i + 1 ELSE pos[k]]
    OBVIOUS
  <2>3. /\ p \in [1 .. m + 1 -> 1 .. i + 1] /\ p[m + 1] = i + 1
        /\ \A k \in 1 .. m : p[k] = pos[k]
    BY <1>1, <2>2
  <2>4. m \in Nat /\ \A k \in 1 .. m + 1 : k \in 1 .. m \/ k = m + 1
    BY <1>1
  <2> HIDE DEF t, m
  <2>5. \A k, l \in 1 .. m + 1 : k < l => p[k] < p[l]
    <3>1. \A k, l \in 1 .. m : k < l => pos[k] < pos[l]
      BY DEF PicksOut, m
    <3>2. \A k \in 1 .. m : pos[k] \in Nat /\ pos[k] < i + 1
      BY <1>1 DEF m
    <3>3. SUFFICES ASSUME NEW k \in 1 .. m + 1, NEW l \in 1 .. m + 1, k < l
                   PROVE  p[k] < p[l]
      OBVIOUS
    <3>4. k \in 1 .. m
      BY <2>4, <3>3
    <3>5. CASE l = m + 1
      BY <2>3, <3>2, <3>4, <3>5
    <3>6. CASE l \in 1 .. m
      BY <2>3, <3>1, <3>3, <3>4, <3>6
    <3> QED
      BY <2>4, <3>5, <3>6
  <2>6. \A k \in 1 .. m + 1 : t[k] = ordered[p[k]] /\ Matches(f, ordered[p[k]])
    BY <1>3, <2>1, <2>3, <2>4 DEF PicksOut, m
  <2>7. ASSUME NEW j \in 1 .. i + 1, Matches(f, ordered[j])
        PROVE  \E k \in 1 .. m + 1 : p[k] = j
    <3>1. CASE j = i + 1
      BY <2>3, <2>4, <3>1
    <3>2. CASE j # i + 1
      <4>1. j \in 1 .. i
        BY <3>2
      <4>2. PICK k \in 1 .. m : pos[k] = j
        BY <2>7, <4>1 DEF PicksOut, m
      <4> QED
        BY <2>3, <2>4, <4>2
    <3> QED
      BY <3>1, <3>2
  <2>8. PicksOut(f, i + 1, t, p)
    BY <2>1, <2>3, <2>5, <2>6, <2>7 DEF PicksOut
  <2> QED
    BY <1>3, <2>8 DEF t
<1> QED
  BY <1>2, <1>3

\* store.go List: what the loop leaves is the matching reports in their order.
LEMMA MatchedIs ==
    ASSUME NEW f, ordered \in Seq(Report)
    PROVE  \E pos : PicksOut(f, Len(ordered), Matched(f), pos)
<1> DEFINE n == Len(ordered)
           Body(g, i) == IF i = 0 THEN << >>
                         ELSE IF Matches(f, ordered[i]) THEN Append(g[i - 1], ordered[i])
                         ELSE g[i - 1]
           UpTo(g, m) == g = [i \in 0 .. m |-> Body(g, i)]
           T == {m \in 0 .. n : ~ \E g : UpTo(g, m)}
<1>0. n \in Nat
  BY LenProperties
<1>1. ASSUME NEW m \in 0 .. n PROVE \E g : UpTo(g, m)
  <2> SUFFICES ASSUME T # {} PROVE FALSE
    OBVIOUS
  <2>1. PICK k \in T : \A i \in T : k <= i
    <3>1. T \subseteq Nat /\ T # {}
      BY <1>0
    <3> HIDE DEF T
    <3> QED
      BY <3>1, LeastExists
  <2>2. k \in 0 .. n /\ ~ \E g : UpTo(g, k)
    BY <2>1
  <2>3. k # 0
    <3>1. PICK g : g = [i \in 0 .. 0 |-> << >>]
      OBVIOUS
    <3>2. UpTo(g, 0)
      BY <3>1
    <3> QED
      BY <2>2, <3>2
  <2>4. k \in 1 .. n /\ k - 1 \in 0 .. n /\ ~ (k <= k - 1)
    BY <1>0, <2>2, <2>3
  <2>5. PICK g : UpTo(g, k - 1)
    <3> HIDE DEF UpTo
    <3> QED
      BY <2>1, <2>4
  <2>6. PICK h : h = [i \in 0 .. k |-> IF i = k THEN Body(g, k) ELSE g[i]]
    OBVIOUS
  <2>7. \A i \in 0 .. k - 1 : g[i] = Body(g, i)
    <3> DEFINE F == [i \in 0 .. k - 1 |-> Body(g, i)]
    <3>1. g = F
      BY <2>5
    <3>2. \A i \in 0 .. k - 1 : F[i] = Body(g, i)
      OBVIOUS
    <3> HIDE DEF F, Body
    <3> QED
      BY <3>1, <3>2
  <2>8. \A i \in 0 .. k : h[i] = Body(h, i)
    <3>1. h[k] = Body(g, k) /\ h[k - 1] = g[k - 1] /\ k # 0
      BY <2>4, <2>6
    <3>2. \A i \in 0 .. k - 1 : h[i] = g[i] /\ (i # 0 => h[i - 1] = g[i - 1])
      BY <2>4, <2>6
    <3>3. \A i \in 0 .. k - 1 : Body(h, i) = Body(g, i)
      BY <3>2
    <3>4. Body(h, k) = Body(g, k)
      BY <3>1
    <3>5. \A i \in 0 .. k : i \in 0 .. k - 1 \/ i = k
      BY <2>4
    <3> HIDE DEF Body
    <3> QED
      BY <2>7, <3>1, <3>2, <3>3, <3>4, <3>5
  <2>9. UpTo(h, k)
    <3> HIDE DEF Body
    <3> QED
      BY <2>6, <2>8
  <2> QED
    BY <2>2, <2>9
<1>2. \E g : UpTo(g, n)
  <2>1. n \in 0 .. n
    BY <1>0
  <2> HIDE DEF UpTo, n
  <2> QED
    BY <1>1, <2>1
<1> DEFINE upTo == CHOOSE g : g = [i \in 0 .. n |-> Body(g, i)]
<1>3. upTo = [i \in 0 .. n |-> Body(upTo, i)]
  BY <1>2
<1>4. Matched(f) = upTo[n]
  BY DEF Matched
<1> HIDE DEF upTo
<1>5. upTo[0] = << >> /\ \A i \in 1 .. n : upTo[i] = Body(upTo, i)
  <2> DEFINE F == [i \in 0 .. n |-> Body(upTo, i)]
  <2>1. upTo = F
    BY <1>3
  <2>2. F[0] = << >> /\ \A i \in 1 .. n : F[i] = Body(upTo, i)
    BY <1>0
  <2> HIDE DEF F, Body
  <2> QED
    BY <2>1, <2>2
<1> DEFINE U == {m \in 0 .. n : ~ \E pos : PicksOut(f, m, upTo[m], pos)}
<1>6. U = {}
  <2> SUFFICES ASSUME U # {} PROVE FALSE
    OBVIOUS
  <2>1. PICK m \in U : \A k \in U : m <= k
    <3>1. U \subseteq Nat /\ U # {}
      BY <1>0
    <3> HIDE DEF U
    <3> QED
      BY <3>1, LeastExists
  <2>2. m \in 0 .. n /\ ~ \E pos : PicksOut(f, m, upTo[m], pos)
    BY <2>1
  <2>3. m # 0
    <3>1. Len(<< >>) = 0 /\ << >> \in Seq(Report)
      OBVIOUS
    <3>2. PicksOut(f, 0, << >>, << >>)
      <4>1. << >> \in [1 .. 0 -> 1 .. 0]
        OBVIOUS
      <4> QED
        BY <3>1, <4>1 DEF PicksOut
    <3> QED
      BY <1>5, <2>2, <3>2
  <2>4. m \in 1 .. n /\ m - 1 \in 0 .. n /\ m - 1 \in Nat /\ ~ (m <= m - 1) /\ (m - 1) + 1 = m
    BY <1>0, <2>2, <2>3
  <2>5. PICK pos : PicksOut(f, m - 1, upTo[m - 1], pos)
    BY <2>1, <2>4
  <2>6. \E p : PicksOut(f, m, IF Matches(f, ordered[m]) THEN Append(upTo[m - 1], ordered[m])
                                 ELSE upTo[m - 1], p)
    <3> DEFINE i == m - 1
    <3>1. i \in Nat /\ i + 1 = m /\ i + 1 \in 1 .. Len(ordered) /\ PicksOut(f, i, upTo[i], pos)
      BY <2>4, <2>5
    <3> HIDE DEF i
    <3>2. \E p : PicksOut(f, i + 1, IF Matches(f, ordered[i + 1])
                                     THEN Append(upTo[i], ordered[i + 1]) ELSE upTo[i], p)
      BY <3>1, OneMore
    <3> QED
      BY <3>1, <3>2 DEF i
  <2>7. upTo[m] = IF Matches(f, ordered[m]) THEN Append(upTo[m - 1], ordered[m])
                                 ELSE upTo[m - 1]
    BY <1>5, <2>3, <2>4
  <2> QED
    BY <2>2, <2>6, <2>7
<1> QED
  BY <1>0, <1>4, <1>6
\* The positions of the reports that match a filter.
Matching(f) == {i \in DOMAIN ordered : Matches(f, ordered[i])}

\* store.go Put and reindexLocked: no report stands twice in the slice.
LEMMA OrderedIs ==
    ASSUME StoreInv
    PROVE  /\ ordered \in Seq(Report) /\ Len(ordered) \in Nat
           /\ DOMAIN ordered = 1 .. Len(ordered)
           /\ \A i, j \in DOMAIN ordered : ordered[i] = ordered[j] => i = j
BY LenProperties DEF StoreInv, StoreTypeOK, IndexExact

\* As many reports are picked out as there are positions to pick from.
LEMMA PickedAll ==
    ASSUME StoreInv, NEW f, NEW s, NEW pos, PicksOut(f, Len(ordered), s, pos)
    PROVE  /\ Len(s) \in Nat /\ Len(s) = Cardinality(Matching(f))
           /\ \A k \in 1 .. Len(s) : pos[k] \in Matching(f)
           /\ \A i \in Matching(f) : \E k \in 1 .. Len(s) : pos[k] = i
<1> DEFINE m == Len(s)
<1>0. m \in Nat
  BY LenProperties DEF PicksOut
<1>1. pos \in [1 .. m -> 1 .. Len(ordered)] /\ \A k \in 1 .. m : Matches(f, ordered[pos[k]])
  BY DEF PicksOut
<1>2. \A k \in 1 .. m : pos[k] \in Matching(f)
  BY <1>1, OrderedIs DEF Matching
<1>3. \A i \in Matching(f) : \E k \in 1 .. m : pos[k] = i
  BY OrderedIs DEF Matching, PicksOut
<1>4. \A k, l \in 1 .. m : pos[k] = pos[l] => k = l
  <2>1. \A k, l \in 1 .. m : k < l => pos[k] < pos[l]
    BY DEF PicksOut
  <2>2. \A k \in 1 .. m : pos[k] \in Nat
    BY <1>1
  <2> QED
    BY <1>0, <2>1, <2>2
<1> HIDE DEF m
<1>5. pos \in [1 .. m -> Matching(f)]
  BY <1>1, <1>2
<1>6. ExistsBijection(1 .. m, Matching(f))
  <2>1. pos \in Bijection(1 .. m, Matching(f))
    BY <1>3, <1>4, <1>5 DEF Bijection, Injection, Surjection, IsInjective
  <2> QED
    BY <2>1 DEF ExistsBijection
<1>7. IsFiniteSet(1 .. m) /\ Cardinality(1 .. m) = m
  BY <1>0, FS_Interval
<1>8. Cardinality(Matching(f)) = m
  BY <1>6, <1>7, FS_Bijection
<1> QED
  BY <1>0, <1>2, <1>3, <1>8 DEF m

\* store.go List: the newest matching reports, newest first, no more than the limit; and
\* without a limit all of them.
LEMMA ListIs ==
    ASSUME StoreInv, NEW f, NEW limit \in Int
    PROVE  /\ NewestOf(List(f, limit), Matching(f), limit)
           /\ List(f, limit) = << >> <=> Matching(f) = {}
           /\ \A k \in DOMAIN List(f, limit) :
                 \E i \in Matching(f) : List(f, limit)[k] = ordered[i]
           /\ limit <= 0 => \A i \in Matching(f) :
                               \E k \in DOMAIN List(f, limit) : List(f, limit)[k] = ordered[i]
<1>1. PICK pos : PicksOut(f, Len(ordered), Matched(f), pos)
  BY MatchedIs, OrderedIs
<1>2. PICK s : s = Matched(f)
  OBVIOUS
<1>3. PICK m \in Nat : m = Len(s)
  BY <1>1, <1>2, LenProperties DEF PicksOut
<1>4. /\ m = Cardinality(Matching(f))
      /\ \A k \in 1 .. m : pos[k] \in Matching(f)
      /\ \A i \in Matching(f) : \E k \in 1 .. m : pos[k] = i
  BY <1>1, <1>2, <1>3, PickedAll
<1>5. /\ s \in Seq(Report)
      /\ \A k \in 1 .. m : s[k] = ordered[pos[k]] /\ pos[k] \in 1 .. Len(ordered)
      /\ \A k, l \in 1 .. m : k < l => pos[k] < pos[l]
  BY <1>1, <1>2, <1>3 DEF PicksOut
<1>6. PICK n \in Nat : n = IF limit > 0 /\ limit < m THEN limit ELSE m
  BY <1>3
<1>7. n <= m /\ (n = 0 <=> m = 0)
  BY <1>3, <1>6
<1>8. PICK newest : newest = List(f, limit)
  OBVIOUS
<1>9. /\ Len(newest) = n /\ DOMAIN newest = 1 .. n
      /\ newest = << >> <=> n = 0
      /\ \A k \in 1 .. n : newest[k] = s[m - k + 1]
  <2> DEFINE turned == Reverse(s)
  <2>1. turned = [k \in 1 .. m |-> s[(m - k) + 1]]
    BY <1>2, <1>3 DEF Reverse
  <2>2. \A k \in 1 .. m : s[(m - k) + 1] \in Report
    BY <1>3, <1>5, ElementOfSeq
  <2>3. turned \in Seq(Report) /\ Len(turned) = m /\ DOMAIN turned = 1 .. m
    BY <1>3, <2>1, <2>2
  <2>4. \A k \in 1 .. m : turned[k] = s[(m - k) + 1]
    BY <2>1
  <2>5. newest = IF limit > 0 /\ m > limit THEN SubSeq(turned, 1, limit) ELSE turned
    BY <1>2, <1>8, <2>3 DEF List
  <2> HIDE DEF turned
  <2>6. CASE limit > 0 /\ m > limit
    <3>1. newest = SubSeq(turned, 1, n) /\ n = limit /\ n \in 1 .. m
      BY <1>3, <1>6, <2>5, <2>6
    <3>2. newest \in Seq(Report) /\ Len(newest) = n /\ \A k \in 1 .. n : newest[k] = turned[k]
      <4>1. \A k \in 1 .. n : turned[k] \in Report
        BY <1>3, <2>2, <2>4, <3>1
      <4>2. 1 <= n /\ n <= Len(turned) /\ n \in 1 .. Len(turned) + 1
        BY <1>3, <2>3, <3>1
      <4> QED
        BY <2>3, <3>1, <4>1, <4>2, SubSeqProperties
    <3>3. DOMAIN newest = 1 .. n /\ n # 0
      BY <1>3, <3>1, <3>2, LenProperties
    <3>4. newest # << >>
      BY <3>2, <3>3
    <3>5. \A k \in 1 .. n : k \in 1 .. m
      BY <1>3, <3>1
    <3> QED
      BY <2>4, <3>2, <3>3, <3>4, <3>5
  <2>7. CASE ~ (limit > 0 /\ m > limit)
    <3>1. newest = turned /\ n = m
      BY <1>3, <1>6, <2>5, <2>7
    <3> QED
      BY <1>3, <2>3, <2>4, <3>1, EmptySeq
  <2> QED
    BY <2>6, <2>7
<1>10. \A k \in 1 .. n : m - k + 1 \in 1 .. m /\ newest[k] = ordered[pos[m - k + 1]]
  BY <1>3, <1>5, <1>6, <1>7, <1>9
<1>11. NewestOf(newest, Matching(f), limit)
  <2>1. Len(newest) = IF limit > 0 /\ limit < Cardinality(Matching(f)) THEN limit
                      ELSE Cardinality(Matching(f))
    BY <1>4, <1>6, <1>9
  <2>2. ASSUME NEW k \in DOMAIN newest
        PROVE  LET newer == {i \in Matching(f) : \E l \in 1 .. k - 1 : newest[l] = ordered[i]} IN
               \E i \in Matching(f) \ newer : newest[k] = ordered[i]
                                              /\ \A j \in Matching(f) \ newer : j <= i
    <3> DEFINE newer == {i \in Matching(f) : \E l \in 1 .. k - 1 : newest[l] = ordered[i]}
               at == m - k + 1
    <3>1. k \in 1 .. n /\ at \in 1 .. m /\ newest[k] = ordered[pos[at]] /\ pos[at] \in Matching(f)
      BY <1>4, <1>9, <1>10
    <3>2. pos[at] \notin newer
      <4>1. SUFFICES ASSUME NEW l \in 1 .. k - 1, newest[l] = ordered[pos[at]] PROVE FALSE
        OBVIOUS
      <4>2. l \in 1 .. n /\ m - l + 1 \in 1 .. m /\ at < m - l + 1
        BY <1>3, <1>6, <1>7, <3>1
      <4>3. newest[l] = ordered[pos[m - l + 1]] /\ pos[m - l + 1] \in Matching(f)
        BY <1>4, <1>10, <4>2
      <4>4. pos[m - l + 1] = pos[at]
        BY <3>1, <4>1, <4>3, OrderedIs DEF Matching
      <4>5. pos[at] < pos[m - l + 1]
        BY <1>5, <3>1, <4>2
      <4>6. pos[at] \in Nat
        BY <1>5, <3>1
      <4> QED
        BY <4>4, <4>5, <4>6
    <3>3. ASSUME NEW j \in Matching(f) \ newer PROVE j <= pos[at]
      <4>1. PICK q \in 1 .. m : pos[q] = j
        BY <1>4
      <4>2. ~ (at < q)
        <5>1. SUFFICES ASSUME at < q PROVE FALSE
          OBVIOUS
        <5>2. PICK l \in 1 .. k - 1 : q = m - l + 1
          <6>1. m - q + 1 \in 1 .. k - 1 /\ q = m - (m - q + 1) + 1
            BY <1>3, <1>6, <3>1, <5>1
          <6> QED
            BY <6>1
        <5>3. l \in 1 .. n
          BY <1>6, <3>1
        <5>4. newest[l] = ordered[j]
          BY <1>10, <4>1, <5>2, <5>3
        <5> QED
          BY <3>3, <5>4
      <4>3. q < at \/ q = at
        BY <1>3, <3>1, <4>2
      <4>4. pos[q] \in Nat /\ pos[at] \in Nat
        BY <1>5, <3>1
      <4>5. q < at => pos[q] < pos[at]
        BY <1>5, <3>1
      <4> QED
        BY <4>1, <4>3, <4>4, <4>5
    <3> QED
      BY <3>1, <3>2, <3>3
  <2> QED
    BY <2>1, <2>2 DEF NewestOf
<1>12. newest = << >> <=> Matching(f) = {}
  <2>1. m = 0 <=> Matching(f) = {}
    BY <1>3, <1>4
  <2> QED
    BY <1>7, <1>9, <2>1
<1>13. \A k \in DOMAIN newest : \E i \in Matching(f) : newest[k] = ordered[i]
  BY <1>4, <1>9, <1>10
<1>14. ASSUME limit <= 0, NEW i \in Matching(f) PROVE \E k \in DOMAIN newest : newest[k] = ordered[i]
  <2>1. PICK q \in 1 .. m : pos[q] = i
    BY <1>4
  <2>2. n = m
    BY <1>3, <1>6, <1>14
  <2>3. m - q + 1 \in 1 .. n /\ m - (m - q + 1) + 1 = q
    BY <1>3, <2>2
  <2> QED
    BY <1>9, <1>10, <2>1, <2>3
<1> QED
  BY <1>8, <1>11, <1>12, <1>13, <1>14

\* inspect.go runInspect and fetchReports: every request is answered, with what the limit
\* flag asks for.
LEMMA RequestAnswered ==
    ASSUME NEW filter, NEW limit \in Int
    PROVE  \E sent \in Int :
              /\ HandleListEvents([filter |-> filter, limit |-> LimitSent(limit)])
                    = [status |-> 200, body |-> List(filter, sent)]
              /\ sent = IF limit > 0 THEN limit ELSE 0
<1> DEFINE raw == LimitSent(limit)
           query == [filter |-> filter, limit |-> raw]
<1>1. ~ Refused(raw) /\ LimitOf(raw) = IF limit > 0 THEN limit ELSE 0
  <2>1. CASE limit > 0
    <3>1. raw = [kind |-> "number", value |-> limit]
      BY <2>1 DEF LimitSent, Number
    <3> HIDE DEF raw
    <3> QED
      BY <2>1, <3>1 DEF Refused, LimitOf
  <2>2. CASE ~ (limit > 0)
    <3>1. raw = [kind |-> "absent"]
      BY <2>2 DEF LimitSent, Absent
    <3> HIDE DEF raw
    <3> QED
      BY <2>2, <3>1 DEF Refused, LimitOf
  <2> QED
    BY <2>1, <2>2
<1> HIDE DEF raw
<1>2. query.limit = raw /\ query.filter = filter
  OBVIOUS
<1>3. LimitOf(raw) \in Int
  BY <1>1
<1> HIDE DEF query
<1>4. HandleListEvents(query) = [status |-> 200, body |-> List(filter, LimitOf(raw))]
  BY <1>1, <1>2 DEF HandleListEvents, Response
<1> QED
  BY <1>1, <1>3, <1>4 DEF query, raw

\* inspect.go newInspectCmd: the prefix is off before the name is sent, so that the daemon's filter
\* is the one that was asked for.
LEMMA AskedFor ==
    ASSUME NEW namespace, NEW pod, NEW container
    PROVE  LET f == [namespace |-> namespace, container |-> container, pod |-> pod] IN
           Matching(f) = Wanted(namespace, pod, container)
<1> DEFINE f == [namespace |-> namespace, container |-> container, pod |-> pod]
<1>1. f["namespace"] = namespace /\ f["pod"] = pod /\ f["container"] = container
  OBVIOUS
<1> HIDE DEF f
<1>2. ASSUME NEW r
      PROVE  Matches(f, r) <=> /\ namespace \in {NoName, r.identity.namespace}
                               /\ pod \in {NoName, r.identity.pod}
                               /\ container \in {NoName, r.identity.container}
  BY <1>1 DEF Matches, Field
<1>3. Matching(f) = Wanted(namespace, pod, container)
  BY <1>2 DEF Matching, Wanted
<1> QED
  BY <1>3 DEF f

\* inspect.go runInspect.
LEMMA InspectAnswered ==
    ASSUME StoreInv, NEW arg \in Argument, NEW namespace, NEW container, NEW limit \in Int,
           NEW format \in {"text", "json"}
    PROVE  LET options == [namespace |-> namespace, container |-> container,
                           limit |-> limit, format |-> format]
               output  == RunInspect(options, arg)
               wanted  == Wanted(namespace, arg.name, container)
           IN  IF wanted = {} /\ format = "text" THEN output.outcome = "none recorded"
               ELSE output.outcome = "reports" /\ NewestOf(output.printed, wanted, limit)
<1> DEFINE options == [namespace |-> namespace, container |-> container,
                       limit |-> limit, format |-> format]
           wanted  == Wanted(namespace, arg.name, container)
           filter  == [namespace |-> namespace, container |-> container, pod |-> arg.name]
           query   == InspectQuery(options, TrimPrefix(arg))
<1>1. TrimPrefix(arg).prefixed = FALSE /\ TrimPrefix(arg).name = arg.name
  BY DEF Argument, TrimPrefix
<1>2. query = [filter |-> filter, limit |-> LimitSent(limit)]
  BY <1>1 DEF InspectQuery
<1>3. Matching(filter) = wanted
  BY AskedFor
<1> HIDE DEF filter, wanted, query
<1>4. PICK sent \in Int : /\ HandleListEvents(query) = [status |-> 200, body |-> List(filter, sent)]
                          /\ sent = IF limit > 0 THEN limit ELSE 0
  BY <1>2, RequestAnswered
<1>5. PICK body : body = List(filter, sent)
  OBVIOUS
<1>6. NewestOf(body, wanted, sent) /\ (body = << >> <=> wanted = {})
  BY <1>3, <1>4, <1>5, ListIs
<1>7. NewestOf(body, wanted, limit)
  <2>1. sent > 0 <=> limit > 0
    BY <1>4
  <2>2. limit > 0 => sent = limit
    BY <1>4
  <2> QED
    BY <1>6, <2>1, <2>2 DEF NewestOf
<1>8. PICK answer : answer = HandleListEvents(query)
  OBVIOUS
<1>9. answer.status = 200 /\ answer.body = body
  BY <1>4, <1>5, <1>8
<1>10. RunInspect(options, arg) =
          IF format = "text" /\ body = << >> THEN [outcome |-> "none recorded"]
          ELSE [outcome |-> "reports", printed |-> body]
  <2>1. options.format = format
    OBVIOUS
  <2> HIDE DEF options
  <2> QED
    BY <1>8, <1>9, <2>1 DEF RunInspect, query
<1> HIDE DEF options
<1>11. PICK output : output = RunInspect(options, arg)
  OBVIOUS
<1>12. IF format = "text" /\ body = << >> THEN output.outcome = "none recorded"
       ELSE output.outcome = "reports" /\ output.printed = body
  <2>1. CASE format = "text" /\ body = << >>
    <3>1. output = [outcome |-> "none recorded"]
      BY <1>10, <1>11, <2>1
    <3> QED
      BY <2>1, <3>1
  <2>2. CASE ~ (format = "text" /\ body = << >>)
    <3>1. output = [outcome |-> "reports", printed |-> body]
      BY <1>10, <1>11, <2>2
    <3>2. output.outcome = "reports" /\ output.printed = body
      BY <3>1
    <3> QED
      BY <2>2, <3>2
  <2> QED
    BY <2>1, <2>2
<1>13. IF wanted = {} /\ format = "text" THEN RunInspect(options, arg).outcome = "none recorded"
       ELSE /\ RunInspect(options, arg).outcome = "reports"
            /\ NewestOf(RunInspect(options, arg).printed, wanted, limit)
  BY <1>6, <1>7, <1>11, <1>12
<1> QED
  BY <1>13 DEF options, wanted

\* tui.go and client.go: the dashboard gets every report, the newest first.
LEMMA DashboardAnswered ==
    ASSUME StoreInv
    PROVE  /\ NewestOf(FetchAll.body, DOMAIN ordered, 0)
           /\ \A k \in DOMAIN FetchAll.body : \E i \in DOMAIN ordered : FetchAll.body[k] = ordered[i]
           /\ \A i \in DOMAIN ordered : \E k \in DOMAIN FetchAll.body : FetchAll.body[k] = ordered[i]
<1> DEFINE filter == [k \in Field |-> NoName]
<1>1. Matching(filter) = DOMAIN ordered
  BY DEF Matching, Matches
<1> HIDE DEF filter
<1>2. PICK body : body = List(filter, 0)
  OBVIOUS
<1>3. FetchAll.body = body
  <2> DEFINE raw == Absent
             query == [filter |-> filter, limit |-> raw]
  <2>1. raw.kind = "absent" /\ ~ Refused(raw) /\ LimitOf(raw) = 0
    BY DEF Absent, Refused, LimitOf
  <2> HIDE DEF raw
  <2>2. query.filter = filter /\ query.limit = raw
    OBVIOUS
  <2>3. FetchAll = HandleListEvents(query)
    BY DEF FetchAll, raw, filter
  <2> HIDE DEF query
  <2>4. FetchAll = [status |-> 200, body |-> body]
    BY <1>2, <2>1, <2>2, <2>3 DEF HandleListEvents, Response
  <2> QED
    BY <2>4
<1>4. 0 \in Int /\ 0 <= 0
  OBVIOUS
<1> QED
  BY <1>1, <1>2, <1>3, <1>4, ListIs

\* api.go handleGetEvent: what is listed, and only that, is found under its ID.
LEMMA LookupAnswered ==
    ASSUME StoreInv, NEW id
    PROVE  LET found == HandleGetEvent(id) IN
           IF \E i \in DOMAIN FetchAll.body : FetchAll.body[i].id = id
           THEN found.status = 200 /\ found.body[1].id = id
                /\ \E i \in DOMAIN FetchAll.body : FetchAll.body[i] = found.body[1]
           ELSE found.status = 404
<1>1. PICK all : all = FetchAll.body
  OBVIOUS
<1>2. /\ \A k \in DOMAIN all : \E i \in DOMAIN ordered : all[k] = ordered[i]
      /\ \A i \in DOMAIN ordered : \E k \in DOMAIN all : all[k] = ordered[i]
  BY <1>1, DashboardAnswered
<1>3. PICK found : found = HandleGetEvent(id)
  OBVIOUS
<1>4. CASE id \in DOMAIN byID
  <2>1. byID[id] \in DOMAIN ordered /\ ordered[byID[id]].id = id
    BY <1>4 DEF StoreInv, IndexExact
  <2>2. found = [status |-> 200, body |-> <<ordered[byID[id]]>>]
    BY <1>3, <1>4 DEF HandleGetEvent, Found, Get, Response
  <2>3. found.status = 200 /\ found.body[1] = ordered[byID[id]]
    BY <2>2
  <2>4. PICK k \in DOMAIN all : all[k] = ordered[byID[id]]
    BY <1>2, <2>1
  <2> QED
    BY <1>1, <1>3, <2>1, <2>3, <2>4
<1>5. CASE id \notin DOMAIN byID
  <2>1. found.status = 404
    BY <1>3, <1>5 DEF HandleGetEvent, Found, Response
  <2>2. \A k \in DOMAIN all : all[k].id # id
    BY <1>2, <1>5 DEF StoreInv, IndexExact
  <2> QED
    BY <1>1, <1>3, <2>1, <2>2
<1> QED
  BY <1>4, <1>5

\* api.go, inspect.go and store.go: in every reachable state of the store, whatever is asked.
THEOREM StoreAnswersAreTheStore == StoreSpec => []AnswersAreTheStore
<1>1. StoreInv => AnswersAreTheStore
  <2> SUFFICES ASSUME StoreInv PROVE AnswersAreTheStore
    OBVIOUS
  <2>1. Capacity \in Nat
    BY CapacityPositive
  <2>2. \A arg \in Argument, namespace, container \in Label \cup {NoName},
           limit \in -1 .. Capacity + 1, format \in {"text", "json"} :
           LET options == [namespace |-> namespace, container |-> container,
                           limit |-> limit, format |-> format]
               output  == RunInspect(options, arg)
               wanted  == Wanted(namespace, arg.name, container)
           IN  IF wanted = {} /\ format = "text" THEN output.outcome = "none recorded"
               ELSE output.outcome = "reports" /\ NewestOf(output.printed, wanted, limit)
    <3>1. \A limit \in -1 .. Capacity + 1 : limit \in Int
      BY <2>1
    <3> QED
      BY <3>1, InspectAnswered
  <2>3. NewestOf(FetchAll.body, DOMAIN ordered, 0)
    BY DashboardAnswered
  <2> QED
    BY <2>2, <2>3, LookupAnswered DEF AnswersAreTheStore
<1> QED
  BY <1>1, StoreInitOK, StoreNextOK, PTL DEF StoreSpec
=============================================================================
