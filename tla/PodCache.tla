------------------------------- MODULE PodCache -------------------------------
(***************************************************************************)
(* The pod cache of internal/k8s/podcache.go behind the informer that feeds *)
(* it.  The informer is client-go's: it keys its store by namespace and     *)
(* name, notifies the handlers in order and some time later, loses its      *)
(* watch, and lists again.  Only that much of it is modelled.               *)
(***************************************************************************)
EXTENDS Integers, SequencesExt

CONSTANTS Name,         \* namespaced pod names on this node
          UID,          \* pod UIDs, none used twice
          NoPod,        \* no pod has the name
          Grace,        \* Options.Grace
          SyncTimeout,  \* DefaultSyncTimeout
          MaxTime,      \* bound on the clock
          MaxStarts,    \* bound on the times a pod's container is started
          MaxFeed       \* bound on the notifications on their way

ASSUME PodCacheAssumption ==
    /\ IsFiniteSet(Name) /\ NoPod \notin UID
    /\ Grace \in Nat /\ SyncTimeout \in Nat
    /\ MaxTime \in Nat /\ MaxStarts \in Nat /\ MaxFeed \in Nat

VARIABLES
    pods,       \* pods[n]: the UID of the pod of that name in the cluster
    spent,      \* the UIDs there have been
    starts,     \* starts[u]: how often the container of u has been started
    connected,  \* the watch is up
    listed,     \* informer.HasSynced
    store,      \* the informer's own store, by name
    feed,       \* notifications not yet handled
    now,        \* p.now
    live,       \* p.live: the container IDs a pod's record names, by UID
    buried,     \* p.buried, by UID
    waiter      \* awaitPodCache: "waiting", "synced" (p.synced is set) or "gaveUp"

cluster  == <<pods, spent, starts>>
informer == <<connected, listed, store, feed>>
cache    == <<live, buried>>
cacheVars == <<cluster, informer, now, cache, waiter>>

CacheInit ==
    /\ pods \in [Name -> UID \cup {NoPod}]
    /\ \A m, n \in Name : pods[m] = pods[n] /\ pods[m] # NoPod => m = n
    /\ spent = {pods[n] : n \in Name} \ {NoPod}
    /\ starts \in [UID -> 0 .. MaxStarts] /\ \A u \in UID \ spent : starts[u] = 0
    /\ connected = FALSE /\ listed = FALSE
    /\ store = [n \in Name |-> NoPod] /\ feed = << >>
    /\ now = 0
    /\ live = << >> /\ buried = << >>
    /\ waiter = "waiting"

-----------------------------------------------------------------------------
\* Mutant of PodInfo: LastTerminationState is not looked at.
RunningOnly(started) == {started} \cap (1 .. MaxStarts)

\* podInfo: a container's ID is how many times it had been started, and 0 is none yet.
\* Its status names the container that runs, or has run last, and in LastTerminationState
\* the one before.  trimPod takes away nothing of that.
PodInfo(started) == {started, started - 1} \cap (1 .. MaxStarts)

\* The cluster.  A watch that is up tells the informer at once, which updates its
\* store and queues a notification; a name's pod is an update of what it stores.
Note(kind, uid, named) == [kind |-> kind, uid |-> uid, named |-> named]

Watched(n, kind, uid, named) ==
    IF connected
    THEN /\ Len(feed) < MaxFeed
         /\ feed' = Append(feed, Note(kind, uid, named))
         /\ store' = [store EXCEPT ![n] = IF kind = "delete" THEN NoPod ELSE uid]
    ELSE UNCHANGED <<feed, store>>

Schedule(n, uid) ==
    /\ pods[n] = NoPod /\ uid \notin spent
    /\ pods' = [pods EXCEPT ![n] = uid] /\ spent' = spent \cup {uid}
    /\ Watched(n, "add", uid, {})
    /\ UNCHANGED <<starts, connected, listed, now, cache, waiter>>

\* The kubelet starts the container, or restarts it after it was killed, and reports.
StartContainer(n) ==
    /\ pods[n] # NoPod /\ starts[pods[n]] < MaxStarts
    /\ starts' = [starts EXCEPT ![pods[n]] = @ + 1]
    /\ Watched(n, "update", pods[n], PodInfo(starts[pods[n]] + 1))
    /\ UNCHANGED <<pods, spent, connected, listed, now, cache, waiter>>

\* "A delete can carry a stripped-down object."
Delete(n) ==
    /\ pods[n] # NoPod
    /\ pods' = [pods EXCEPT ![n] = NoPod]
    /\ \E named \in {{}, PodInfo(starts[pods[n]])} : Watched(n, "delete", pods[n], named)
    /\ UNCHANGED <<spent, starts, connected, listed, now, cache, waiter>>

\* The informer.  A list is compared with the store name by name.
Disconnect ==
    /\ connected /\ connected' = FALSE
    /\ UNCHANGED <<cluster, listed, store, feed, now, cache, waiter>>

Told == {n \in Name : pods[n] # NoPod \/ store[n] # NoPod}

Replaced(n) ==
    IF pods[n] = NoPod THEN Note("delete", store[n], {})
    ELSE Note(IF store[n] = NoPod THEN "add" ELSE "update", pods[n], PodInfo(starts[pods[n]]))

List ==
    /\ ~ connected /\ Len(feed) + Cardinality(Name) <= MaxFeed
    /\ \E order \in SetToSeqs(Told) : feed' = feed \o [i \in DOMAIN order |-> Replaced(order[i])]
    /\ store' = pods /\ connected' = TRUE /\ listed' = TRUE
    /\ UNCHANGED <<cluster, now, cache, waiter>>

-----------------------------------------------------------------------------
\* upsert; a tombstone of the same pod is stale.
Upsert(note) ==
    /\ live' = [u \in DOMAIN live \cup {note.uid} |->
                   IF u = note.uid THEN note.named ELSE live[u]]
    /\ buried' = [u \in DOMAIN buried \ {note.uid} |-> buried[u]]

\* Mutant of Recorded: the record is rebuilt from what the delete carries.
AsDelivered(note) == note.named

\* remove prefers the record it holds to the object of the delete.
Recorded(note) == IF note.uid \in DOMAIN live THEN live[note.uid] ELSE note.named

\* Mutant of Expired: a tombstone is over with its last instant.
ExpiredEarly(grave) == now >= grave.expires

\* Mutant of Expired: tombstones are kept for good.
NeverExpired(grave) == FALSE

Expired(grave) == now > grave.expires

Unlisted(uid) == [u \in DOMAIN live \ {uid} |-> live[u]]

\* remove ends in sweep.
RemovePod(note) ==
    LET grave == [named |-> Recorded(note), expires |-> now + Grace]
        graves == [u \in DOMAIN buried \cup {note.uid} |->
                      IF u = note.uid THEN grave ELSE buried[u]]
    IN  /\ live' = Unlisted(note.uid)
        /\ buried' = [u \in {v \in DOMAIN graves : ~ Expired(graves[v])} |-> graves[u]]

\* Mutant of Upserts: no UpdateFunc is registered.
AddsOnly == {"add"}

\* The notifications New registers upsert for.
Upserts == {"add", "update"}

Notify ==
    /\ feed # << >> /\ feed' = Tail(feed)
    /\ LET note == Head(feed) IN
       \/ note.kind = "delete" /\ RemovePod(note)
       \/ note.kind # "delete"
          /\ IF note.kind \in Upserts THEN Upsert(note) ELSE UNCHANGED cache
    /\ UNCHANGED <<cluster, connected, listed, store, now, waiter>>

\* WaitForSync, called once: p.synced, or the timeout.
SyncSeen ==
    /\ waiter = "waiting" /\ listed
    /\ waiter' = "synced"
    /\ UNCHANGED <<cluster, informer, now, cache>>

SyncTimesOut ==
    /\ waiter = "waiting" /\ now >= SyncTimeout
    /\ waiter' = "gaveUp"
    /\ UNCHANGED <<cluster, informer, now, cache>>

Tick ==
    /\ now < MaxTime /\ now' = now + 1
    /\ UNCHANGED <<cluster, informer, cache, waiter>>

CacheNext ==
    \/ \E n \in Name, uid \in UID : Schedule(n, uid)
    \/ \E n \in Name : StartContainer(n) \/ Delete(n)
    \/ Disconnect \/ List \/ Notify \/ SyncSeen \/ SyncTimesOut \/ Tick

CacheSpec == CacheInit /\ [][CacheNext]_cacheVars

\* The informer retries its list, its handlers run, and the waiter returns.
CacheFairness ==
    /\ WF_cacheVars(List) /\ WF_cacheVars(Notify) /\ WF_cacheVars(SyncSeen \/ SyncTimesOut)

FairCacheSpec == CacheSpec /\ CacheFairness

-----------------------------------------------------------------------------
\* LookupPod: whether it finds the pod, and what it then knows of its containers.
Found(uid) ==
    uid \in DOMAIN live \/ (uid \in DOMAIN buried /\ ~ Expired(buried[uid]))

Info(uid) == IF uid \in DOMAIN live THEN live[uid] ELSE buried[uid].named

Synced == waiter = "synced"

Notes == [kind : {"add", "update", "delete"}, uid : UID, named : SUBSET (1 .. MaxStarts)]

CacheTypeOK ==
    /\ pods \in [Name -> UID \cup {NoPod}] /\ store \in [Name -> UID \cup {NoPod}]
    /\ spent \subseteq UID /\ starts \in [UID -> 0 .. MaxStarts]
    /\ feed \in Seq(Notes) /\ Len(feed) <= MaxFeed
    /\ now \in 0 .. MaxTime
    /\ DOMAIN live \subseteq UID /\ DOMAIN buried \subseteq UID \ DOMAIN live
    /\ \A u \in DOMAIN live : live[u] \subseteq 1 .. MaxStarts
    /\ \A u \in DOMAIN buried : /\ buried[u].named \subseteq 1 .. MaxStarts
                               /\ buried[u].expires \in 0 .. MaxTime + Grace
    /\ waiter \in {"waiting", "synced", "gaveUp"}

\* podcache.go remove, sweep and LookupPod: a pod that could be looked up stays so, and
\* until the grace that began with its delete is over: neither a delete that is handled
\* late, nor the sweep another pod's delete sets off, nor the clock takes it away.
DeletedStayResolvable ==
    [][\A u \in UID : Found(u) /\ ~ Found(u)' =>
          u \in DOMAIN buried /\ now <= buried[u].expires /\ now' > buried[u].expires]_cacheVars

\* podcache.go podInfo and remove: a container that could be named can be named until it
\* has been restarted twice, and for good once its pod is deleted: the report of a kill
\* that is handled after the restart names the container that died, whatever object the
\* delete or a later list carries.
KnowledgeKept ==
    [][\A u \in UID, c \in 1 .. MaxStarts :
          Found(u) /\ Found(u)' /\ c \in Info(u) =>
              c \in Info(u)' \/ (u \in DOMAIN live /\ starts[u] >= c + 2)]_cacheVars

\* podcache.go podInfo: once the notifications there are have been handled, the container
\* that runs in a pod on this node can be named, and the one it has replaced.
KilledAndRunningNamed ==
    connected /\ feed = << >> =>
        \A n \in Name : pods[n] # NoPod =>
            \A c \in {starts[pods[n]], starts[pods[n]] - 1} : c >= 1 =>
                Found(pods[n]) /\ c \in Info(pods[n])

\* podcache.go sweep "bounds the graveyard by the node's pod churn": a delete leaves no
\* tombstone older than the grace, so those held were all buried within one.
GraveyardBounded ==
    [][\A u \in DOMAIN buried' \ DOMAIN buried :
          \A v \in DOMAIN buried' : buried'[v].expires >= now]_cacheVars

\* podcache.go New: every pod that stays on the node is resolved in the end, however
\* often the watch is lost, also when its name was another pod's before.
PodsBecomeResolvable ==
    \A n \in Name, u \in UID : pods[n] = u ~> pods[n] # u \/ Found(u)

\* podcache.go Synced "reports whether the initial list has completed".
SyncedIsListed == listed ~> Synced

\* docs/reference/api.md on podsTracked, which is Len: "Pods on this node the cache
\* holds".  Once every notification is handled, the pods counted are on the node.
TrackedAreOnNode ==
    connected /\ feed = << >> => DOMAIN live \subseteq {pods[n] : n \in Name}
=============================================================================
