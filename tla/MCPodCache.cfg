SPECIFICATION FairCacheSpec
CONSTANTS
    Name = {web}
    UID = {u1, u2}
    NoPod = nopod
    Grace = 1
    SyncTimeout = 1
    MaxTime = 2
    MaxStarts = 3
    MaxFeed = 2
INVARIANTS
    KilledAndRunningNamed
PROPERTIES
    DeletedStayResolvable
    KnowledgeKept
    PodsBecomeResolvable
