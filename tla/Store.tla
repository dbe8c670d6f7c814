-------------------------------- MODULE Store --------------------------------
(***************************************************************************)
(* The in-memory report store of internal/store/store.go: a slice of       *)
(* reports, oldest first, and an index from report ID to slice position.   *)
(* Every method holds the mutex throughout, so each is one step; Get and   *)
(* List change nothing and are operators.                                  *)
(***************************************************************************)
EXTENDS Naturals, SequencesExt

CONSTANTS Requested,        \* the capacity NewMemory was asked for
          DefaultCapacity,  \* store.DefaultCapacity
          ID,
          Label,            \* the names an identity is made of
          NoName,           \* the empty string in a Filter field
          Identity          \* the identities reports carry

Field == {"namespace", "pod", "container"}

ASSUME StoreAssumption ==
    /\ Requested \in Int
    /\ DefaultCapacity \in Nat \ {0}
    /\ NoName \notin Label
    /\ Identity \subseteq [Field -> Label]

Report == [id : ID, identity : Identity]

\* NewMemory: a non-positive capacity uses the default.
Capacity == IF Requested <= 0 THEN DefaultCapacity ELSE Requested

VARIABLES ordered,   \* m.ordered
          byID       \* m.byID, counting positions from 1

storeVars == <<ordered, byID>>

StoreInit == ordered = << >> /\ byID = << >>

-----------------------------------------------------------------------------
\* Mutant of Indexed: the reports shift and the index does not.
Unshifted(reports) == [id \in {reports[i].id : i \in DOMAIN reports} |->
                          IF id \in DOMAIN byID THEN byID[id] ELSE 1]

\* reindexLocked: the index rebuilt from the slice.
Indexed(reports) ==
    [id \in {reports[i].id : i \in DOMAIN reports} |->
        CHOOSE i \in DOMAIN reports : reports[i].id = id]

\* Put, known ID: the report is overwritten where it stands.
Overwrite(r) ==
    /\ r.id \in DOMAIN byID
    /\ ordered' = [ordered EXCEPT ![byID[r.id]] = r]
    /\ UNCHANGED byID

\* Mutant of Evicted: the newest report is the one dropped.
DropNewest(reports) == SubSeq(reports, 1, Len(reports) - 1)

\* Mutant of Evicted: the slice is never shortened.
NothingEvicted(reports) == reports

\* ordered[1:], the slice without its oldest report.
Evicted(reports) == Tail(reports)

\* Put, new ID: append, after dropping the oldest report when full.
Insert(r) ==
    /\ r.id \notin DOMAIN byID
    /\ LET full  == Len(ordered) >= Capacity
           slice == IF full THEN Evicted(ordered) ELSE ordered
           index == IF full THEN Indexed(slice) ELSE byID
       IN  /\ ordered' = Append(slice, r)
           /\ byID' = [id \in DOMAIN index \cup {r.id} |->
                          IF id = r.id THEN Len(slice) + 1 ELSE index[id]]

Put(r) == Overwrite(r) \/ Insert(r)

StoreNext == \E r \in Report : Put(r)

StoreSpec == StoreInit /\ [][StoreNext]_storeVars

-----------------------------------------------------------------------------
Found(id) == id \in DOMAIN byID

\* Get, for an ID that is found; otherwise the code returns ErrNotFound.
Get(id) == ordered[byID[id]]

Filter == [Field -> Label \cup {NoName}]

Matches(f, r) == \A k \in Field : f[k] = NoName \/ r.identity[k] = f[k]

\* List: the matching reports, oldest first.
Matched(f) ==
    LET upTo[i \in 0 .. Len(ordered)] ==
          IF i = 0 THEN << >>
          ELSE IF Matches(f, ordered[i]) THEN Append(upTo[i - 1], ordered[i])
          ELSE upTo[i - 1]
    IN  upTo[Len(ordered)]

\* List: matching reports newest first, at most limit of them (0 is all).
List(f, limit) ==
    LET newest == Reverse(Matched(f)) IN
    IF limit > 0 /\ Len(newest) > limit THEN SubSeq(newest, 1, limit) ELSE newest

-----------------------------------------------------------------------------
StoreTypeOK ==
    /\ ordered \in Seq(Report)
    /\ Len(ordered) <= Capacity
    /\ DOMAIN byID \subseteq ID
    /\ \A id \in DOMAIN byID : byID[id] \in Nat

\* store.go Put and reindexLocked: the index is exact.  Every ID leads to the
\* position of its own report and every report can be reached, also after the
\* slice has shifted under the index.
IndexExact ==
    /\ \A id \in DOMAIN byID : /\ byID[id] \in DOMAIN ordered
                               /\ ordered[byID[id]].id = id
    /\ \A i \in DOMAIN ordered : /\ ordered[i].id \in DOMAIN byID
                                 /\ byID[ordered[i].id] = i

Log == INSTANCE ReportLog WITH kept <- ordered

\* store.go Put: what the index decides is what a scan of the log would decide.
\* Put replaces the report with that ID where there is one and otherwise appends,
\* giving up only the oldest report and only when full.
ImplementsLog == Log!LogSpec
=============================================================================
