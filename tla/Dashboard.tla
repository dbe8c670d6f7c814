------------------------------ MODULE Dashboard ------------------------------
(***************************************************************************)
(* The terminal dashboard of internal/tui: a model that changes with one    *)
(* message at a time, and the fetches it has started, which run on their    *)
(* own and answer in any order.  The daemon is the reports it lists, newest *)
(* first, and whether it answers.                                           *)
(***************************************************************************)
EXTENDS Integers, Sequences, FiniteSets

CONSTANTS Capacity,      \* of the daemon's report store
          MaxReports,    \* bound on the kills; reports are numbered as they arrive
          Interval,      \* Options.Interval
          FetchTimeout,  \* fetchTimeout
          MaxFetches     \* bound on the fetches in flight

ASSUME DashboardAssumption ==
    /\ Capacity \in Nat \ {0} /\ MaxReports \in Nat /\ MaxFetches \in Nat \ {0}
    /\ Interval \in Nat \ {0} /\ FetchTimeout \in Nat \ {0}

VARIABLES
    up,         \* the daemon answers within fetchTimeout
    arrived,    \* reports it has had
    fetches,    \* fetches started and not yet delivered
    armed,      \* a tick is scheduled
    sized,      \* m.ready: the terminal's size is known
    wide,       \* m.split(): both panes fit
    counted,    \* m.snapshot.Status.Reports
    reports,    \* m.snapshot.Reports
    lastFetch,  \* m.lastFetch
    err,        \* m.err is set
    selected,   \* m.selected, counting from 1
    focused,    \* m.focus is focusDetail: j and k scroll the report
    detail,     \* what m.detail shows: a report, or one of Texts
    quitting    \* m.quitting

daemon == <<up, arrived>>
snapshot == <<counted, reports>>
screen == <<sized, wide, snapshot, lastFetch, err, selected, focused, detail>>
vars == <<daemon, fetches, armed, screen, quitting>>

\* The texts of emptyDetail, and a viewport that was never rendered.
Blank       == 0
Watching    == -1
Unreachable == -2
Texts == {Blank, Watching, Unreachable}

\* A moment is told by the kills recorded until then.
Never == -1

\* GET /v1/events: the reports the store held at that moment, newest first.
ListedAt(moment) ==
    LET held == IF moment < Capacity THEN moment ELSE Capacity
    IN  [i \in 1 .. held |-> moment - i + 1]

Listed == ListedAt(arrived)

Asked == [state |-> "asked", age |-> 0, counted |-> 0, reports |-> << >>, at |-> Never]

\* The daemon has not answered both requests of this fetch.
Pending(f) == f.state \in {"asked", "counted"}

\* Fetch has returned and the clock was read: the message is on its way.
Sent(f) == f.state \in {"answered", "failed"}

\* Init starts a fetch and a tick.
Init ==
    /\ up \in BOOLEAN /\ arrived \in 0 .. 1
    /\ fetches = << Asked >> /\ armed = TRUE
    /\ sized = FALSE /\ wide = FALSE /\ counted = 0 /\ reports = << >>
    /\ lastFetch = Never /\ err = FALSE /\ selected = 1
    /\ focused = FALSE /\ detail = Blank /\ quitting = FALSE

-----------------------------------------------------------------------------
\* The daemon records kills, hangs and comes back.
Arrive ==
    /\ arrived < MaxReports /\ arrived' = arrived + 1
    /\ UNCHANGED <<up, fetches, armed, screen, quitting>>

Hang ==
    /\ up' = ~ up
    /\ UNCHANGED <<arrived, fetches, armed, screen, quitting>>

\* Fetch asks an answering daemon for its status and then for its list.
ReadStatus(i) ==
    /\ i \in DOMAIN fetches /\ fetches[i].state = "asked" /\ up
    /\ fetches' = [fetches EXCEPT ![i].state = "counted", ![i].counted = arrived]
    /\ UNCHANGED <<daemon, armed, screen, quitting>>

\* The list is the daemon's when it answers, and reaches Fetch later.
ReadList(i) ==
    /\ i \in DOMAIN fetches /\ fetches[i].state = "counted" /\ up
    /\ fetches' = [fetches EXCEPT ![i].state = "listed", ![i].age = 0, ![i].reports = Listed]
    /\ UNCHANGED <<daemon, armed, screen, quitting>>

\* A request or the rest of its answer fails, and with it the snapshot.
Fail(i) ==
    /\ i \in DOMAIN fetches /\ fetches[i].state \in {"asked", "counted", "listed"} /\ ~ up
    /\ fetches' = [fetches EXCEPT ![i] = [Asked EXCEPT !.state = "broken"]]
    /\ UNCHANGED <<daemon, armed, screen, quitting>>

\* Mutant of FetchTime: the clock is read before the list is asked for.
StatusTime(f) == f.counted

\* at: now(), read when Fetch has returned; more kills may have come since the list.
FetchTime(f) == arrived

ReadClock(i) ==
    /\ i \in DOMAIN fetches /\ fetches[i].state \in {"listed", "broken"}
    /\ LET sent == IF fetches[i].state = "listed" THEN "answered" ELSE "failed"
       IN  fetches' = [fetches EXCEPT ![i].state = sent, ![i].at = FetchTime(fetches[i])]
    /\ UNCHANGED <<daemon, armed, screen, quitting>>

Request(i) == ReadStatus(i) \/ ReadList(i) \/ Fail(i) \/ ReadClock(i)

-----------------------------------------------------------------------------
Without(i) == SubSeq(fetches, 1, i - 1) \o SubSeq(fetches, i + 1, Len(fetches))

HasCurrent(list, index) == index \in DOMAIN list

\* refreshDetail and emptyDetail: the selected report, or what to say without one.
DetailOf(list, index, failed) ==
    IF HasCurrent(list, index) THEN list[index]
    ELSE IF failed THEN Unreachable ELSE Watching

\* Mutant of Follow: the selection keeps its index.
KeepIndex(list) == IF selected \in DOMAIN list THEN selected ELSE 1

\* applySnapshot: the selection goes where its report went, else to the newest.
Follow(list) ==
    LET same == {i \in DOMAIN list : HasCurrent(reports, selected) /\ list[i] = reports[selected]}
    IN  IF same = {} THEN 1 ELSE CHOOSE i \in same : \A j \in same : i <= j

Deliver(i) ==
    /\ ~ quitting /\ i \in DOMAIN fetches /\ Sent(fetches[i])
    /\ fetches' = Without(i)
    /\ lastFetch' = fetches[i].at
    /\ err' = (fetches[i].state = "failed")
    /\ IF err'
       THEN UNCHANGED <<snapshot, selected, detail>>
       ELSE LET list == fetches[i].reports IN
            /\ counted' = fetches[i].counted /\ reports' = list
            /\ selected' = Follow(list)
            /\ detail' = DetailOf(list, Follow(list), FALSE)
    /\ UNCHANGED <<daemon, armed, sized, wide, focused, quitting>>

\* Mutant of Rearmed: a tick fetches and does not schedule the next one.
NotRearmed == FALSE

\* Update on tickMsg returns fetch and tick.
Rearmed == TRUE

\* A tick comes an interval after the last one; by then no fetch may be older than its
\* timeout.
Tick ==
    /\ ~ quitting /\ armed /\ Len(fetches) < MaxFetches
    /\ \A i \in DOMAIN fetches :
           Pending(fetches[i]) => fetches[i].age + Interval <= FetchTimeout
    /\ fetches' = Append([i \in DOMAIN fetches |->
                             IF Pending(fetches[i])
                             THEN [fetches[i] EXCEPT !.age = @ + Interval] ELSE fetches[i]],
                         Asked)
    /\ armed' = Rearmed
    /\ UNCHANGED <<daemon, screen, quitting>>

\* The key r.
Refresh ==
    /\ ~ quitting /\ Len(fetches) < MaxFetches
    /\ fetches' = Append(fetches, Asked)
    /\ UNCHANGED <<daemon, armed, screen, quitting>>

\* The first WindowSizeMsg makes the viewport; every one renders the detail anew.
Resize ==
    /\ ~ quitting /\ sized' = TRUE /\ wide' \in BOOLEAN
    /\ detail' = DetailOf(reports, selected, err)
    /\ UNCHANGED <<daemon, fetches, armed, snapshot, lastFetch, err, selected, focused, quitting>>

Clamped(index) == IF index < 1 THEN 1 ELSE IF index > Len(reports) THEN Len(reports) ELSE index

\* Mutant of DetailAfterMove: the pane is not rendered anew.
DetailLeft == detail

DetailAfterMove == DetailOf(reports, selected', err)

\* The key tab.
Tab ==
    /\ ~ quitting /\ focused' = ~ focused
    /\ UNCHANGED <<daemon, fetches, armed, sized, wide, snapshot, lastFetch, err, selected,
                   detail, quitting>>

\* moveTo.
MoveTo(index) ==
    /\ ~ quitting /\ reports # << >>
    /\ selected' = Clamped(index)
    /\ detail' = DetailAfterMove
    /\ UNCHANGED <<daemon, fetches, armed, sized, wide, snapshot, lastFetch, err, focused,
                   quitting>>

\* The keys g and G, and, unless they scroll the report, k and j.
Keys == {1, Len(reports)} \cup (IF focused THEN {} ELSE {selected - 1, selected + 1})

\* The program ends, and its requests and its timer with it.
Quit ==
    /\ ~ quitting /\ quitting' = TRUE
    /\ fetches' = << >> /\ armed' = FALSE
    /\ UNCHANGED <<daemon, screen>>

Next ==
    \/ Arrive \/ Hang
    \/ \E i \in 1 .. MaxFetches : Request(i) \/ Deliver(i)
    \/ Tick \/ Refresh \/ Resize \/ Tab
    \/ \E index \in Keys : MoveTo(index)
    \/ Quit

Spec == Init /\ [][Next]_vars

\* Requests end and the clock is read, the messages are delivered, and the timer fires.
Fairness ==
    /\ WF_vars(\E i \in 1 .. MaxFetches : Request(i))
    /\ \A i \in 1 .. MaxFetches : WF_vars(Deliver(i))
    /\ WF_vars(Tick)

FairSpec == Spec /\ Fairness

-----------------------------------------------------------------------------
TypeOK ==
    /\ {up, armed, sized, wide, err, focused, quitting} \subseteq BOOLEAN
    /\ arrived \in 0 .. MaxReports
    /\ Len(fetches) <= MaxFetches
    /\ \A i \in DOMAIN fetches : fetches[i].age \in 0 .. FetchTimeout
    /\ counted \in 0 .. MaxReports /\ lastFetch \in {Never} \cup 0 .. MaxReports
    /\ Len(reports) <= Capacity
    /\ selected \in 1 .. (IF reports = << >> THEN 1 ELSE Len(reports))
    /\ detail \in Texts \cup 1 .. MaxReports

\* tui.go applySnapshot: "The selection follows the report it was on rather than the
\* index it was at": as long as a refresh still lists that report, also when an older
\* refresh is delivered after a newer one.
SelectionFollows ==
    [][\A i \in DOMAIN reports, j \in DOMAIN reports' :
          reports' # reports /\ i = selected /\ reports'[j] = reports[i]
              => reports'[selected'] = reports[i]]_vars

\* tui.go refreshDetail: the report beside the list is the one marked in it, after any
\* order of keys, refreshes and resizes.
DetailIsSelected == reports # << >> => detail = reports[selected]

\* docs/dashboard.md: "It keeps retrying at the refresh interval".  A daemon that answers
\* from some time on is shown as it is, and no error stays on the screen.
Recovers == []<>(quitting \/ ~ up \/ (~ err /\ reports = Listed))

\* client.go on fetchTimeout: "shorter than the refresh interval on purpose: a daemon
\* that has stopped answering should surface as an error on the next tick rather than
\* stack requests".
FetchesDoNotStack == \A i \in DOMAIN fetches : fetches[i].age > 0 => ~ Pending(fetches[i])

\* tui.go emptyDetail: without reports, and with the daemon out of reach, the pane reads
\* "Cannot reach the daemon." and not that the daemon is watching.
UnreachableShows == sized /\ err /\ reports = << >> => detail # Watching
=============================================================================
