-------------------------------- MODULE Screen --------------------------------
(***************************************************************************)
(* What the dashboard shows: View and its parts in internal/tui/tui.go, as  *)
(* a function of the model.  Widths, colours and wording are left out; a    *)
(* row is the report it is about and whether it carries the marker.         *)
(***************************************************************************)
EXTENDS Dashboard

\* The panes on the screen: side by side, or the one that has the focus.
Shown == IF wide THEN {"list", "detail"} ELSE IF focused THEN {"detail"} ELSE {"list"}

Rows == [i \in DOMAIN reports |-> [report |-> reports[i], marked |-> i = selected]]

\* list, without a report to make a row of.
NoRows == IF err THEN Unreachable ELSE Watching

Pane(which) ==
    IF which = "detail" THEN [text |-> detail, rows |-> << >>]
    ELSE [text |-> IF reports = << >> THEN NoRows ELSE Blank, rows |-> Rows]

\* header: what it counts is the snapshot's, also when a refresh has failed since.
Header == counted

\* footer: how fresh the screen is, or that it is not.
Footer == IF err THEN Unreachable ELSE lastFetch

\* View, before the program quits.
View ==
    IF ~ sized THEN [header |-> Never, panes |-> << >>, footer |-> Never]
    ELSE [header |-> Header, panes |-> [which \in Shown |-> Pane(which)], footer |-> Footer]

Visible(which) == which \in DOMAIN View.panes

-----------------------------------------------------------------------------
\* The latest moment the screen may be of: the time it names, else now.
Latest == IF View.footer \in {Never, Unreachable} THEN arrived ELSE View.footer

ListedRows == [i \in DOMAIN View.panes["list"].rows |-> View.panes["list"].rows[i].report]

\* tui.go footer, header and list with client.go Fetch: the rows are all that the daemon
\* listed at one moment, none shows only if there was no kill by then, the header counts no
\* kill that came after it, and the time the screen names is not before it: when refreshes
\* overlap, fail or are delivered late and in the wrong order, rows, count and age are
\* replaced together.  The time named is when the fetch was over, so the kills between the
\* daemon's answer and then may be missing from the rows.
ScreenIsOneMoment ==
    sized => \E m \in 0 .. Latest :
        /\ View.header <= m
        /\ Visible("list") =>
              /\ ListedRows = ListedAt(m)
              /\ View.panes["list"].text = Watching => m = 0

\* tui.go View and refreshDetail: one row is marked and the report beside it is that row's,
\* whatever keys, refreshes and resizes came in between; in a narrow terminal, tab shows
\* the report of the row that was marked.
PanesAgree ==
    sized /\ reports # << >> =>
        /\ \E i \in DOMAIN Rows : \A j \in DOMAIN Rows : Rows[j].marked <=> i = j
        /\ Visible("detail") =>
              \E i \in DOMAIN Rows : Rows[i].marked /\ Rows[i].report = View.panes["detail"].text
=============================================================================
