--------------------------- MODULE DashboardProofs ---------------------------
(***************************************************************************)
(* The dashboard shows one moment of the daemon, its panes agree, and the  *)
(* selection stays on its report: for every store capacity, any number of  *)
(* reports and of fetches in flight, in whatever order they answer.        *)
(***************************************************************************)
EXTENDS Screen, SequenceTheorems, TLAPS

Fetch == [state : {"asked", "counted", "listed", "answered", "broken", "failed"},
          age : 0 .. FetchTimeout, counted : Nat, reports : Seq(Nat), at : Int]

\* A list and a count are the daemon's at a moment that is over.
OfMoment(m, list, count) == list = ListedAt(m) /\ count <= m

\* What a fetch has been told was so at a moment that is over.
IsTrue(f) ==
    /\ f.state = "counted" => f.counted <= arrived
    /\ f.state = "listed" => \E m \in 0 .. arrived : OfMoment(m, f.reports, f.counted)
    /\ f.state = "answered" => \E m \in 0 .. f.at : OfMoment(m, f.reports, f.counted)
    /\ Sent(f) => f.at \in 0 .. arrived

TrueFetch == {f \in Fetch : IsTrue(f)}

\* The snapshot is the daemon's at some moment, before the one the footer names when it
\* names one.
SnapshotIsTrue ==
    \E m \in 0 .. arrived : /\ OfMoment(m, reports, counted)
                            /\ lastFetch # Never /\ ~ err => m <= lastFetch

\* One report is selected, and it is the one in the detail pane.
SelectionIsShown ==
    /\ selected \in 1 .. (IF reports = << >> THEN 1 ELSE Len(reports))
    /\ IF reports = << >> THEN detail \in Texts ELSE detail = reports[selected]

Flags == /\ up \in BOOLEAN /\ armed \in BOOLEAN /\ sized \in BOOLEAN /\ wide \in BOOLEAN
         /\ err \in BOOLEAN /\ focused \in BOOLEAN /\ quitting \in BOOLEAN

Moments == /\ arrived \in Nat /\ counted \in Nat /\ reports \in Seq(Nat)
           /\ lastFetch \in {Never} \cup 0 .. arrived

InFlight == fetches \in Seq(TrueFetch) /\ Len(fetches) <= MaxFetches

Inv == Flags /\ Moments /\ InFlight /\ SnapshotIsTrue /\ SelectionIsShown

-----------------------------------------------------------------------------
\* store.go List as the dashboard is answered: how many reports, and which.
LEMMA ListedShape ==
    ASSUME NEW m \in Nat
    PROVE  /\ ListedAt(m) \in Seq(Nat)
           /\ Len(ListedAt(m)) = IF m < Capacity THEN m ELSE Capacity
           /\ \A i \in 1 .. Len(ListedAt(m)) : /\ ListedAt(m)[i] = m - i + 1
                                               /\ ListedAt(m)[i] \in 1 .. m
           /\ ListedAt(m) = << >> <=> m = 0
<1> DEFINE held == IF m < Capacity THEN m ELSE Capacity
           list == [i \in 1 .. held |-> m - i + 1]
<1>1. held \in Nat /\ held <= m /\ (held = 0 <=> m = 0)
  BY DashboardAssumption
<1>2. ListedAt(m) = list
  BY DEF ListedAt
<1> HIDE DEF held
<1>3. \A i \in 1 .. held : m - i + 1 \in 1 .. m /\ m - i + 1 \in Nat
  BY <1>1
<1>4. list \in Seq(Nat) /\ Len(list) = held
  BY <1>1, <1>3, IsASeq
<1>5. \A i \in 1 .. held : list[i] = m - i + 1
  OBVIOUS
<1> HIDE DEF list
<1>6. list = << >> <=> held = 0
  BY <1>4, EmptySeq
<1> QED
  BY <1>1, <1>2, <1>3, <1>4, <1>5, <1>6 DEF held

\* A moment that is over stays over.
LEMMA TrueStays ==
    ASSUME arrived \in Nat, arrived' \in Nat, arrived' >= arrived, NEW f \in TrueFetch
    PROVE  f \in TrueFetch'
<1>1. f \in Fetch /\ IsTrue(f)
  BY DEF TrueFetch
<1>2. f.counted \in Nat /\ f.at \in Int
  BY <1>1 DEF Fetch
<1>3. 0 .. arrived \subseteq 0 .. arrived'
  OBVIOUS
<1>4. \A m, list, count : OfMoment(m, list, count)' <=> OfMoment(m, list, count)
  BY DEF OfMoment, ListedAt
<1>5. IsTrue(f)'
  BY <1>1, <1>2, <1>3, <1>4 DEF IsTrue, Sent
<1> QED
  BY <1>1, <1>5 DEF TrueFetch, Fetch

LEMMA InitOK == Init => Inv
<1> SUFFICES ASSUME Init PROVE Inv
  OBVIOUS
<1>1. Asked \in TrueFetch
  BY DashboardAssumption DEF Asked, TrueFetch, Fetch, IsTrue, Sent, Never
<1>2. InFlight
  <2>1. << Asked >> \in Seq(TrueFetch) /\ Len(<< Asked >>) = 1
    BY <1>1
  <2> QED
    BY <2>1, DashboardAssumption DEF Init, InFlight
<1>3. ListedAt(0) = << >>
  BY ListedShape
<1>4. SnapshotIsTrue
  BY <1>3 DEF Init, SnapshotIsTrue, OfMoment
<1>5. Flags
  BY DEF Init, Flags
<1>6. Moments
  BY EmptySeq DEF Init, Moments
<1>7. SelectionIsShown
  BY DEF Init, SelectionIsShown, Texts
<1> QED
  BY <1>2, <1>4, <1>5, <1>6, <1>7 DEF Inv

-----------------------------------------------------------------------------
\* The daemon has more reports, or stops answering, and the screen does not know yet.
LEMMA DaemonOK == ASSUME Inv, Arrive \/ Hang PROVE Inv'
<1>1. UNCHANGED <<fetches, armed, screen, quitting>>
  BY DEF Arrive, Hang
<1>2. arrived \in Nat /\ arrived' \in Nat /\ arrived' >= arrived /\ up' \in BOOLEAN
  <2>1. arrived \in Nat /\ up \in BOOLEAN
    BY DEF Inv, Flags, Moments
  <2>2. CASE Arrive
    BY <2>1, <2>2 DEF Arrive
  <2>3. CASE Hang
    <3>1. arrived' = arrived /\ up' = ~ up
      BY <2>3 DEF Hang
    <3> QED
      BY <2>1, <3>1
  <2> QED
    BY <2>2, <2>3
<1>3. Flags' /\ Moments'
  BY <1>1, <1>2 DEF Inv, Flags, Moments, screen, snapshot
<1>4. InFlight'
  <2>1. TrueFetch \subseteq TrueFetch'
    BY <1>2, TrueStays
  <2>2. fetches \in Seq(TrueFetch')
    BY <2>1, SeqMonotonic DEF Inv, InFlight
  <2> QED
    BY <1>1, <2>2 DEF Inv, InFlight
<1>5. SnapshotIsTrue'
  <2>1. PICK m \in 0 .. arrived : /\ OfMoment(m, reports, counted)
                                  /\ lastFetch # Never /\ ~ err => m <= lastFetch
    BY DEF Inv, SnapshotIsTrue
  <2>2. m \in 0 .. arrived'
    BY <1>2, <2>1
  <2> QED
    BY <1>1, <2>1, <2>2 DEF SnapshotIsTrue, OfMoment, ListedAt, screen, snapshot
<1>6. SelectionIsShown'
  BY <1>1 DEF Inv, SelectionIsShown, screen, snapshot
<1> QED
  BY <1>3, <1>4, <1>5, <1>6 DEF Inv

\* A step that leaves the daemon's moment and the snapshot keeps what is true of both.
LEMMA SnapshotKept ==
    ASSUME Inv, UNCHANGED <<arrived, snapshot, lastFetch, err>>
    PROVE  Moments' /\ SnapshotIsTrue'
<1>1. arrived' = arrived /\ counted' = counted /\ reports' = reports
      /\ lastFetch' = lastFetch /\ err' = err
  BY DEF snapshot
<1> QED
  BY <1>1 DEF Inv, Moments, SnapshotIsTrue, OfMoment, ListedAt

LEMMA TrueIsConstant == ASSUME arrived' = arrived PROVE TrueFetch' = TrueFetch
BY DEF TrueFetch, IsTrue, Sent, OfMoment, ListedAt

\* client.go Fetch: what is read into a fetch is true as it is read.
LEMMA RequestOK ==
    ASSUME Inv, NEW i \in 1 .. MaxFetches, Request(i)
    PROVE  Inv'
<1>1. /\ UNCHANGED <<daemon, armed, screen, quitting>> /\ i \in DOMAIN fetches
  BY DEF Request, ReadStatus, ReadList, Fail, ReadClock
<1>2. /\ fetches \in Seq(TrueFetch) /\ fetches[i] \in TrueFetch
      /\ fetches[i] \in Fetch /\ IsTrue(fetches[i]) /\ arrived \in Nat
  BY <1>1 DEF Inv, InFlight, Moments, TrueFetch
<1>3. PICK f \in TrueFetch : fetches' = [fetches EXCEPT ![i] = f]
  <2>1. CASE ReadStatus(i)
    <3> DEFINE f == [fetches[i] EXCEPT !.state = "counted", !.counted = arrived]
    <3>1. fetches' = [fetches EXCEPT ![i] = f]
      BY <1>1, <1>2, <2>1 DEF ReadStatus
    <3>2. f \in Fetch /\ f.state = "counted" /\ f.counted = arrived
      BY <1>2 DEF Fetch
    <3> HIDE DEF f
    <3>3. f \in TrueFetch
      BY <1>2, <3>2 DEF TrueFetch, IsTrue, Sent
    <3> QED
      BY <3>1, <3>3
  <2>2. CASE ReadList(i)
    <3> DEFINE f == [fetches[i] EXCEPT !.state = "listed", !.age = 0, !.reports = Listed]
    <3>1. fetches' = [fetches EXCEPT ![i] = f]
      BY <1>1, <1>2, <2>2 DEF ReadList
    <3>2. /\ f \in Fetch /\ f.state = "listed" /\ f.reports = ListedAt(arrived)
          /\ f.counted = fetches[i].counted
      <4>1. ListedAt(arrived) \in Seq(Nat) /\ Listed = ListedAt(arrived)
        BY <1>2, ListedShape DEF Listed
      <4>2. f.state = "listed" /\ f.age = 0 /\ f.reports = Listed
        BY <1>2 DEF Fetch
      <4>3. f.counted = fetches[i].counted
        BY <1>2 DEF Fetch
      <4>4. 0 \in 0 .. FetchTimeout
        BY DashboardAssumption
      <4>5. f \in Fetch
        BY <1>2, <4>1, <4>4 DEF Fetch
      <4> QED
        BY <4>1, <4>2, <4>3, <4>5
    <3>3. fetches[i].counted <= arrived
      BY <1>2, <2>2 DEF ReadList, IsTrue
    <3> HIDE DEF f
    <3>4. OfMoment(arrived, f.reports, f.counted) /\ arrived \in 0 .. arrived
      BY <1>2, <3>2, <3>3 DEF OfMoment
    <3>5. f \in TrueFetch
      BY <3>2, <3>4 DEF TrueFetch, IsTrue, Sent
    <3> QED
      BY <3>1, <3>5
  <2>3. CASE Fail(i)
    <3> DEFINE f == [Asked EXCEPT !.state = "broken"]
    <3>1. fetches' = [fetches EXCEPT ![i] = f]
      BY <2>3 DEF Fail
    <3>2. Asked \in Fetch
      BY DashboardAssumption, EmptySeq DEF Asked, Fetch, Never
    <3>3. f \in Fetch /\ f.state = "broken"
      <4> HIDE DEF Asked
      <4> QED
        BY <3>2 DEF Fetch
    <3> HIDE DEF f
    <3>4. f \in TrueFetch
      BY <3>3 DEF TrueFetch, IsTrue, Sent
    <3> QED
      BY <3>1, <3>4
  <2>4. CASE ReadClock(i)
    <3> DEFINE sent == IF fetches[i].state = "listed" THEN "answered" ELSE "failed"
               f == [fetches[i] EXCEPT !.state = sent, !.at = arrived]
    <3>1. fetches' = [fetches EXCEPT ![i] = f] /\ fetches[i].state \in {"listed", "broken"}
      BY <1>1, <1>2, <2>4 DEF ReadClock, FetchTime
    <3>2. /\ f \in Fetch /\ f.state = sent /\ f.at = arrived
          /\ f.counted = fetches[i].counted /\ f.reports = fetches[i].reports
      <4> DEFINE g == fetches[i]
      <4>1. g \in Fetch /\ sent \in {"answered", "failed"} /\ arrived \in Int
        BY <1>2
      <4> HIDE DEF g, sent
      <4> QED
        BY <4>1 DEF Fetch, g
    <3>3. sent = "answered" => \E m \in 0 .. arrived : OfMoment(m, f.reports, f.counted)
      BY <1>2, <3>1, <3>2 DEF IsTrue
    <3>4. sent \in {"answered", "failed"} /\ arrived \in 0 .. arrived
      BY <1>2
    <3> HIDE DEF f, sent
    <3>5. f \in TrueFetch
      BY <3>2, <3>3, <3>4 DEF TrueFetch, IsTrue
    <3> QED
      BY <3>1, <3>5
  <2> QED
    BY <2>1, <2>2, <2>3, <2>4 DEF Request
<1>4. InFlight'
  <2>1. fetches' \in Seq(TrueFetch) /\ Len(fetches') = Len(fetches)
    BY <1>1, <1>2, <1>3, ExceptSeq
  <2> QED
    BY <1>1, <2>1, TrueIsConstant DEF Inv, InFlight, daemon
<1>5. Moments' /\ SnapshotIsTrue'
  BY <1>1, SnapshotKept DEF daemon, screen
<1>6. Flags' /\ SelectionIsShown'
  BY <1>1 DEF Inv, Flags, SelectionIsShown, daemon, screen, snapshot
<1> QED
  BY <1>4, <1>5, <1>6 DEF Inv

\* A fetch that is delivered leaves the others as they are.
LEMMA WithoutOK ==
    ASSUME NEW S, fetches \in Seq(S), NEW i \in DOMAIN fetches
    PROVE  Without(i) \in Seq(S) /\ Len(Without(i)) = Len(fetches) - 1
<1> DEFINE n == Len(fetches)
<1>1. n \in Nat /\ i \in 1 .. n /\ \A j \in 1 .. n : fetches[j] \in S
  BY ElementOfSeq
<1>2. SubSeq(fetches, 1, i - 1) \in Seq(S) /\ Len(SubSeq(fetches, 1, i - 1)) = i - 1
  BY <1>1, SubSeqProperties
<1>3. SubSeq(fetches, i + 1, n) \in Seq(S) /\ Len(SubSeq(fetches, i + 1, n)) = n - i
  BY <1>1, SubSeqProperties
<1> HIDE DEF n
<1>4. Without(i) \in Seq(S) /\ Len(Without(i)) = (i - 1) + (n - i)
  BY <1>2, <1>3, ConcatProperties DEF Without, n
<1> QED
  BY <1>1, <1>4 DEF n

\* What refreshDetail renders fits the selection.
LEMMA DetailFits ==
    ASSUME NEW list \in Seq(Nat), NEW index \in 1 .. (IF list = << >> THEN 1 ELSE Len(list)),
           NEW failed \in BOOLEAN
    PROVE  IF list = << >> THEN DetailOf(list, index, failed) \in Texts
           ELSE DetailOf(list, index, failed) = list[index]
BY DEF DetailOf, HasCurrent, Texts

\* tui.go applySnapshot: the selection goes to the report it was on.
LEMMA FollowOK ==
    ASSUME NEW m \in Nat
    PROVE  LET list == ListedAt(m) IN
           /\ Follow(list) \in 1 .. (IF list = << >> THEN 1 ELSE Len(list))
           /\ \A j \in DOMAIN list :
                 HasCurrent(reports, selected) /\ list[j] = reports[selected]
                     => Follow(list) = j
<1> DEFINE list == ListedAt(m)
           same == {i \in DOMAIN list :
                       HasCurrent(reports, selected) /\ list[i] = reports[selected]}
<1>1. /\ list \in Seq(Nat) /\ Len(list) \in Nat /\ DOMAIN list = 1 .. Len(list)
      /\ \A i \in 1 .. Len(list) : list[i] = m - i + 1
  BY ListedShape
<1> HIDE DEF list
<1>2. Follow(list) = IF same = {} THEN 1 ELSE CHOOSE i \in same : \A j \in same : i <= j
  BY DEF Follow
<1>3. \A i, j \in same : i = j /\ i <= j
  <2>1. \A i, j \in same : i \in Int /\ j \in Int /\ m - i + 1 = m - j + 1
    BY <1>1
  <2> QED
    BY <2>1
<1>4. \A j \in same : Follow(list) = j
  BY <1>2, <1>3
<1>5. CASE same = {}
  BY <1>1, <1>2, <1>4, <1>5, EmptySeq DEF list
<1>6. CASE same # {}
  <2>1. PICK j \in same : TRUE
    BY <1>6
  <2>2. Follow(list) = j /\ j \in 1 .. Len(list) /\ list # << >>
    BY <1>1, <1>4, <2>1
  <2> QED
    BY <1>4, <2>2 DEF list
<1> QED
  BY <1>5, <1>6

\* tui.go handleSnapshot and applySnapshot.
LEMMA DeliverOK == ASSUME Inv, NEW i \in 1 .. MaxFetches, Deliver(i) PROVE Inv'
<1> DEFINE f == fetches[i]
<1>1. /\ i \in DOMAIN fetches /\ Sent(f) /\ fetches' = Without(i)
      /\ lastFetch' = f.at /\ err' = (f.state = "failed")
      /\ UNCHANGED <<daemon, armed, sized, wide, focused, quitting>>
  BY DEF Deliver
<1>2. /\ fetches \in Seq(TrueFetch) /\ f \in TrueFetch /\ f \in Fetch /\ IsTrue(f)
      /\ arrived \in Nat /\ arrived' = arrived
  BY <1>1 DEF Inv, InFlight, Moments, TrueFetch, daemon
<1>3. f.state \in {"answered", "failed"} /\ f.at \in 0 .. arrived
  BY <1>1, <1>2 DEF Sent, IsTrue
<1>4. InFlight'
  <2>1. Without(i) \in Seq(TrueFetch) /\ Len(Without(i)) = Len(fetches) - 1
    BY <1>1, <1>2, WithoutOK
  <2>2. Len(fetches) \in Nat /\ Len(fetches) <= MaxFetches
    BY <1>2, LenProperties DEF Inv, InFlight
  <2> QED
    BY <1>1, <1>2, <2>1, <2>2, TrueIsConstant, DashboardAssumption DEF InFlight
<1>5. Flags'
  BY <1>1 DEF Inv, Flags, daemon
<1>6. CASE f.state = "failed"
  <2>1. UNCHANGED <<snapshot, selected, detail>> /\ err' = TRUE
    BY <1>1, <1>6 DEF Deliver
  <2>2. Moments' /\ SelectionIsShown'
    BY <1>1, <1>2, <1>3, <2>1 DEF Inv, Moments, SelectionIsShown, snapshot
  <2>3. SnapshotIsTrue'
    BY <1>2, <2>1 DEF Inv, SnapshotIsTrue, OfMoment, ListedAt, snapshot
  <2> QED
    BY <1>4, <1>5, <2>2, <2>3 DEF Inv
<1>7. CASE f.state = "answered"
  <2>1. /\ counted' = f.counted /\ reports' = f.reports
        /\ selected' = Follow(f.reports)
        /\ detail' = DetailOf(f.reports, Follow(f.reports), FALSE)
    BY <1>1, <1>7 DEF Deliver
  <2>2. PICK m \in 0 .. f.at : OfMoment(m, f.reports, f.counted)
    BY <1>2, <1>7 DEF IsTrue
  <2>3. /\ m \in Nat /\ m \in 0 .. arrived /\ f.at \in Nat /\ f.counted \in Nat
        /\ f.reports = ListedAt(m) /\ f.reports \in Seq(Nat)
    BY <1>2, <1>3, <2>2, ListedShape DEF OfMoment, Fetch
  <2> HIDE DEF f
  <2>4. Moments'
    BY <1>1, <1>2, <1>3, <2>1, <2>3 DEF Moments
  <2>5. SnapshotIsTrue'
    BY <1>1, <1>2, <2>1, <2>2, <2>3 DEF SnapshotIsTrue, OfMoment, ListedAt
  <2>6. SelectionIsShown'
    <3>1. selected' \in 1 .. (IF reports' = << >> THEN 1 ELSE Len(reports'))
      BY <2>1, <2>3, FollowOK
    <3> QED
      BY <2>1, <2>3, <3>1, DetailFits DEF SelectionIsShown
  <2> QED
    BY <1>4, <1>5, <2>4, <2>5, <2>6 DEF Inv
<1> QED
  BY <1>3, <1>6, <1>7

-----------------------------------------------------------------------------
\* A fetch is started, by the timer or the key.
LEMMA StartFetchOK == ASSUME Inv, Tick \/ Refresh PROVE Inv'
<1>1. UNCHANGED <<daemon, screen, quitting>> /\ Len(fetches) < MaxFetches
  BY DEF Tick, Refresh
<1>2. Asked \in TrueFetch
  BY DashboardAssumption DEF Asked, TrueFetch, Fetch, IsTrue, Sent, Never
<1>3. fetches \in Seq(TrueFetch) /\ Len(fetches) \in Nat
  BY LenProperties DEF Inv, InFlight
<1>4. PICK before \in Seq(TrueFetch) :
          Len(before) = Len(fetches) /\ fetches' = Append(before, Asked)
  <2>1. CASE Refresh
    BY <1>3, <2>1 DEF Refresh
  <2>2. CASE Tick
    <3> DEFINE Aged(j) == IF Pending(fetches[j])
                          THEN [fetches[j] EXCEPT !.age = @ + Interval] ELSE fetches[j]
               before == [j \in DOMAIN fetches |-> Aged(j)]
    <3>1. fetches' = Append(before, Asked)
      BY <2>2 DEF Tick
    <3>2. ASSUME NEW j \in 1 .. Len(fetches) PROVE Aged(j) \in TrueFetch
      <4>1. fetches[j] \in TrueFetch /\ fetches[j] \in Fetch /\ IsTrue(fetches[j]) /\ j \in DOMAIN fetches
        BY <1>3 DEF TrueFetch
      <4>2. CASE Pending(fetches[j])
        <5> DEFINE g == [fetches[j] EXCEPT !.age = @ + Interval]
        <5>1. fetches[j].age + Interval <= FetchTimeout /\ ~ Sent(fetches[j])
              /\ fetches[j].state # "listed"
          BY <2>2, <4>1, <4>2 DEF Tick, Pending, Sent
        <5>2. fetches[j].age + Interval \in 0 .. FetchTimeout
          BY <4>1, <5>1, DashboardAssumption DEF Fetch
        <5>3. /\ g \in Fetch /\ g.state = fetches[j].state /\ g.counted = fetches[j].counted
              /\ g.at = fetches[j].at /\ g.reports = fetches[j].reports
          BY <4>1, <5>2 DEF Fetch
        <5> HIDE DEF g
        <5>4. g \in TrueFetch
          BY <4>1, <5>1, <5>3 DEF TrueFetch, IsTrue, Sent
        <5> QED
          BY <4>2, <5>4 DEF g
      <4>3. CASE ~ Pending(fetches[j])
        BY <4>1, <4>3
      <4> QED
        BY <4>2, <4>3
    <3>3. DOMAIN fetches = 1 .. Len(fetches)
      BY <1>3
    <3>4. before \in Seq(TrueFetch) /\ Len(before) = Len(fetches)
      <4> HIDE DEF Aged
      <4> QED
        BY <1>3, <3>2, <3>3, IsASeq
    <3> QED
      BY <3>1, <3>4
  <2> QED
    BY <2>1, <2>2
<1>5. InFlight'
  <2>1. fetches' \in Seq(TrueFetch) /\ Len(fetches') = Len(fetches) + 1
    BY <1>2, <1>4, AppendProperties
  <2> QED
    BY <1>1, <1>3, <2>1, TrueIsConstant, DashboardAssumption DEF InFlight, daemon
<1>6. Moments' /\ SnapshotIsTrue'
  BY <1>1, SnapshotKept DEF daemon, screen
<1>7. armed' \in BOOLEAN
  BY DEF Inv, Flags, Tick, Refresh, Rearmed
<1>8. Flags' /\ SelectionIsShown'
  BY <1>1, <1>7 DEF Inv, Flags, SelectionIsShown, daemon, screen, snapshot
<1> QED
  BY <1>5, <1>6, <1>8 DEF Inv

\* The steps that leave the fetches alone.
LEMMA FetchesKept ==
    ASSUME Inv, fetches' = fetches, arrived' = arrived
    PROVE  InFlight'
BY TrueIsConstant DEF Inv, InFlight

\* tui.go resize: the detail is rendered anew.
LEMMA ResizeOK == ASSUME Inv, Resize PROVE Inv'
<1>1. /\ sized' = TRUE /\ wide' \in BOOLEAN /\ detail' = DetailOf(reports, selected, err)
      /\ UNCHANGED <<daemon, fetches, armed, snapshot, lastFetch, err, selected, focused, quitting>>
  BY DEF Resize
<1>2. SelectionIsShown'
  BY <1>1, DetailFits DEF Inv, Flags, Moments, SelectionIsShown, snapshot
<1>3. InFlight' /\ Moments' /\ SnapshotIsTrue'
  BY <1>1, FetchesKept, SnapshotKept DEF daemon
<1> QED
  BY <1>1, <1>2, <1>3 DEF Inv, Flags, daemon

\* tui.go moveTo, for any key: the index is clamped before it is used.
LEMMA MoveOK == ASSUME Inv, NEW index \in Keys, MoveTo(index) PROVE Inv'
<1>1. /\ reports # << >> /\ selected' = Clamped(index) /\ detail' = DetailOf(reports, selected', err)
      /\ UNCHANGED <<daemon, fetches, armed, sized, wide, snapshot, lastFetch, err, focused, quitting>>
  BY DEF MoveTo, DetailAfterMove
<1>2. /\ Len(reports) \in Nat /\ Len(reports) # 0 /\ reports \in Seq(Nat)
      /\ selected \in Int /\ err \in BOOLEAN
  BY <1>1, LenProperties, EmptySeq DEF Inv, Flags, Moments, SelectionIsShown
<1>3. selected' \in 1 .. Len(reports)
  BY <1>1, <1>2 DEF Keys, Clamped
<1>4. SelectionIsShown'
  BY <1>1, <1>2, <1>3, DetailFits DEF SelectionIsShown, snapshot
<1>5. InFlight' /\ Moments' /\ SnapshotIsTrue'
  BY <1>1, FetchesKept, SnapshotKept DEF daemon
<1> QED
  BY <1>1, <1>4, <1>5 DEF Inv, Flags, daemon

LEMMA TabOK == ASSUME Inv, Tab PROVE Inv'
<1>1. InFlight' /\ Moments' /\ SnapshotIsTrue'
  BY FetchesKept, SnapshotKept DEF Tab, daemon
<1> QED
  BY <1>1 DEF Inv, Flags, SelectionIsShown, Tab, daemon, snapshot

LEMMA QuitOK == ASSUME Inv, Quit PROVE Inv'
<1>1. UNCHANGED <<daemon, screen>> /\ fetches' = << >> /\ armed' = FALSE /\ quitting' = TRUE
  BY DEF Quit
<1>2. Moments' /\ SnapshotIsTrue'
  BY <1>1, SnapshotKept DEF daemon, screen
<1>3. InFlight'
  BY <1>1, EmptySeq, DashboardAssumption DEF InFlight
<1> QED
  BY <1>1, <1>2, <1>3 DEF Inv, Flags, SelectionIsShown, daemon, screen, snapshot

LEMMA StutterOK == ASSUME Inv, UNCHANGED vars PROVE Inv'
<1>1. InFlight' /\ Moments' /\ SnapshotIsTrue'
  BY FetchesKept, SnapshotKept DEF vars, daemon, screen
<1> QED
  BY <1>1 DEF Inv, Flags, SelectionIsShown, vars, daemon, screen, snapshot

LEMMA NextOK == Inv /\ [Next]_vars => Inv'
<1> SUFFICES ASSUME Inv, [Next]_vars PROVE Inv'
  OBVIOUS
<1>1. CASE Arrive \/ Hang
  BY <1>1, DaemonOK
<1>2. ASSUME NEW i \in 1 .. MaxFetches, Request(i) PROVE Inv'
  BY <1>2, RequestOK
<1>3. ASSUME NEW i \in 1 .. MaxFetches, Deliver(i) PROVE Inv'
  BY <1>3, DeliverOK
<1>4. CASE Tick \/ Refresh
  BY <1>4, StartFetchOK
<1>5. CASE Resize \/ Tab \/ Quit
  BY <1>5, ResizeOK, TabOK, QuitOK
<1>6. ASSUME NEW index \in Keys, MoveTo(index) PROVE Inv'
  BY <1>6, MoveOK
<1>7. CASE UNCHANGED vars
  BY <1>7, StutterOK
<1> QED
  BY <1>1, <1>2, <1>3, <1>4, <1>5, <1>6, <1>7 DEF Next

LEMMA DashboardInvariant == Spec => []Inv
BY InitOK, NextOK, PTL DEF Spec

-----------------------------------------------------------------------------
\* tui.go footer, header and list, client.go Fetch: the rows are what the daemon listed at one
\* moment, the count is no later than it, and the time the screen names no earlier.
THEOREM DashboardScreenIsOneMoment == Spec => []ScreenIsOneMoment
<1>1. ASSUME Inv, sized PROVE ScreenIsOneMoment
  <2>1. /\ View.header = counted /\ View.footer = Footer
        /\ View.panes = [which \in Shown |-> Pane(which)]
    BY <1>1 DEF View, Header
  <2>2. PICK m \in 0 .. arrived : /\ OfMoment(m, reports, counted)
                                  /\ lastFetch # Never /\ ~ err => m <= lastFetch
    BY <1>1 DEF Inv, SnapshotIsTrue
  <2>3. /\ arrived \in Nat /\ err \in BOOLEAN /\ reports \in Seq(Nat) /\ m \in Nat
        /\ lastFetch \in {Never} \cup 0 .. arrived
    BY <1>1, <2>2 DEF Inv, Flags, Moments
  <2>4. m \in 0 .. Latest
    <3>1. CASE View.footer \in {Never, Unreachable}
      BY <2>2, <3>1 DEF Latest
    <3>2. CASE View.footer \notin {Never, Unreachable}
      BY <2>1, <2>2, <2>3, <3>2 DEF Latest, Footer, Never
    <3> QED
      BY <3>1, <3>2
  <2>5. ASSUME Visible("list")
        PROVE  ListedRows = ListedAt(m) /\ (View.panes["list"].text = Watching => m = 0)
    <3>1. View.panes["list"] =
              [text |-> IF reports = << >> THEN NoRows ELSE Blank, rows |-> Rows]
      BY <2>1, <2>5 DEF Visible, Pane
    <3>2. reports = << >> <=> m = 0
      BY <2>2, <2>3, ListedShape DEF OfMoment
    <3>3. ListedRows = reports
      BY <2>3, <3>1 DEF ListedRows, Rows
    <3> QED
      BY <2>2, <3>1, <3>2, <3>3 DEF OfMoment, Watching, Blank
  <2> QED
    BY <2>1, <2>2, <2>4, <2>5 DEF ScreenIsOneMoment, OfMoment
<1>2. Inv => ScreenIsOneMoment
  BY <1>1 DEF ScreenIsOneMoment
<1> QED
  BY <1>2, DashboardInvariant, PTL

\* tui.go View, refreshDetail and move: exactly one row is marked, and the detail pane
\* holds the report of that row.
THEOREM DashboardPanesAgree == Spec => []PanesAgree
<1>1. ASSUME Inv, sized, reports # << >>
      PROVE  /\ \E i \in DOMAIN Rows : \A j \in DOMAIN Rows : Rows[j].marked <=> i = j
             /\ Visible("detail") =>
                   \E i \in DOMAIN Rows :
                      Rows[i].marked /\ Rows[i].report = View.panes["detail"].text
  <2>1. /\ selected \in DOMAIN reports /\ detail = reports[selected]
    BY <1>1 DEF Inv, SelectionIsShown, Moments
  <2>2. /\ DOMAIN Rows = DOMAIN reports
        /\ \A i \in DOMAIN reports : Rows[i].report = reports[i] /\ (Rows[i].marked <=> i = selected)
    BY DEF Rows
  <2>3. Visible("detail") => View.panes["detail"].text = detail
    BY <1>1 DEF Visible, View, Pane
  <2> QED
    BY <2>1, <2>2, <2>3
<1>2. Inv => PanesAgree
  BY <1>1 DEF PanesAgree
<1> QED
  BY <1>2, DashboardInvariant, PTL

\* tui.go applySnapshot: a refresh, an old one too, that lists the selected report leaves
\* the selection on it.
THEOREM DashboardSelectionFollows == Spec => SelectionFollows
<1> DEFINE Follows ==
      \A i \in DOMAIN reports, j \in DOMAIN reports' :
          reports' # reports /\ i = selected /\ reports'[j] = reports[i]
              => reports'[selected'] = reports[i]
<1>1. Inv /\ [Next]_vars => [Follows]_vars
  <2> SUFFICES ASSUME Inv, [Next]_vars, NEW i \in DOMAIN reports, NEW j \in DOMAIN reports',
                      reports' # reports, i = selected, reports'[j] = reports[i]
               PROVE  reports'[selected'] = reports[i]
    OBVIOUS
  <2>1. PICK k \in 1 .. MaxFetches : Deliver(k)
    BY DEF Next, Arrive, Hang, Request, ReadStatus, ReadList, Fail, ReadClock, Tick, Refresh,
           Resize, Tab, MoveTo, Quit, vars, screen, snapshot
  <2>2. /\ k \in DOMAIN fetches /\ fetches[k].state = "answered"
        /\ reports' = fetches[k].reports /\ selected' = Follow(fetches[k].reports)
    BY <2>1 DEF Deliver, Sent, snapshot
  <2>3. fetches[k] \in TrueFetch
    BY <2>2 DEF Inv, InFlight
  <2>4. PICK m \in 0 .. fetches[k].at : fetches[k].reports = ListedAt(m) /\ m \in Nat
    BY <2>2, <2>3 DEF TrueFetch, IsTrue, Sent, OfMoment
  <2>5. HasCurrent(reports, selected)
    BY DEF HasCurrent
  <2>6. selected' = j
    BY <2>2, <2>4, <2>5, FollowOK
  <2> QED
    BY <2>6
<1> QED
  BY <1>1, DashboardInvariant, PTL DEF Spec, SelectionFollows
=============================================================================
