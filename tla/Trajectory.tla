------------------------------- MODULE Trajectory -------------------------------
(***************************************************************************)
(* What a report makes of a container's history (oom.TrajectoryFrom), and  *)
(* the readings of it that the text rendering prints (trajectoryRows).     *)
(***************************************************************************)
EXTENDS MemoryFiles, SequencesExt

CONSTANT RowLimit     \* maxTrajectoryRows

\* The end points can only be kept, and the peak besides them, among three rows.
ASSUME RowLimitAssumption == RowLimit \in Nat /\ RowLimit >= 3

\* The sentinel of an uncapped cgroup is flattened to zero.
ShownLimit(limit) == IF limit = Unlimited THEN 0 ELSE limit

TrajectoryFrom(readings) ==
    [i \in DOMAIN readings |->
        [at |-> readings[i].at, used |-> readings[i].current,
         limit |-> ShownLimit(readings[i].limit), ratio |-> UsageRatio(readings[i])]]

\* The first of the readings that used most.
Busiest(points) ==
    CHOOSE i \in DOMAIN points :
        \A j \in DOMAIN points :
            points[j].used < points[i].used \/ (points[j].used = points[i].used /\ i <= j)

\* The evenly spaced readings, row by row.
EvenRows(n) == [row \in 1 .. RowLimit |-> 1 + ((row - 1) * (n - 1)) \div (RowLimit - 1)]

Distance(m, n) == IF m < n THEN n - m ELSE m - n

\* Mutant of Displaced: the nearest row, were it the first or the last.
NearestRow(rows, reading) ==
    CHOOSE row \in DOMAIN rows :
        \A other \in DOMAIN rows :
            \/ Distance(rows[row], reading) < Distance(rows[other], reading)
            \/ Distance(rows[row], reading) = Distance(rows[other], reading) /\ row <= other

\* Never displace the first or the last reading: they anchor the window.
Displaced(rows, reading) ==
    LET nearest == NearestRow(rows, reading)
    IN  IF nearest = 1 THEN 2
        ELSE IF nearest = Len(rows) THEN Len(rows) - 1 ELSE nearest

\* slices.Sort.
Sorted(rows) ==
    LET Orders(p) == \A a, b \in DOMAIN rows : a < b => rows[p[a]] <= rows[p[b]]
        order     == CHOOSE p \in Bijection(DOMAIN rows, DOMAIN rows) : Orders(p)
    IN  [row \in DOMAIN rows |-> rows[order[row]]]

\* trajectoryRows, as positions in points.
TrajectoryRows(points) ==
    LET even == EvenRows(Len(points))
        peak == Busiest(points)
        kept == IF \E row \in DOMAIN even : even[row] = peak THEN even
                ELSE [even EXCEPT ![Displaced(even, peak)] = peak]
    IN  IF Len(points) <= RowLimit THEN [i \in DOMAIN points |-> i]
        ELSE Sorted(kept)
=============================================================================
