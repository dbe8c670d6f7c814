-------------------------------- MODULE History --------------------------------
(***************************************************************************)
(* One container's history from the kernel's files to the report: readings *)
(* go into the sampler's ring, and the trend, the trajectory and the rows  *)
(* that are printed come out of it.                                        *)
(***************************************************************************)
EXTENDS RingMachine, Trend, Trajectory

CONSTANTS MaxBytes,    \* bound on the memory in use
          MaxGap,      \* bound on the seconds between two readings
          MaxTime,     \* bound on the clock
          Limits,      \* the ceilings a container may have
          Uncapped     \* the ceiling of a container without one

ASSUME HistoryAssumption ==
    /\ MaxBytes \in Nat /\ MaxGap \in Nat /\ MaxTime \in Nat
    /\ Limits \subseteq 1 .. PageCounterMax - 1 /\ Uncapped \notin Nat
    /\ [at : 0 .. MaxTime, current : 0 .. MaxBytes, limit : Limits \cup {Unlimited}] \subseteq Sample

VARIABLE ceiling       \* the container's limit

\* The files of a container that uses current bytes, as each hierarchy writes them; the
\* kernel may be too old for a peak, or the read of one go wrong.
Files(version, current, peak) ==
    [current |-> current,
     limit   |-> IF ceiling # Uncapped THEN ceiling
                 ELSE IF version = "v1" THEN PageCounterMax ELSE MaxWord,
     peak    |-> peak, swap |-> Missing, failcnt |-> 0,
     stat    |-> [key \in {"anon", "rss"} |-> current],
     events  |-> [key \in {"oom", "oom_kill"} |-> 0],
     local   |-> [key \in {} |-> 0]]

Readings == RingSamples(ring)

\* The next reading comes a gap after the last one: later when passes in between failed
\* to read the container, at the same instant when the clock is coarse.
NextTime(gap) == IF RingLen(ring) = 0 THEN 0 ELSE Latest(ring).at + gap

\* sampleOne and record: a reading that fails records nothing.
Record(files, version, gap) ==
    LET stats == ReadMemoryStats(version, files) IN
    /\ NextTime(gap) <= MaxTime
    /\ IF stats.ok
       THEN AddSample([at |-> NextTime(gap), current |-> stats.current, limit |-> stats.limit])
       ELSE UNCHANGED ring
    /\ UNCHANGED ceiling

HistoryInit == RingInit /\ ceiling \in Limits \cup {Uncapped}

HistoryNext ==
    \E version \in {"v1", "v2"} :
        \/ Record(Files(version, 0, Corrupt), version, 0)
        \/ \E current \in 0 .. MaxBytes, gap \in 0 .. MaxGap :
              Record(Files(version, current, Missing), version, gap)

HistorySpec == HistoryInit /\ [][HistoryNext]_<<ring, ceiling>>

-----------------------------------------------------------------------------
\* The squared distances of the readings from the line through y(0) = base.
SquaredError(readings, base, slope) ==
    Total([i \in DOMAIN readings |->
        LET miss == readings[i].current - base - slope * (readings[i].at - readings[1].at)
        IN  miss * miss])


\* trend.go fitSlope: no other line fits the window better, and the fit explains between
\* none and all of the variance, so that the clamps only ever catch rounding.
TrendIsLeastSquares ==
    LET readings == Readings
        residual == ResidualSS(readings)
        scale    == Len(readings) * Run(readings)
    IN  Fitted(readings) =>
        /\ \A base \in 0 .. MaxBytes, slope \in -1 .. 1 :
              residual <= scale * scale * SquaredError(readings, base, slope)
        /\ residual <= TotalSS(readings)

\* trend.go Analyse: a window that grows at one rate towards its limit is a perfect fit
\* and projected at that rate; one that never grows is not projected at all.
ProjectionFollowsGrowth ==
    LET readings == Readings
        n        == Len(readings)
        last     == readings[n]
        Climb(i) == readings[i + 1].current - readings[i].current
        Gap(i)   == readings[i + 1].at - readings[i].at
    IN n >= 2 =>
        /\ (\A i \in 1 .. n - 1 : Climb(i) <= 0) => ~ Projected(readings)
        /\ \A bytes \in 1 .. MaxBytes, gap \in 1 .. MaxGap :
              (\A i \in 1 .. n - 1 : Gap(i) > 0 /\ Climb(i) * gap = bytes * Gap(i))
                  /\ ceiling # Uncapped
              => LET seconds == TimeToLimit(readings)
                     fit     == RSquared(readings)
                     left    == IF last.current > ceiling THEN 0 ELSE ceiling - last.current
                 IN  /\ fit[1] = fit[2]
                     /\ seconds[1] * bytes = left * gap * seconds[2]
                     /\ Projected(readings) <=> left * gap < MaxSeconds * bytes

\* cgroup.go normaliseLimit, report.go TrajectoryFrom and trend.go: whatever sentinel the
\* hierarchy has for it, a container without a limit has none in its report, no ratio to
\* one, and no time to it; with a limit the ratio is at most one, and one exactly when the
\* use has reached the limit.
NoCeilingNoRatio ==
    LET readings == Readings  points == TrajectoryFrom(readings) IN
    /\ ceiling = Uncapped /\ readings # <<>> => ~ Projected(readings)
    /\ \A i \in DOMAIN points :
          IF ceiling = Uncapped THEN points[i].limit = 0 /\ points[i].ratio[1] = 0
          ELSE /\ points[i].limit = ceiling /\ points[i].ratio[1] <= points[i].ratio[2]
               /\ points[i].ratio[1] = points[i].ratio[2] <=> points[i].used >= ceiling

\* text.go trajectoryRows: the printed rows are distinct readings in the order of time,
\* the first, the last and the busiest of the window among them.
RowsTellTheStory ==
    LET points == TrajectoryFrom(Readings)
        rows   == TrajectoryRows(points)
        n      == Len(points)
    IN  n > 0 =>
        /\ Len(rows) = (IF n < RowLimit THEN n ELSE RowLimit)
        /\ rows[1] = 1 /\ rows[Len(rows)] = n
        /\ \A row \in 1 .. Len(rows) - 1 : rows[row] < rows[row + 1]
        /\ \E row \in DOMAIN rows : \A i \in DOMAIN points : points[i].used <= points[rows[row]].used
=============================================================================
