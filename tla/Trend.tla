--------------------------------- MODULE Trend ---------------------------------
(***************************************************************************)
(* The growth analysis of internal/sampler/trend.go, in exact arithmetic:  *)
(* a fraction is kept as numerator and denominator.  A reading has at, its *)
(* time in seconds, current and limit.                                     *)
(***************************************************************************)
EXTENDS MemoryFiles, Sequences

CONSTANT MaxSeconds     \* the seconds a time.Duration can hold

ASSUME TrendAssumption == MaxSeconds \in Nat \ {0}

\* The accumulation every loop of fitSlope makes.
Total(series) ==
    LET upTo[i \in 0 .. Len(series)] == IF i = 0 THEN 0 ELSE upTo[i - 1] + series[i]
    IN  upTo[Len(series)]

\* Seconds since the first reading, and bytes.
Xs(readings) == [i \in DOMAIN readings |-> readings[i].at - readings[1].at]
Ys(readings) == [i \in DOMAIN readings |-> readings[i].current]

\* n times the difference from the mean.
Centred(series) ==
    LET sum == Total(series) IN [i \in DOMAIN series |-> Len(series) * series[i] - sum]

Times(f, g) == [i \in DOMAIN f |-> f[i] * g[i]]

\* n times the sum of the products of the differences from the means; centring one
\* factor is enough for it, and keeps the numbers small.
Covariance(readings) == Total(Times(Centred(Xs(readings)), Ys(readings)))
VarianceX(readings) ==  Total(Times(Centred(Xs(readings)), Xs(readings)))
VarianceY(readings) ==  Total(Times(Centred(Ys(readings)), Ys(readings)))

\* Mutant of Rise: a regression of seconds against bytes.
InverseRise(readings) == VarianceY(readings)

\* fitSlope: the slope is Rise over Run, in bytes a second.
Rise(readings) == Covariance(readings)
Run(readings) == VarianceX(readings)

\* The differences from the fitted line, times n * Run.
Residuals(readings) ==
    LET run == Run(readings)  rise == Rise(readings)
        xs  == Centred(Xs(readings))  ys == Centred(Ys(readings))
    IN  [i \in DOMAIN readings |-> run * ys[i] - rise * xs[i]]

\* Both sums of squares times (n * Run)^2.
ResidualSS(readings) == LET rs == Residuals(readings) IN Total(Times(rs, rs))
TotalSS(readings) == Run(readings) * Run(readings) * Len(readings) * VarianceY(readings)

\* R squared as <<numerator, denominator>>; math.Max and math.Min keep it in [0,1].
RSquared(readings) ==
    LET total == TotalSS(readings)  residual == ResidualSS(readings)
    IN  IF total = 0 THEN <<1, 1>>
        ELSE IF residual > total THEN <<0, 1>> ELSE <<total - residual, total>>

Fitted(readings) == Len(readings) >= 2 /\ Run(readings) # 0

Capped(reading) == reading.limit \notin {0, Unlimited}

\* Mutant of FitsDuration: the conversion is not guarded, and overflows.
AnyDuration(readings) == TRUE

FitsDuration(readings) ==
    Headroom(readings[Len(readings)]) * Run(readings) < MaxSeconds * Rise(readings)

\* projectTimeToLimit, from the last reading: whether there is a projection.
Projected(readings) ==
    /\ Fitted(readings) /\ Rise(readings) > 0
    /\ Capped(readings[Len(readings)]) /\ FitsDuration(readings)

\* And how many seconds it gives, as <<numerator, denominator>>.
TimeToLimit(readings) ==
    <<Headroom(readings[Len(readings)]) * Run(readings), Rise(readings)>>
=============================================================================
