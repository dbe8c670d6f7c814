------------------------------ MODULE MemoryFiles ------------------------------
(***************************************************************************)
(* How internal/cgroup makes MemoryStats of the files of a cgroup, under   *)
(* either hierarchy.  A number file holds a number, MaxWord, Corrupt, or   *)
(* is Missing; a key/value file is a function on the keys whose lines      *)
(* parse, empty when the file is missing.                                  *)
(***************************************************************************)
EXTENDS Integers

CONSTANTS Unlimited,       \* the sentinel for no ceiling, 2^64 - 1
          PageCounterMax   \* what a v1 kernel reports for no ceiling

ASSUME MemoryFilesAssumption ==
    PageCounterMax \in Nat /\ Unlimited \in Nat /\ 0 < PageCounterMax /\ PageCounterMax < Unlimited

Missing == -1
Corrupt == -2
MaxWord == -3

\* ParseUint and ParseLimit fail on what is not a number; Max is one for a limit only.
IsUint(content) == content >= 0
IsLimit(content) == content >= 0 \/ content = MaxWord

\* readUintOptional: absence is an answer, corruption is not.
Optional(content) == content = Missing \/ IsUint(content)
OrZero(content) == IF IsUint(content) THEN content ELSE 0

\* A key that is absent from a Go map reads as zero.
Field(fields, key) == IF key \in DOMAIN fields THEN fields[key] ELSE 0

\* Mutant of NormaliseLimit: the v1 sentinel is a limit like any other.
KeptLimit(limit) == limit

NormaliseLimit(limit) == IF limit >= PageCounterMax THEN Unlimited ELSE limit

\* ParseLimit.
LimitOf(content) == IF content = MaxWord THEN Unlimited ELSE NormaliseLimit(content)

Failed == [ok |-> FALSE]

\* readMemoryStatsV2: the counters of memory.events.local wherever there are any.
ReadV2(files) ==
    IF IsUint(files.current) /\ IsLimit(files.limit) /\ Optional(files.peak)
       /\ Optional(files.swap)
    THEN [ok      |-> TRUE,
          current |-> files.current,
          limit   |-> LimitOf(files.limit),
          peak    |-> OrZero(files.peak),
          swap    |-> OrZero(files.swap),
          anon    |-> Field(files.stat, "anon"),
          oom     |-> Field(files.events, "oom"),
          kills   |-> IF DOMAIN files.local # {} THEN Field(files.local, "oom_kill")
                      ELSE Field(files.events, "oom_kill")]
    ELSE Failed

\* readMemoryStatsV1: other names, and no count of kills.
ReadV1(files) ==
    IF IsUint(files.current) /\ IsUint(files.limit) /\ Optional(files.peak)
       /\ Optional(files.failcnt)
    THEN [ok      |-> TRUE,
          current |-> files.current,
          limit   |-> NormaliseLimit(files.limit),
          peak    |-> OrZero(files.peak),
          swap    |-> Field(files.stat, "swap"),
          anon    |-> Field(files.stat, "rss"),
          oom     |-> OrZero(files.failcnt),
          kills   |-> 0]
    ELSE Failed

ReadMemoryStats(version, files) == IF version = "v1" THEN ReadV1(files) ELSE ReadV2(files)

\* UsageRatio as <<numerator, denominator>>; no ceiling makes it zero.
UsageRatio(stats) ==
    IF stats.limit \in {0, Unlimited} THEN <<0, 1>>
    ELSE IF stats.current > stats.limit THEN <<1, 1>> ELSE <<stats.current, stats.limit>>

Headroom(stats) ==
    IF stats.limit = Unlimited THEN Unlimited
    ELSE IF stats.current >= stats.limit THEN 0 ELSE stats.limit - stats.current
=============================================================================
