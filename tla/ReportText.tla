------------------------------ MODULE ReportText ------------------------------
(***************************************************************************)
(* What the text of a report (internal/render/text.go) says of the pod and  *)
(* of the processes that its container still had, without the wording.      *)
(***************************************************************************)
EXTENDS Integers, Sequences

CONSTANT MaxProcesses     \* maxProcesses

ASSUME TextAssumption == MaxProcesses \in Nat

\* writeHeader: a pod that the cluster does not know is called by its UID, a container by
\* its ID, which a kill at the level of the pod has not.
PodLine(identity) == IF identity.pod # "" THEN <<identity.pod>> ELSE identity.scope.uid

ContainerLine(identity) ==
    IF identity.container # "" THEN <<identity.container>> ELSE identity.scope.id

\* Mutant of Claim: what was not read is taken for a no.
ClaimUnlessGrouped(flag) == IF flag = "yes" THEN "teardown" ELSE "survivors"

\* writeProcesses: what the list is said to be, by the group-kill flag.
Claim(flag) ==
    CASE flag = "unread" -> "snapshot" [] flag = "yes" -> "teardown" [] OTHER -> "survivors"

\* writeProcesses: nothing without a list; else a warning when a known victim was not taken
\* out of it, the claim, the first rows, and how many are left out.
ProcessesText(listing, flag, known) ==
    LET n == Len(listing.listed) IN
    IF n = 0 THEN [warned |-> FALSE, claim |-> "none", rows |-> << >>, more |-> 0]
    ELSE [warned |-> known /\ listing.match = "none",
          claim  |-> Claim(flag),
          rows   |-> IF n > MaxProcesses THEN SubSeq(listing.listed, 1, MaxProcesses)
                     ELSE listing.listed,
          more   |-> IF n > MaxProcesses THEN n - MaxProcesses ELSE 0]
=============================================================================
