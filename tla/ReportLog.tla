------------------------------ MODULE ReportLog ------------------------------
(***************************************************************************)
(* What a report store promises: a bounded log in order of first arrival,  *)
(* one entry per ID.  There is no index here: an entry is found by looking *)
(* at the log itself.  Store implements it.                                *)
(***************************************************************************)
EXTENDS Naturals, Sequences

CONSTANTS Capacity, Report

VARIABLE kept

\* The positions at which a report with this ID is kept.
Entries(id) == {i \in 1 .. Len(kept) : kept[i].id = id}

LogInit == kept = << >>

\* A known ID is replaced where it stands.
Replace(r) == \E i \in Entries(r.id) : kept' = [kept EXCEPT ![i] = r]

\* A new ID goes to the end, and a full log gives up its oldest entry for it.
Arrive(r) ==
    /\ Entries(r.id) = {}
    /\ kept' = Append(IF Len(kept) < Capacity THEN kept ELSE Tail(kept), r)

LogNext == \E r \in Report : Replace(r) \/ Arrive(r)

LogSpec == LogInit /\ [][LogNext]_kept
=============================================================================
