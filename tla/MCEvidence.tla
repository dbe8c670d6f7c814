----------------------------- MODULE MCEvidence -----------------------------
(* A cgroup that comes and goes while passes run, a retention of two ticks in  *)
(* five: long enough to vanish, return, vanish again and be evicted; and two   *)
(* kills, whose events may wait for any of that.                              *)
EXTENDS Evidence

MCTime == 0 .. MaxTime
=============================================================================
