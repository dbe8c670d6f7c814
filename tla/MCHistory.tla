------------------------------- MODULE MCHistory -------------------------------
(* A ring of five that wraps, for containers with two limits or none; more      *)
(* readings than rows are printed.                                              *)
EXTENDS History

MCSample == [at : 0 .. MaxTime, current : 0 .. MaxBytes, limit : Limits \cup {Unlimited}]
=============================================================================
