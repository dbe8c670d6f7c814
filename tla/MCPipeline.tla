------------------------------ MODULE MCPipeline ------------------------------
(* More kills than the store keeps reports, and a container that can be        *)
(* sampled below its peak.                                                     *)
EXTENDS Pipeline
=============================================================================
