------------------------------ MODULE MCPodCache ------------------------------
(* A name whose pod is replaced, as a static pod's or a StatefulSet's is, and  *)
(* whose pods start their container three times each.                         *)
EXTENDS PodCache
=============================================================================
