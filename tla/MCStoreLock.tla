---------------------------- MODULE MCStoreLock ----------------------------
(* An instance of StoreLock for TLC: two threads of one process and one of *)
(* another.                                                                *)
EXTENDS StoreLock, TLC

CONSTANTS t1, t2, t3, pa, pb

MCProcOf == t1 :> pa @@ t2 :> pa @@ t3 :> pb
=============================================================================
