---------------------------- MODULE MCOraclePool ----------------------------
(* Small instances of OraclePool: a parent with threads, and a worker.       *)
EXTENDS OraclePool

CONSTANTS p1, p2, t1, t2, u1

WorkerThreads == {u1}
MCProcOf == [t \in Threads |-> IF t \in WorkerThreads THEN p2 ELSE p1]
=============================================================================
