---------------------------- MODULE MCWorkerPool ----------------------------
(* Model values and symmetry for the runs of WorkerPool.                    *)
EXTENDS WorkerPool, TLC

CONSTANTS m, p1, p2, p3, noPid

MCPids == {m, p1, p2, p3}
MCSmallPids == {m, p1, p2}
MCInherited == {p3}
MCNone == {}

\* The PIDs other than the master's and the inherited child's are alike.
Interchangeable == Permutations({p1, p2})
=============================================================================
