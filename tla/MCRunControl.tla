--------------------------- MODULE MCRunControl ---------------------------
(* Bounds for checking RunControl with TLC. *)
EXTENDS RunControl, FiniteSets, TLC

CONSTANT MaxBusy    \* how many request and worker threads may overlap

\* Runs are interchangeable, and so are pending ids; no configuration that
\* checks a liveness property uses the symmetry.
Symmetry == Permutations(Run) \cup Permutations(PendingId)

Busy == { r \in Run : pc[r] \in RequestPcs \cup WorkerPcs }

\* With three runs, one is the earlier attempt that the other two continue or
\* resume; the configuration with two runs has them overlap from the start.
BusyBound ==
  Cardinality(Busy) <= IF \E r \in Run : pc[r] = "done" THEN MaxBusy ELSE 1

\* Workers are interleaved with request threads, not with each other (the
\* configurations with two runs do that).
OneWorker == Cardinality({ r \in Run : pc[r] \in WorkerPcs }) <= 1
=============================================================================
