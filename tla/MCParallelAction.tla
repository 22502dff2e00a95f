---------------------------- MODULE MCParallelAction ----------------------------
\* Three sub-operations, two on one connection and one on another; queues of up to
\* two workers, or of none.
EXTENDS ParallelAction

CONSTANTS c1, c2

MCConn == <<c1, c1, c2>>
=================================================================================
