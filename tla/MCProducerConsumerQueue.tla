------------------------ MODULE MCProducerConsumerQueue ------------------------
\* A pool of two workers, two tasks, and two threads that stop or cancel it:
\* onMultipleOperationCompleted and the destructor of ParallelAction.
EXTENDS ProducerConsumerQueue

CONSTANTS w1, w2, t1, t2, c1, c2

MCWorkers == {w1, w2}
MCTasks   == {t1, t2}
MCCallers == {c1, c2}
=================================================================================
