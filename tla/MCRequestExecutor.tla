------------------------- MODULE MCRequestExecutor -------------------------
\* Model checking of RequestExecutor on small instances.
EXTENDS RequestExecutor

CONSTANTS t1, t2

MCTasks1 == {t1}
MCTasks2 == {t1, t2}
=============================================================================
