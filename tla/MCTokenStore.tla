---------------------------- MODULE MCTokenStore ----------------------------
\* Model checking of TokenStore on a small instance.
EXTENDS TokenStore

CONSTANTS t1, t2, t3

MCTasks3 == {t1, t2, t3}
=============================================================================
