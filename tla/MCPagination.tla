---------------------------- MODULE MCPagination ----------------------------
\* Model checking of Pagination on small tables.
EXTENDS Pagination

MCRows == 1..6
AnyTrouble == SUBSET Trouble
=============================================================================
