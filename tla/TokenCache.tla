----------------------------- MODULE TokenCache -----------------------------
(***************************************************************************)
(* What oauth/token_store.py promises its callers, without the lock's queue,*)
(* the clocks and the token request itself: a cell that holds one token, is  *)
(* served from, emptied, and refilled by one task at a time, and then only   *)
(* with the newest token granted, which nobody has been given before.        *)
(* TokenStore implements it (TokenStore!ImplementsCache).                    *)
(***************************************************************************)
EXTENDS Naturals

CONSTANTS Tasks, NoTask

NoToken == 0

VARIABLES
    cell,    \* the cached token
    holder,  \* the task that is refilling the cell, or NoTask
    newest,  \* the tokens granted so far are 1..newest
    given    \* what each task was given by its last call

vars == <<cell, holder, newest, given>>

Init ==
    /\ cell = NoToken
    /\ holder = NoTask
    /\ newest = 0
    /\ given = [t \in Tasks |-> NoToken]

Give(t, k) == given' = [given EXCEPT ![t] = k]

\* A task is waiting, or its call has failed: it has no token.
Ask(t) == Give(t, NoToken) /\ UNCHANGED <<cell, holder, newest>>

\* A cached token is served, never while the cell is being refilled.
Serve(t) ==
    /\ holder = NoTask /\ cell # NoToken
    /\ Give(t, cell)
    /\ UNCHANGED <<cell, holder, newest>>

\* The cell is emptied, never under a task that refills it.
Drop(t) ==
    /\ holder = NoTask
    /\ cell' = NoToken
    /\ Give(t, NoToken)
    /\ holder' \in {NoTask, t}
    /\ UNCHANGED newest

BeginRefill(t) ==
    /\ holder = NoTask
    /\ holder' = t
    /\ Give(t, NoToken)
    /\ UNCHANGED <<cell, newest>>

Grant == newest' = newest + 1 /\ UNCHANGED <<cell, holder, given>>

\* The newest token reaches the cell; the task that brought it is given it, or,
\* when the reply was malformed, nothing.
Refill(t) ==
    /\ holder = t
    /\ newest > cell /\ \A u \in Tasks : newest > given[u]
    /\ cell' = newest
    /\ holder' = NoTask
    /\ Give(t, newest) \/ Give(t, NoToken)
    /\ UNCHANGED newest

\* The refill fails or is cancelled: the cell stays as it is.
GiveUp(t) ==
    /\ holder = t
    /\ holder' = NoTask
    /\ Give(t, NoToken)
    /\ UNCHANGED <<cell, newest>>

Next ==
    \/ Grant
    \/ \E t \in Tasks : \/ Ask(t) \/ Serve(t) \/ Drop(t) \/ BeginRefill(t)
                        \/ Refill(t) \/ GiveUp(t)

Spec == Init /\ [][Next]_vars
=============================================================================
