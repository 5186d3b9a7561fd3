-------------------------- MODULE RequestExecutor --------------------------
(***************************************************************************)
(* The life of one ServiceNow call, from the tool that makes it to the      *)
(* answer the tool gives: oauth/request_executor.py (auth headers, request, *)
(* one retry after a 401), http_layer/request_dispatcher.py (reads with a   *)
(* deadline, writes that raise) and the write wrappers of the KB and VTB    *)
(* tools, on top of TokenStore.  Every task makes one call.                 *)
(*                                                                          *)
(* Kinds of call: a read (make_nws_request, GET), a KB write (under its own *)
(* deadline), a VTB write (under none) and test_connection (under none).    *)
(*                                                                          *)
(* A request that was sent is the server's to serve: a deadline cancels the *)
(* call, not what the server does with it.                                  *)
(***************************************************************************)
EXTENDS TokenStore, FiniteSets

CONSTANTS
    Kinds,       \* the kinds of call the tasks make
    MaxRevoked   \* bound: how many tokens the server withdraws early

Reads     == {"read", "test"}
Writes    == {"kbWrite", "vtbWrite"}
Deadlined == {"read", "kbWrite"}   \* called inside an anyio.fail_after

ASSUME KindsAssumption == Kinds \subseteq Reads \cup Writes
ASSUME RevokedAssumption == MaxRevoked \in Nat

VARIABLES
    kind,     \* what each task calls
    stage,    \* how far the call is
    using,    \* the token of the request on the wire
    wire,     \* the request on the wire, and what the server answered
    mark,     \* the tokens minted when the call was refused with a 401
    answer,   \* what the tool answers
    applied,  \* how often the server has carried out the task's write
    revoked,  \* tokens the server has withdrawn
    refused   \* tokens the server has refused with a 401

callVars == <<kind, stage, using, wire, mark, answer>>
siteVars == <<applied, revoked, refused>>
vars == <<storeVars, callVars, siteVars>>

InRequest == {"request", "retry"}
Stages    == {"ready", "headers", "renew", "done"} \cup InRequest
WireStates == {"none", "sent", "ok", "401", "error"}
Answers == {"pending",
            "record",    \* the record of the response
            "noData",    \* None: for a write, "successful but no data returned"
            "denied",    \* the message for a 401 (writes)
            "failed"}    \* any other error message (writes)

\* What the calls keep, beside the store.
CallTypeOK ==
    /\ kind \in [Tasks -> Kinds]
    /\ stage \in [Tasks -> Stages]
    /\ using \in [Tasks -> Tokens \cup {NoToken}]
    /\ wire \in [Tasks -> WireStates]
    /\ mark \in [Tasks -> 0..MaxTokens]
    /\ answer \in [Tasks -> Answers]
    /\ applied \in [Tasks -> Nat]
    /\ revoked \in SUBSET Tokens /\ refused \in SUBSET Tokens

TypeOK == StoreTypeOK /\ CallTypeOK

Init ==
    /\ StoreInit
    /\ kind \in [Tasks -> Kinds]
    /\ stage = [t \in Tasks |-> "ready"]
    /\ using = [t \in Tasks |-> NoToken]
    /\ wire = [t \in Tasks |-> "none"]
    /\ mark = [t \in Tasks |-> 0]
    /\ answer = [t \in Tasks |-> "pending"]
    /\ applied = [t \in Tasks |-> 0]
    /\ revoked = {} /\ refused = {}

-----------------------------------------------------------------------------
\* The call is over.  Reads turn every failure into None.
Finish(t, how) ==
    /\ stage' = [stage EXCEPT ![t] = "done"]
    /\ answer' = [answer EXCEPT ![t] =
          IF kind[t] \in Reads /\ how # "record" THEN "noData" ELSE how]
    /\ UNCHANGED <<kind, using, wire, mark>>

\* The call goes on with the primed state of the store: still inside it (at
\* stage s), with a token (the request is sent), or with an exception.
Continue(t, s) ==
    \/ /\ pc'[t] # "idle"
       /\ stage' = [stage EXCEPT ![t] = s]
       /\ UNCHANGED <<kind, using, wire, answer>>
    \/ /\ pc'[t] = "idle" /\ ret'[t] # NoToken
       /\ stage' = [stage EXCEPT ![t] = IF s = "headers" THEN "request" ELSE "retry"]
       /\ using' = [using EXCEPT ![t] = ret'[t]]
       /\ wire' = [wire EXCEPT ![t] = "sent"]
       /\ UNCHANGED <<kind, answer>>
    \/ /\ pc'[t] = "idle" /\ ret'[t] = NoToken
       /\ stage' = [stage EXCEPT ![t] = "done"]
       /\ answer' = [answer EXCEPT ![t] = IF kind[t] \in Reads THEN "noData" ELSE "failed"]
       /\ UNCHANGED <<kind, using, wire>>

\* make_authenticated_request starts with get_auth_headers.
Start(t) ==
    /\ stage[t] = "ready"
    /\ GetToken(t)
    /\ Continue(t, "headers")
    /\ UNCHANGED <<mark, siteVars>>

\* The task runs on inside the store.
StoreStep(t) ==
    /\ stage[t] \in {"headers", "renew"}
    /\ Acquire(t) \/ FetchEnds(t)
    /\ Continue(t, stage[t])
    /\ UNCHANGED <<mark, siteVars>>

UnauthorizedOrError(t) ==   \* slip: any error status is worth a retry
    /\ stage[t] = "request" /\ wire[t] \in {"401", "error"}
    /\ mark' = [mark EXCEPT ![t] = minted]
    /\ RenewToken(t)
    /\ Continue(t, "renew")
    /\ UNCHANGED siteVars

\* The first 401: clear, get_auth_headers, and the request once more.
Unauthorized(t) ==
    /\ stage[t] = "request" /\ wire[t] = "401"
    /\ mark' = [mark EXCEPT ![t] = minted]
    /\ RenewToken(t)
    /\ Continue(t, "renew")
    /\ UNCHANGED siteVars

\* A second 401 is final.
UnauthorizedAgain(t) ==
    /\ stage[t] = "retry" /\ wire[t] = "401"
    /\ Finish(t, "denied")
    /\ UNCHANGED <<storeVars, siteVars>>

Succeeds(t) ==
    /\ stage[t] \in InRequest /\ wire[t] = "ok"
    /\ Finish(t, "record")
    /\ UNCHANGED <<storeVars, siteVars>>

ErrorStatusDenied(t) ==   \* slip: one message for every error status
    /\ stage[t] \in InRequest /\ wire[t] = "error"
    /\ Finish(t, "denied")
    /\ UNCHANGED <<storeVars, siteVars>>

\* Any other error status: writes re-raise it.
ErrorStatus(t) ==
    /\ stage[t] \in InRequest /\ wire[t] = "error"
    /\ Finish(t, "failed")
    /\ UNCHANGED <<storeVars, siteVars>>

\* httpx.RequestError at any moment of the request, or a body that is not
\* JSON: None, for writes as well.
Broken(t) ==
    /\ stage[t] \in InRequest
    /\ Finish(t, "noData")
    /\ UNCHANGED <<storeVars, siteVars>>

DeadlineOfFirst(t) ==   \* slip: the second request is out of the scope
    /\ kind[t] \in Deadlined
    /\ stage[t] \notin {"ready", "retry", "done"}
    /\ IF pc[t] # "idle" THEN Cancel(t) ELSE UNCHANGED storeVars
    /\ Finish(t, "failed")
    /\ UNCHANGED siteVars

\* The cancel scope of the call expires, wherever the call is.
Deadline(t) ==
    /\ kind[t] \in Deadlined
    /\ stage[t] \notin {"ready", "done"}
    /\ IF pc[t] # "idle" THEN Cancel(t) ELSE UNCHANGED storeVars
    /\ Finish(t, "failed")
    /\ UNCHANGED siteVars

-----------------------------------------------------------------------------
\* The ServiceNow instance
Accepts(k) == k \notin revoked /\ time < srvExpiry[k]

\* It serves a request on the wire, even one whose caller has given up.  An
\* error status may follow a write that was carried out.
Serve(t) ==
    /\ wire[t] = "sent"
    /\ \/ /\ Accepts(using[t])
          /\ \E w \in {"ok", "error"}, carriedOut \in BOOLEAN :
                /\ w = "ok" => carriedOut
                /\ wire' = [wire EXCEPT ![t] = w]
                /\ applied' = IF carriedOut /\ kind[t] \in Writes
                                 THEN [applied EXCEPT ![t] = @ + 1] ELSE applied
          /\ UNCHANGED refused
       \/ /\ ~Accepts(using[t])
          /\ wire' = [wire EXCEPT ![t] = "401"]
          /\ refused' = refused \cup {using[t]}
          /\ UNCHANGED applied
    /\ UNCHANGED <<storeVars, kind, stage, using, mark, answer, revoked>>

Revoke(k) ==
    /\ k <= minted /\ k \notin revoked
    /\ Cardinality(revoked) < MaxRevoked
    /\ revoked' = revoked \cup {k}
    /\ UNCHANGED <<storeVars, callVars, applied, refused>>

Environment ==
    /\ Tick \/ SetBack \/ \E t \in Tasks : Mint(t)
    /\ UNCHANGED <<callVars, siteVars>>

CallStep(t) ==
    \/ StoreStep(t)
    \/ Unauthorized(t) \/ UnauthorizedAgain(t)
    \/ Succeeds(t) \/ ErrorStatus(t)

Next ==
    \/ \E t \in Tasks : Start(t) \/ CallStep(t) \/ Broken(t) \/ Deadline(t) \/ Serve(t)
    \/ \E k \in Tokens : Revoke(k)
    \/ Environment

Spec == Init /\ [][Next]_vars

\* A task that can run on does, a fetch ends, and a deadline passes.  Nothing
\* makes the server serve a request, or a dead connection report itself.
Fairness == \A t \in Tasks : WF_vars(CallStep(t)) /\ WF_vars(Deadline(t))

FairSpec == Spec /\ Fairness

-----------------------------------------------------------------------------
(* Properties                                                               *)

\* The retry never repeats a write that was carried out.
WriteAppliedOnce == \A t \in Tasks : applied[t] <= 1

\* A retry goes out with a token minted after its 401 arrived, whatever the
\* other tasks fetch, clear or wait for in the meantime.
RetryTokenIsNew == \A t \in Tasks : stage[t] = "retry" => using[t] > mark[t]

\* An answer that carries a record means the write was carried out, and the
\* message for a 401 that it was not.
HonestAnswers ==
    \A t \in Tasks : kind[t] \in Writes =>
        /\ answer[t] = "record" => applied[t] = 1
        /\ answer[t] = "denied" => applied[t] = 0

\* Every call under a cancel scope gets its answer, though the server or the
\* connection may stay silent for ever and other tasks hold the token lock.
DeadlinedCallsEnd ==
    \A t \in Tasks : kind[t] \in Deadlined /\ stage[t] # "ready" ~> stage[t] = "done"

\* A write that the tool reports as successful was carried out: its caller is
\* told of "transport failures" (oauth/request_executor.py:47-50).
SuccessMeansApplied ==
    \A t \in Tasks : kind[t] \in Writes /\ answer[t] \in {"record", "noData"} => applied[t] = 1
=============================================================================
