----------------------- MODULE RequestExecutorProofs -----------------------
\* Proofs about RequestExecutor, for every set of tasks, every mix of calls and
\* every bound.  They rest on the invariant of the token store and on its
\* refinement (TokenStoreProofs).
EXTENDS RequestExecutor, TokenStoreProofs

-----------------------------------------------------------------------------
(* The call is a client of the store                                        *)

\* Whatever a call does, the store sees one of its own steps or none.
LEMMA StepIsStoreStep ==
    ASSUME [Next]_vars
    PROVE  [StoreNext]_storeVars
<1>1. ASSUME NEW t \in Tasks, Start(t) \/ StoreStep(t) \/ Unauthorized(t)
      PROVE  StoreNext
    BY <1>1 DEF Start, StoreStep, Unauthorized, StoreNext, FetchEnds
<1>2. ASSUME NEW t \in Tasks, Deadline(t)
      PROVE  [StoreNext]_storeVars
    BY <1>2 DEF Deadline, StoreNext
<1>3. ASSUME NEW t \in Tasks,
             UnauthorizedAgain(t) \/ Succeeds(t) \/ ErrorStatus(t) \/ Broken(t) \/ Serve(t)
      PROVE  UNCHANGED storeVars
    BY <1>3 DEF UnauthorizedAgain, Succeeds, ErrorStatus, Broken, Serve
<1>4. CASE Environment
    BY <1>4 DEF Environment, StoreNext
<1>5. ASSUME NEW k \in Tokens, Revoke(k)
      PROVE  UNCHANGED storeVars
    BY <1>5 DEF Revoke
<1>6. CASE UNCHANGED vars
    BY <1>6 DEF vars
<1> QED
    BY <1>1, <1>2, <1>3, <1>4, <1>5, <1>6 DEF Next, CallStep

\* Under the calls of the executor, with their retries, deadlines and replies that come
\* too late, the store makes no step that get_valid_token and clear alone would not make.
THEOREM CallsRunTheStore == Spec => StoreSpec
<1>1. Init => StoreInit
    BY DEF Init
<1>2. [Next]_vars => [StoreNext]_storeVars
    BY StepIsStoreStep
<1> QED
    BY <1>1, <1>2, PTL DEF Spec, StoreSpec

\* Hence what the calls see of the store is the cell of TokenCache.
THEOREM CallsSeeTheCell == Spec => ImplementsCache
<1> QED
    BY CallsRunTheStore, StoreImplementsCache, PTL

\* So the store keeps its invariant under the calls.
LEMMA StoreInvariant == Spec => []Inv
<1>1. Init => Inv
    BY InvInit DEF Init
<1>2. Inv /\ [Next]_vars => Inv'
    BY InvStep, StepIsStoreStep
<1> QED
    BY <1>1, <1>2, PTL DEF Spec

-----------------------------------------------------------------------------
(* Type correctness                                                         *)

\* A request carries a token.
SentHasToken == \A t \in Tasks : wire[t] = "sent" => using[t] # NoToken

LEMMA SentStep ==
    ASSUME CallTypeOK, SentHasToken, [Next]_vars
    PROVE  SentHasToken'
<1>1. ASSUME NEW t \in Tasks, NEW s, Continue(t, s)
      PROVE  SentHasToken'
    BY <1>1 DEF Continue, CallTypeOK, SentHasToken
<1>2. ASSUME NEW t \in Tasks, NEW how, Finish(t, how)
      PROVE  SentHasToken'
    BY <1>2 DEF Finish, SentHasToken
<1>3. ASSUME NEW t \in Tasks, Serve(t)
      PROVE  SentHasToken'
    BY <1>3 DEF Serve, CallTypeOK, SentHasToken
<1>4. ASSUME NEW k \in Tokens, Revoke(k)
      PROVE  SentHasToken'
    BY <1>4 DEF Revoke, callVars, SentHasToken
<1>5. CASE Environment \/ UNCHANGED vars
    BY <1>5 DEF Environment, vars, callVars, SentHasToken
<1> QED
    BY <1>1, <1>2, <1>3, <1>4, <1>5
       DEF Next, CallStep, Start, StoreStep, Unauthorized, UnauthorizedAgain, Succeeds,
           ErrorStatus, Broken, Deadline

LEMMA FinishType ==
    ASSUME CallTypeOK, NEW t \in Tasks, NEW how \in Answers, Finish(t, how), UNCHANGED siteVars
    PROVE  CallTypeOK'
BY DEF CallTypeOK, Finish, Stages, Answers, siteVars

LEMMA ContinueType ==
    ASSUME CallTypeOK, StoreTypeOK', NEW t \in Tasks, NEW s \in Stages, Continue(t, s),
           mark' \in [Tasks -> 0..MaxTokens], UNCHANGED siteVars
    PROVE  CallTypeOK'
<1>1. ret'[t] \in Tokens \cup {NoToken}
    BY DEF StoreTypeOK
<1>2. kind' = kind /\ applied' = applied /\ revoked' = revoked /\ refused' = refused
    BY DEF Continue, siteVars
<1>3. stage' \in [Tasks -> Stages]
    BY DEF Continue, CallTypeOK, Stages, InRequest
<1>4. using' \in [Tasks -> Tokens \cup {NoToken}]
    BY <1>1 DEF Continue, CallTypeOK
<1>5. wire' \in [Tasks -> WireStates]
    BY DEF Continue, CallTypeOK, WireStates
<1>6. answer' \in [Tasks -> Answers]
    BY DEF Continue, CallTypeOK, Answers
<1> QED
    BY <1>2, <1>3, <1>4, <1>5, <1>6 DEF CallTypeOK

LEMMA CallTypeStep ==
    ASSUME CallTypeOK, SentHasToken, StoreTypeOK, StoreTypeOK', [Next]_vars
    PROVE  CallTypeOK'
<1>1. ASSUME NEW t \in Tasks, Start(t)
      PROVE  CallTypeOK'
    BY <1>1, ContinueType DEF Start, CallTypeOK, Stages
<1>2. ASSUME NEW t \in Tasks, StoreStep(t)
      PROVE  CallTypeOK'
    BY <1>2, ContinueType DEF StoreStep, CallTypeOK
<1>3. ASSUME NEW t \in Tasks, Unauthorized(t)
      PROVE  CallTypeOK'
    <2>1. mark' \in [Tasks -> 0..MaxTokens]
        BY <1>3 DEF Unauthorized, CallTypeOK, StoreTypeOK
    <2> QED
        BY <1>3, <2>1, ContinueType DEF Unauthorized, Stages
<1>4. ASSUME NEW t \in Tasks,
             UnauthorizedAgain(t) \/ Succeeds(t) \/ ErrorStatus(t) \/ Broken(t) \/ Deadline(t)
      PROVE  CallTypeOK'
    <2>1. \E how \in Answers : Finish(t, how)
        BY <1>4 DEF UnauthorizedAgain, Succeeds, ErrorStatus, Broken, Deadline, Answers
    <2>2. UNCHANGED siteVars
        BY <1>4 DEF UnauthorizedAgain, Succeeds, ErrorStatus, Broken, Deadline
    <2> QED
        BY <2>1, <2>2, FinishType
<1>5. ASSUME NEW t \in Tasks, Serve(t)
      PROVE  CallTypeOK'
    <2>1. UNCHANGED <<kind, stage, using, mark, answer, revoked>>
        BY <1>5 DEF Serve
    <2>2. wire' \in [Tasks -> WireStates]
        BY <1>5 DEF Serve, CallTypeOK, WireStates
    <2>3. applied' \in [Tasks -> Nat]
        BY <1>5 DEF Serve, CallTypeOK
    <2>4. refused' \in SUBSET Tokens
        <3>1. CASE Accepts(using[t])
            BY <1>5, <3>1 DEF Serve, CallTypeOK
        <3>2. CASE ~Accepts(using[t])
            BY <1>5, <3>2 DEF Serve, CallTypeOK, SentHasToken
        <3> QED
            BY <3>1, <3>2
    <2> QED
        BY <2>1, <2>2, <2>3, <2>4 DEF CallTypeOK
<1>6. ASSUME NEW k \in Tokens, Revoke(k)
      PROVE  CallTypeOK'
    BY <1>6 DEF Revoke, callVars, CallTypeOK
<1>7. CASE Environment \/ UNCHANGED vars
    BY <1>7 DEF Environment, vars, callVars, siteVars, CallTypeOK
<1> QED
    BY <1>1, <1>2, <1>3, <1>4, <1>5, <1>6, <1>7 DEF Next, CallStep

\* The types of a call and of the store under it, for every instance.
THEOREM CallTypeCorrect == Spec => []TypeOK
<1>1. Init => CallTypeOK /\ SentHasToken
    <2>1. 0 \in 0..MaxTokens
        BY TokensAssumption
    <2> QED
        BY <2>1 DEF Init, CallTypeOK, SentHasToken, Stages, WireStates, Answers
<1>2. CallTypeOK /\ SentHasToken /\ Inv /\ Inv' /\ [Next]_vars => CallTypeOK' /\ SentHasToken'
    BY CallTypeStep, SentStep DEF Inv
<1>3. Inv /\ CallTypeOK => TypeOK
    BY DEF Inv, TypeOK
<1> QED
    BY <1>1, <1>2, <1>3, StoreInvariant, PTL DEF Spec

-----------------------------------------------------------------------------
(* What an answer says of the write                                         *)

\* A request that the server has not carried out, or has refused, left no
\* trace; one that it carried out is never sent again.
CallInv ==
    \A t \in Tasks :
        /\ stage[t] \in {"ready", "headers"} => wire[t] = "none"
        /\ stage[t] = "renew" => wire[t] = "401"
        /\ wire[t] \in {"none", "sent", "401"} => applied[t] = 0
        /\ applied[t] <= 1
        /\ wire[t] = "ok" /\ kind[t] \in Writes => applied[t] = 1
        /\ answer[t] = "record" => stage[t] = "done" /\ wire[t] = "ok"
        /\ answer[t] = "denied" => stage[t] = "done" /\ wire[t] = "401"

\* The store takes over, or gives the call its token: only a call that was
\* refused, or never sent, sends a request.
LEMMA ContinueCall ==
    ASSUME CallTypeOK, CallInv, NEW t \in Tasks, NEW s, Continue(t, s), UNCHANGED applied,
           stage[t] # "done",
           \/ s = "headers" /\ wire[t] = "none"
           \/ s = "renew" /\ wire[t] = "401"
    PROVE  CallInv'
<1>1. kind' = kind /\ applied' = applied
    BY DEF Continue
<1>2. ASSUME NEW u \in Tasks, u # t
      PROVE  stage'[u] = stage[u] /\ wire'[u] = wire[u] /\ answer'[u] = answer[u]
    BY <1>2 DEF Continue, CallTypeOK
<1>3. CASE /\ stage' = [stage EXCEPT ![t] = s]
           /\ UNCHANGED <<wire, answer>>
    BY <1>1, <1>2, <1>3 DEF CallInv, CallTypeOK
<1>4. CASE /\ \E r \in InRequest : stage' = [stage EXCEPT ![t] = r]
           /\ wire' = [wire EXCEPT ![t] = "sent"]
           /\ UNCHANGED answer
    BY <1>1, <1>2, <1>4 DEF CallInv, CallTypeOK, InRequest
<1>5. CASE /\ stage' = [stage EXCEPT ![t] = "done"]
           /\ \E a \in {"noData", "failed"} : answer' = [answer EXCEPT ![t] = a]
           /\ UNCHANGED wire
    BY <1>1, <1>2, <1>5 DEF CallInv, CallTypeOK
<1> QED
    BY <1>3, <1>4, <1>5 DEF Continue, InRequest

\* An answer is final, and tells of the request that was on the wire.
LEMMA FinishCall ==
    ASSUME CallTypeOK, CallInv, NEW t \in Tasks, NEW how, Finish(t, how), UNCHANGED applied,
           how = "record" => wire[t] = "ok",
           how = "denied" => wire[t] = "401"
    PROVE  CallInv'
<1>1. /\ UNCHANGED <<kind, wire, applied>>
      /\ stage' = [stage EXCEPT ![t] = "done"]
      /\ \E a \in {how, "noData"} : answer' = [answer EXCEPT ![t] = a]
    BY DEF Finish
<1> QED
    BY <1>1 DEF CallInv, CallTypeOK

LEMMA CallStepInv ==
    ASSUME CallTypeOK, CallInv, [Next]_vars
    PROVE  CallInv'
<1>1. ASSUME NEW t \in Tasks, Start(t)
      PROVE  CallInv'
    BY <1>1, ContinueCall DEF Start, siteVars, CallInv
<1>2. ASSUME NEW t \in Tasks, StoreStep(t)
      PROVE  CallInv'
    BY <1>2, ContinueCall DEF StoreStep, siteVars, CallInv
<1>3. ASSUME NEW t \in Tasks, Unauthorized(t)
      PROVE  CallInv'
    BY <1>3, ContinueCall DEF Unauthorized, siteVars
<1>4. ASSUME NEW t \in Tasks,
             UnauthorizedAgain(t) \/ Succeeds(t) \/ ErrorStatus(t) \/ Broken(t) \/ Deadline(t)
      PROVE  CallInv'
    BY <1>4, FinishCall
       DEF UnauthorizedAgain, Succeeds, ErrorStatus, Broken, Deadline, siteVars
<1>5. ASSUME NEW t \in Tasks, Serve(t)
      PROVE  CallInv'
    <2>1. /\ UNCHANGED <<kind, stage, answer>>
          /\ wire[t] = "sent" /\ applied[t] = 0
          /\ stage[t] \notin {"ready", "headers", "renew"}
          /\ answer[t] \notin {"record", "denied"}
        BY <1>5 DEF Serve, CallInv
    <2>2. /\ \E w \in {"ok", "error", "401"} : wire' = [wire EXCEPT ![t] = w]
          /\ applied' \in {applied, [applied EXCEPT ![t] = @ + 1]}
        BY <1>5 DEF Serve
    <2>3. applied'[t] \in {0, 1} /\ \A u \in Tasks : u # t => applied'[u] = applied[u]
        BY <2>1, <2>2 DEF CallTypeOK
    <2>4. /\ wire'[t] \in {"ok", "error", "401"}
          /\ wire'[t] = "401" => applied'[t] = 0
          /\ wire'[t] = "ok" /\ kind[t] \in Writes => applied'[t] = 1
        BY <1>5, <2>1 DEF Serve, CallTypeOK
    <2>5. \A u \in Tasks : u # t => wire'[u] = wire[u]
        BY <2>2 DEF CallTypeOK
    <2> QED
        BY <2>1, <2>3, <2>4, <2>5 DEF CallInv
<1>6. ASSUME NEW k \in Tokens, Revoke(k)
      PROVE  CallInv'
    BY <1>6 DEF Revoke, callVars, CallInv
<1>7. CASE Environment \/ UNCHANGED vars
    BY <1>7 DEF Environment, vars, callVars, siteVars, CallInv
<1> QED
    BY <1>1, <1>2, <1>3, <1>4, <1>5, <1>6, <1>7 DEF Next, CallStep

LEMMA CallInvHolds == Spec => []CallInv
<1>1. Init => CallInv
    BY DEF Init, CallInv
<1>2. TypeOK /\ CallInv /\ [Next]_vars => CallInv'
    BY CallStepInv DEF TypeOK
<1> QED
    BY <1>1, <1>2, CallTypeCorrect, PTL DEF Spec

\* The retry after a 401 never repeats a write that was carried out, whatever
\* the server answers, late or twice, and however many calls share the token.
THEOREM WritesAppliedOnce == Spec => []WriteAppliedOnce
<1>1. CallInv => WriteAppliedOnce
    BY DEF CallInv, WriteAppliedOnce
<1> QED
    BY <1>1, CallInvHolds, PTL

\* An answer that carries a record means one applied write, the message for a
\* 401 none, for every interleaving of calls, deadlines and replies.
THEOREM AnswersAreHonest == Spec => []HonestAnswers
<1>1. CallInv => HonestAnswers
    BY DEF CallInv, HonestAnswers
<1> QED
    BY <1>1, CallInvHolds, PTL

-----------------------------------------------------------------------------
(* The token of the retry                                                   *)

\* No token that the call t could still get is one it was refused with.
NewFor(t, k) == k = NoToken \/ k > mark[t]

\* After clear, what is in the cache or on its way was minted after the 401.
RenewInv ==
    \A t \in Tasks :
        /\ mark[t] <= minted
        /\ stage[t] = "retry" => using[t] > mark[t]
        /\ stage[t] = "renew" /\ pc[t] = "fetching" => NewFor(t, grant[t])
        /\ stage[t] = "renew" /\ pc[t] = "waitGet" =>
              NewFor(t, token) /\ \A u \in Tasks : NewFor(t, grant[u])

\* Calls that stand still keep the invariant when the cell and the replies
\* only lose tokens, or gain one that is new for all who wait for it.
LEMMA OthersRenew ==
    ASSUME RenewInv, NEW t \in Tasks, NEW u \in Tasks, u # t,
           stage'[u] = stage[u], using'[u] = using[u], mark'[u] = mark[u], pc'[u] = pc[u],
           minted' = minted, grant'[u] = grant[u],
           grant'[t] \in {grant[t], NoToken},
           \A v \in Tasks : v # t => grant'[v] = grant[v],
           token' \in {token, NoToken, grant[t]}
    PROVE  /\ mark'[u] <= minted'
           /\ stage'[u] = "retry" => using'[u] > mark'[u]
           /\ stage'[u] = "renew" /\ pc'[u] = "fetching" => NewFor(u, grant[u])'
           /\ stage'[u] = "renew" /\ pc'[u] = "waitGet" =>
                 NewFor(u, token)' /\ \A v \in Tasks : NewFor(u, grant[v])'
<1>1. /\ mark'[u] <= minted'
      /\ stage'[u] = "retry" => using'[u] > mark'[u]
      /\ stage'[u] = "renew" /\ pc'[u] = "fetching" => NewFor(u, grant[u])'
    BY DEF RenewInv, NewFor
<1>2. ASSUME stage'[u] = "renew", pc'[u] = "waitGet"
      PROVE  NewFor(u, token)' /\ \A v \in Tasks : NewFor(u, grant[v])'
    <2>1. NewFor(u, token) /\ \A v \in Tasks : NewFor(u, grant[v])
        BY <1>2 DEF RenewInv
    <2>2. NewFor(u, token)'
        BY <2>1 DEF NewFor
    <2>3. ASSUME NEW v \in Tasks
          PROVE  NewFor(u, grant[v])'
        BY <2>1, <2>3 DEF NewFor
    <2> QED
        BY <2>2, <2>3
<1> QED
    BY <1>1, <1>2

\* What the call has to fear when it moves on inside the store.
RenewOK(t) ==
    /\ mark[t] <= minted
    /\ pc[t] = "fetching" => NewFor(t, grant[t])
    /\ pc[t] = "waitGet" => NewFor(t, token) /\ \A u \in Tasks : NewFor(t, grant[u])
    /\ ret[t] # NoToken => ret[t] > mark[t]

\* A call that renews its token keeps the invariant if its step is sound.
LEMMA ContinueRenew ==
    ASSUME CallTypeOK, RenewInv, NEW t \in Tasks, NEW s, Continue(t, s),
           s = "headers" \/ (s = "renew" /\ RenewOK(t)'),
           mark'[t] <= minted', minted' = minted,
           \A u \in Tasks : u # t => pc'[u] = pc[u] /\ grant'[u] = grant[u] /\ mark'[u] = mark[u],
           grant'[t] \in {grant[t], NoToken},
           token' \in {token, NoToken, grant[t]}
    PROVE  RenewInv'
<1>1. ASSUME NEW u \in Tasks, u # t
      PROVE  stage'[u] = stage[u] /\ using'[u] = using[u]
    BY <1>1 DEF Continue, CallTypeOK
<1>2. CASE s = "headers"
    <2>1. stage'[t] \notin {"retry", "renew"}
        BY <1>2 DEF Continue, CallTypeOK
    <2> QED
        BY <1>1, <2>1, OthersRenew DEF RenewInv
<1>3. CASE s = "renew" /\ RenewOK(t)'
    <2>1. stage'[t] = "retry" => using'[t] = ret'[t] /\ ret'[t] # NoToken
        BY <1>3 DEF Continue, CallTypeOK
    <2>2. stage'[t] = "retry" => using'[t] > mark'[t]
        BY <1>3, <2>1 DEF RenewOK
    <2> QED
        BY <1>1, <1>3, <2>2, OthersRenew DEF RenewInv, RenewOK
<1> QED
    BY <1>2, <1>3

\* The token cell under a step of task t that holds or takes the lock.
LEMMA OtherTasks ==
    ASSUME Inv, NEW t \in Tasks,
           \/ GetToken(t) \/ RenewToken(t) \/ Acquire(t)
           \/ FetchEnds(t) \/ Cancel(t)
    PROVE  /\ minted' = minted
           /\ grant' = grant \/ grant' = [grant EXCEPT ![t] = NoToken]
           /\ \A u \in Tasks : u # t => pc'[u] = pc[u] /\ grant'[u] = grant[u]
           /\ grant'[t] \in {grant[t], NoToken}
           /\ token' \in {token, NoToken, grant[t]}
<1> DEFINE Touched ==
        /\ minted' = minted
        /\ grant' = grant \/ grant' = [grant EXCEPT ![t] = NoToken]
        /\ \E p \in Waiting \cup {"idle", "fetching"} : pc' = [pc EXCEPT ![t] = p]
        /\ token' \in {token, NoToken, grant[t]}
<1>1. Touched
    <2>1. ASSUME NEW queue, GetUnderLock(t, queue)
          PROVE  Touched
        BY <2>1 DEF GetUnderLock, StartFetch, cacheVars, serverVars, Waiting
    <2>2. ASSUME NEW queue, ClearUnderLock(t, queue)
          PROVE  Touched
        BY <2>2 DEF ClearUnderLock, StartFetch, serverVars, Waiting
    <2>3. ASSUME NEW where \in Waiting, Enqueue(t, where)
          PROVE  Touched
        BY <2>3 DEF Enqueue, cacheVars, serverVars
    <2>4. ASSUME FetchEnds(t) \/ Cancel(t)
          PROVE  Touched
        BY <2>4 DEF FetchEnds, FetchReturns, FetchMalformed, FetchFails, Cancel, Leave,
                    cacheVars, serverVars, Waiting
    <2> QED
        BY <2>1, <2>2, <2>3, <2>4 DEF GetToken, RenewToken, Acquire, Waiting
<1> QED
    BY <1>1 DEF Inv, StoreTypeOK

\* While nobody fetches, no reply is on its way.
LEMMA FreeLockNoGrants ==
    ASSUME Inv, owner = NoTask
    PROVE  \A u \in Tasks : pc[u] # "fetching" /\ grant[u] = NoToken
BY NoTaskAssumption DEF Inv, LockHeldAcrossFetch, FetchInv

\* The cached token serves a renewing call only when it is new; else it fetches.
LEMMA GetRenews ==
    ASSUME Inv, owner = NoTask, NEW t \in Tasks, NEW queue, GetUnderLock(t, queue),
           mark[t] <= minted, mark' = mark, NewFor(t, token)
    PROVE  RenewOK(t)'
<1>1. grant'[t] = NoToken /\ minted' = minted
    BY FreeLockNoGrants DEF GetUnderLock, serverVars
<1>2. CASE Usable
    <2>1. pc'[t] = "idle" /\ ret'[t] = token
        BY <1>2 DEF GetUnderLock, Inv, StoreTypeOK
    <2> QED
        BY <1>1, <2>1 DEF RenewOK, NewFor
<1>3. CASE ~Usable
    <2>1. pc'[t] = "fetching" /\ ret'[t] = NoToken
        BY <1>3 DEF GetUnderLock, StartFetch, Inv, StoreTypeOK
    <2> QED
        BY <1>1, <2>1 DEF RenewOK, NewFor
<1> QED
    BY <1>2, <1>3

\* clear leaves nothing behind that an older call could pick up.
LEMMA ClearRenews ==
    ASSUME Inv, owner = NoTask, NEW t \in Tasks, NEW queue, ClearUnderLock(t, queue),
           mark'[t] <= minted
    PROVE  RenewOK(t)'
<1>1. UNCHANGED <<grant, minted>> /\ token' = NoToken
    BY DEF ClearUnderLock, serverVars
<1>2. ret'[t] = NoToken
    BY DEF ClearUnderLock, Inv, StoreTypeOK
<1>3. \A u \in Tasks : grant'[u] = NoToken
    BY <1>1, FreeLockNoGrants
<1> QED
    BY <1>1, <1>2, <1>3 DEF RenewOK, NewFor

\* A call that leaves the store has the token of its own reply, or none.
LEMMA LeaveRenews ==
    ASSUME Inv, NEW t \in Tasks, FetchEnds(t), mark' = mark, mark[t] <= minted,
           NewFor(t, grant[t])
    PROVE  RenewOK(t)'
<1>1. minted' = minted /\ pc'[t] = "idle" /\ ret'[t] \in {grant[t], NoToken}
    BY DEF FetchEnds, FetchReturns, FetchMalformed, FetchFails, Leave, serverVars,
           Inv, StoreTypeOK
<1> QED
    BY <1>1 DEF RenewOK, NewFor

LEMMA RenewStep ==
    ASSUME Inv, CallTypeOK, RenewInv, [Next]_vars
    PROVE  RenewInv'
<1>1. ASSUME NEW t \in Tasks
      PROVE  mark[t] <= minted
    BY <1>1 DEF RenewInv
<1>2. ASSUME NEW t \in Tasks, Start(t)
      PROVE  RenewInv'
    <2>1. GetToken(t) /\ Continue(t, "headers") /\ mark' = mark
        BY <1>2 DEF Start
    <2> QED
        BY <1>1, <2>1, OtherTasks, ContinueRenew
<1>3. ASSUME NEW t \in Tasks, StoreStep(t)
      PROVE  RenewInv'
    <2>1. /\ Acquire(t) \/ FetchEnds(t)
          /\ stage[t] \in {"headers", "renew"} /\ Continue(t, stage[t])
          /\ mark' = mark
        BY <1>3 DEF StoreStep
    <2>2. ASSUME stage[t] = "renew"
          PROVE  RenewOK(t)'
        <3>1. CASE Acquire(t) /\ pc[t] = "waitGet"
            BY <1>1, <2>1, <2>2, <3>1, GetRenews DEF Acquire, RenewInv
        <3>2. CASE Acquire(t) /\ pc[t] = "waitClear"
            BY <1>1, <2>1, <3>2, ClearRenews DEF Acquire
        <3>3. CASE FetchEnds(t)
            <4>1. NewFor(t, grant[t])
                BY <2>2, <3>3 DEF FetchEnds, FetchReturns, FetchMalformed, FetchFails, RenewInv
            <4> QED
                BY <1>1, <2>1, <3>3, <4>1, LeaveRenews
        <3> QED
            BY <2>1, <3>1, <3>2, <3>3 DEF Acquire
    <2>3. stage[t] = "headers" \/ (stage[t] = "renew" /\ RenewOK(t)')
        BY <2>1, <2>2
    <2>4. mark'[t] <= minted' /\ \A u \in Tasks : mark'[u] = mark[u]
        BY <1>1, <2>1, OtherTasks
    <2> QED
        BY <2>1, <2>3, <2>4, OtherTasks, ContinueRenew
<1>4. ASSUME NEW t \in Tasks, Unauthorized(t)
      PROVE  RenewInv'
    <2>1. RenewToken(t) /\ Continue(t, "renew") /\ mark' = [mark EXCEPT ![t] = minted]
        BY <1>4 DEF Unauthorized
    <2>2. mark'[t] = minted /\ \A u \in Tasks : u # t => mark'[u] = mark[u]
        BY <2>1 DEF CallTypeOK
    <2>3. minted <= minted
        BY TokenNumbers DEF Inv
    <2>4. RenewOK(t)'
        <3>1. CASE LockFree /\ ClearUnderLock(t, <<>>)
            BY <2>2, <2>3, <3>1, ClearRenews DEF LockFree
        <3>2. CASE Enqueue(t, "waitClear")
            <4>1. minted' = minted /\ pc'[t] = "waitClear" /\ ret'[t] = NoToken
                BY <3>2 DEF Enqueue, serverVars, Inv, StoreTypeOK
            <4> QED
                BY <2>2, <2>3, <4>1 DEF RenewOK
        <3> QED
            BY <2>1, <3>1, <3>2 DEF RenewToken
    <2> QED
        BY <2>1, <2>2, <2>3, <2>4, OtherTasks, ContinueRenew
<1>5. ASSUME NEW t \in Tasks, NEW how, Finish(t, how), UNCHANGED storeVars \/ Cancel(t)
      PROVE  RenewInv'
    <2>1. /\ UNCHANGED <<using, mark>>
          /\ stage'[t] = "done" /\ \A u \in Tasks : u # t => stage'[u] = stage[u]
        BY <1>5 DEF Finish, CallTypeOK
    <2>2. CASE UNCHANGED storeVars
        BY <2>1, <2>2 DEF storeVars, cacheVars, serverVars, RenewInv, NewFor
    <2>3. CASE Cancel(t)
        BY <1>1, <2>1, <2>3, OtherTasks, OthersRenew DEF RenewInv
    <2> QED
        BY <1>5, <2>2, <2>3
<1>6. ASSUME NEW t \in Tasks, Mint(t)
      PROVE  UNCHANGED callVars => RenewInv'
    <2>1. /\ UNCHANGED <<token, pc>> /\ minted' = minted + 1
          /\ grant' = [grant EXCEPT ![t] = minted + 1]
        BY <1>6 DEF Mint, cacheVars
    <2>2. \A u \in Tasks : mark[u] \in Int /\ minted \in Int
        BY DEF CallTypeOK, Inv, StoreTypeOK
    <2>3. \A u \in Tasks : minted + 1 > mark[u]
        BY <1>1, <2>2
    <2>4. \A u \in Tasks : grant'[u] \in {grant[u], minted + 1}
        BY <2>1 DEF Inv, StoreTypeOK
    <2> QED
        BY <2>1, <2>2, <2>3, <2>4 DEF RenewInv, NewFor, callVars
<1>7. ASSUME UNCHANGED <<stage, using, mark, pc, grant, token, minted>>
      PROVE  RenewInv'
    BY <1>7 DEF RenewInv, NewFor
<1>8. ASSUME NEW t \in Tasks,
             UnauthorizedAgain(t) \/ Succeeds(t) \/ ErrorStatus(t) \/ Broken(t) \/ Deadline(t)
      PROVE  RenewInv'
    BY <1>5, <1>8 DEF UnauthorizedAgain, Succeeds, ErrorStatus, Broken, Deadline
<1>9. ASSUME NEW t \in Tasks, Serve(t)
      PROVE  RenewInv'
    BY <1>7, <1>9 DEF Serve, storeVars, cacheVars, serverVars
<1>10. ASSUME NEW k \in Tokens, Revoke(k)
       PROVE  RenewInv'
    BY <1>7, <1>10 DEF Revoke, storeVars, cacheVars, serverVars, callVars
<1>11. CASE Environment
    BY <1>6, <1>7, <1>11 DEF Environment, Tick, SetBack, cacheVars, serverVars, callVars
<1>12. CASE UNCHANGED vars
    BY <1>7, <1>12 DEF vars, storeVars, cacheVars, serverVars, callVars
<1> QED
    BY <1>2, <1>3, <1>4, <1>8, <1>9, <1>10, <1>11, <1>12 DEF Next, CallStep

\* After a 401 the retry never goes out with the token that was refused, nor
\* with any other minted before the refusal, however the tasks queue for the
\* lock, fail and are cancelled between clear and the fetch.
THEOREM RetryUsesNewToken == Spec => []RetryTokenIsNew
<1>1. Init => RenewInv
    <2>1. 0 <= 0
        OBVIOUS
    <2> QED
        BY <2>1 DEF Init, StoreInit, RenewInv
<1>2. Inv /\ TypeOK /\ RenewInv /\ [Next]_vars => RenewInv'
    BY RenewStep DEF TypeOK
<1>3. RenewInv => RetryTokenIsNew
    BY DEF RenewInv, RetryTokenIsNew
<1> QED
    BY <1>1, <1>2, <1>3, StoreInvariant, CallTypeCorrect, PTL DEF Spec
=============================================================================
