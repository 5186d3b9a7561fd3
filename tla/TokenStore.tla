----------------------------- MODULE TokenStore -----------------------------
(***************************************************************************)
(* oauth/token_store.py: one OAuth access token shared by every coroutine   *)
(* of the process, behind an asyncio.Lock that is held across the refresh.  *)
(*                                                                          *)
(* A step is what one task runs between two suspensions of the event loop.  *)
(* A task enters the store in one of two ways: get_valid_token, or clear    *)
(* followed at once by get_valid_token, which is how the one caller of      *)
(* clear (RequestExecutor._retry_with_fresh_token) uses it.                 *)
(*                                                                          *)
(* asyncio.Lock is fair: a caller takes a free lock only when nobody waits, *)
(* else it joins the end of the queue, and a release wakes the first.       *)
(*                                                                          *)
(* Time is counted in units of which Buffer make the five minutes of        *)
(* TOKEN_REFRESH_BUFFER_MINUTES.  The code reads datetime.now(), the local  *)
(* wall clock, which may be set back once (the end of summer time).         *)
(***************************************************************************)
EXTENDS Integers, Sequences, SequencesExt

CONSTANTS
    Tasks,       \* the coroutines that use the store
    Buffer,      \* TOKEN_REFRESH_BUFFER_MINUTES
    Lifetimes,   \* the lives the server gives a token
    DefaultLife, \* what the code assumes when expires_in is absent (1800 s)
    BackStep,    \* by how much the wall clock may be set back, 0 for never
    MaxTime,     \* bound: the last instant of a behaviour
    MaxTokens    \* bound: how many tokens the server mints

ASSUME BufferAssumption == Buffer \in Nat
ASSUME LifeAssumption == Lifetimes \subseteq Nat /\ DefaultLife \in Nat
ASSUME ClockAssumption == BackStep \in Nat /\ MaxTime \in Nat
ASSUME TokensAssumption == MaxTokens \in Nat

NoTask  == "no task"
NoToken == 0          \* _access_token = None
NoTime  == -BackStep - 1   \* _token_expires_at = None: no time the clock shows
Tokens  == 1..MaxTokens
Absent  == -2         \* the reply has no expires_in
Malformed == -3       \* the reply has one that is no number, as null

ASSUME NoTaskAssumption == NoTask \notin Tasks

VARIABLES
    time,      \* real time
    back,      \* how far the wall clock lags real time
    token,     \* _access_token
    expiresAt, \* _token_expires_at, in wall clock time
    owner,     \* the task that holds _token_lock
    waiters,   \* the tasks queued on _token_lock, first come first
    pc,        \* where each task is in the store
    ret,       \* what the task's last call returned, NoToken if it raised
    started,   \* the local `now' of a refresh, read before the fetch
    grant,     \* the token in the reply to the task's fetch, if minted
    minted,    \* tokens the server has minted so far
    srvExpiry, \* when the server stops accepting a token, in real time
    told       \* the expires_in of the reply that carries the token

cacheVars  == <<token, expiresAt>>
lockVars   == <<owner, waiters>>
clockVars  == <<time, back>>
serverVars == <<minted, srvExpiry, told>>
storeVars  == <<clockVars, cacheVars, lockVars, pc, ret, started, grant, serverVars>>

Waiting == {"waitGet", "waitClear"}   \* where a task queues on the lock

StoreTypeOK ==
    /\ time \in 0..MaxTime
    /\ back \in {0, BackStep}
    /\ token \in Tokens \cup {NoToken}
    /\ expiresAt \in Int /\ expiresAt >= NoTime
    /\ owner \in Tasks \cup {NoTask}
    /\ waiters \in Seq(Tasks)
    /\ pc \in [Tasks -> Waiting \cup {"idle", "fetching"}]
    /\ ret \in [Tasks -> Tokens \cup {NoToken}]
    /\ started \in [Tasks -> Int] /\ \A t \in Tasks : started[t] >= -BackStep
    /\ grant \in [Tasks -> Tokens \cup {NoToken}]
    /\ minted \in 0..MaxTokens
    /\ srvExpiry \in [Tokens -> Nat]
    /\ told \in [Tokens -> Nat \cup {Absent, Malformed}]

StoreInit ==
    /\ time = 0 /\ back = 0
    /\ token = NoToken /\ expiresAt = NoTime
    /\ owner = NoTask /\ waiters = <<>>
    /\ pc = [t \in Tasks |-> "idle"]
    /\ ret = [t \in Tasks |-> NoToken]
    /\ started = [t \in Tasks |-> 0]
    /\ grant = [t \in Tasks |-> NoToken]
    /\ minted = 0
    /\ srvExpiry = [k \in Tokens |-> 0]
    /\ told = [k \in Tokens |-> Absent]

-----------------------------------------------------------------------------
\* datetime.now()
WallNow == time - back

\* The cache check of get_valid_token.
Usable == /\ token # NoToken
          /\ expiresAt # NoTime
          /\ WallNow < expiresAt - Buffer

\* An acquire that does not suspend: Lock.acquire's fast path.
LockFree == owner = NoTask /\ waiters = <<>>

\* The refresh branch of get_valid_token up to the await of the fetch, which it
\* makes with the lock held.
StartFetchUnlocked(t) ==   \* slip: the lock guards only the check of the cache
    /\ owner' = NoTask
    /\ pc' = [pc EXCEPT ![t] = "fetching"]
    /\ started' = [started EXCEPT ![t] = WallNow]

StartFetch(t) ==
    /\ owner' = t
    /\ pc' = [pc EXCEPT ![t] = "fetching"]
    /\ started' = [started EXCEPT ![t] = WallNow]

\* get_valid_token from the acquired lock to its return or its fetch; the
\* tasks still queued are `queue'.
GetUnderLock(t, queue) ==
    /\ waiters' = queue
    /\ \/ /\ Usable
          /\ owner' = NoTask
          /\ pc' = [pc EXCEPT ![t] = "idle"]
          /\ ret' = [ret EXCEPT ![t] = token]
          /\ UNCHANGED <<started, grant>>
       \/ /\ ~Usable
          /\ StartFetch(t)
          /\ ret' = [ret EXCEPT ![t] = NoToken]
          /\ UNCHANGED grant
    /\ UNCHANGED <<cacheVars, clockVars, serverVars>>

\* clear under the acquired lock, and the get_valid_token that follows it: the
\* cache is empty, so it fetches at once unless others queue for the lock.
ClearUnderLock(t, queue) ==
    /\ token' = NoToken
    /\ expiresAt' = NoTime
    /\ \/ /\ queue = <<>>
          /\ waiters' = queue
          /\ StartFetch(t)
       \/ /\ queue # <<>>
          /\ owner' = NoTask
          /\ waiters' = Append(queue, t)
          /\ pc' = [pc EXCEPT ![t] = "waitGet"]
          /\ UNCHANGED started
    /\ ret' = [ret EXCEPT ![t] = NoToken]
    /\ UNCHANGED <<grant, clockVars, serverVars>>

Enqueue(t, where) ==
    /\ waiters' = Append(waiters, t)
    /\ pc' = [pc EXCEPT ![t] = where]
    /\ ret' = [ret EXCEPT ![t] = NoToken]
    /\ UNCHANGED <<clockVars, cacheVars, owner, started, grant, serverVars>>

\* get_valid_token is called.
GetToken(t) ==
    /\ pc[t] = "idle"
    /\ \/ LockFree /\ GetUnderLock(t, <<>>)
       \/ ~LockFree /\ Enqueue(t, "waitGet")

RenewTokenUnlocked(t) ==   \* slip: clear does not take the lock
    /\ pc[t] = "idle"
    /\ \/ LockFree /\ ClearUnderLock(t, <<>>)
       \/ /\ ~LockFree
          /\ token' = NoToken /\ expiresAt' = NoTime
          /\ waiters' = Append(waiters, t)
          /\ pc' = [pc EXCEPT ![t] = "waitGet"]
          /\ ret' = [ret EXCEPT ![t] = NoToken]
          /\ UNCHANGED <<clockVars, owner, started, grant, serverVars>>

\* clear, then get_valid_token, are called.
RenewToken(t) ==
    /\ pc[t] = "idle"
    /\ \/ LockFree /\ ClearUnderLock(t, <<>>)
       \/ ~LockFree /\ Enqueue(t, "waitClear")

\* The first of the queue runs again after a release.
Acquire(t) ==
    /\ owner = NoTask
    /\ waiters # <<>> /\ t = Head(waiters)
    /\ \/ pc[t] = "waitGet" /\ GetUnderLock(t, Tail(waiters))
       \/ pc[t] = "waitClear" /\ ClearUnderLock(t, Tail(waiters))

\* The token endpoint answers the POST: the life it grants starts now.
Mint(t) ==
    /\ pc[t] = "fetching" /\ grant[t] = NoToken
    /\ minted < MaxTokens
    /\ minted' = minted + 1
    /\ grant' = [grant EXCEPT ![t] = minted + 1]
    /\ \E life \in Lifetimes :
          /\ srvExpiry' = [srvExpiry EXCEPT ![minted + 1] = time + life]
          /\ \E says \in {life, Absent, Malformed} : told' = [told EXCEPT ![minted + 1] = says]
    /\ UNCHANGED <<clockVars, cacheVars, lockVars, pc, ret, started>>

LeaveLocked(t, k) ==   \* slip: only a return releases the lock
    /\ owner' = IF owner = t /\ k # NoToken THEN NoTask ELSE owner
    /\ pc' = [pc EXCEPT ![t] = "idle"]
    /\ ret' = [ret EXCEPT ![t] = k]
    /\ started' = [started EXCEPT ![t] = 0]
    /\ grant' = [grant EXCEPT ![t] = NoToken]
    /\ UNCHANGED <<clockVars, serverVars>>

\* The task leaves the store with token k or an exception, the lock released.
Leave(t, k) ==
    /\ owner' = IF owner = t THEN NoTask ELSE owner
    /\ pc' = [pc EXCEPT ![t] = "idle"]
    /\ ret' = [ret EXCEPT ![t] = k]
    /\ started' = [started EXCEPT ![t] = 0]
    /\ grant' = [grant EXCEPT ![t] = NoToken]
    /\ UNCHANGED <<clockVars, serverVars>>

\* token_data.get("expires_in", 1800)
ExpiresInNoDefault(k) == told[k]   \* slip: no default
ExpiresIn(k) == IF told[k] = Absent THEN DefaultLife ELSE told[k]

\* expires_in counts from the `now' read before the fetch.
ExpiryFromReply(t) == WallNow + ExpiresIn(grant[t])   \* slip: from the reply
Expiry(t) == started[t] + ExpiresIn(grant[t])

\* The reply arrives.
FetchReturns(t) ==
    /\ pc[t] = "fetching" /\ grant[t] # NoToken
    /\ told[grant[t]] # Malformed
    /\ token' = grant[t]
    /\ expiresAt' = Expiry(t)
    /\ Leave(t, grant[t])
    /\ UNCHANGED waiters

\* A malformed expires_in raises between the two assignments of the cache.
FetchMalformed(t) ==
    /\ pc[t] = "fetching" /\ grant[t] # NoToken
    /\ told[grant[t]] = Malformed
    /\ token' = grant[t]
    /\ Leave(t, NoToken)
    /\ UNCHANGED <<expiresAt, waiters>>

\* The POST is refused, breaks, or runs into its own timeout of 30 s.
FetchFails(t) ==
    /\ pc[t] = "fetching"
    /\ Leave(t, NoToken)
    /\ UNCHANGED <<cacheVars, waiters>>

\* A deadline of the caller (anyio.fail_after) cancels it inside the store.
Cancel(t) ==
    /\ \/ /\ pc[t] \in Waiting
          /\ \E i \in DOMAIN waiters :
                waiters[i] = t /\ waiters' = RemoveAt(waiters, i)
       \/ pc[t] = "fetching" /\ UNCHANGED waiters
    /\ Leave(t, NoToken)
    /\ UNCHANGED cacheVars

Tick ==
    /\ time < MaxTime
    /\ time' = time + 1
    /\ UNCHANGED <<back, cacheVars, lockVars, pc, ret, started, grant, serverVars>>

SetBack ==
    /\ back # BackStep
    /\ back' = BackStep
    /\ UNCHANGED <<time, cacheVars, lockVars, pc, ret, started, grant, serverVars>>

FetchEnds(t) == FetchReturns(t) \/ FetchMalformed(t) \/ FetchFails(t)

StoreNext ==
    \/ Tick
    \/ SetBack
    \/ \E t \in Tasks :
          \/ GetToken(t) \/ RenewToken(t)
          \/ Acquire(t)
          \/ Mint(t)
          \/ FetchReturns(t) \/ FetchMalformed(t) \/ FetchFails(t)
          \/ Cancel(t)

StoreSpec == StoreInit /\ [][StoreNext]_storeVars

\* The event loop runs a task that can run, and a fetch ends: httpx gives the
\* POST a timeout of its own.  Nothing makes the server answer, or a deadline
\* pass.
StoreFairness ==
    \A t \in Tasks : WF_storeVars(Acquire(t)) /\ WF_storeVars(FetchEnds(t))

FairStoreSpec == StoreSpec /\ StoreFairness

-----------------------------------------------------------------------------
(* Properties                                                               *)

\* The lock is held exactly across a fetch: at most one token request of this
\* process is in flight, and no return, error or cancellation leaves the lock
\* held (`async with self._token_lock' in get_valid_token).
LockHeldAcrossFetch == \A t \in Tasks : pc[t] = "fetching" <=> owner = t

\* What the server said of a token's life holds of the cache: a cached token
\* that get_valid_token would return has more than the refresh buffer left on
\* the server, however long its fetch took, and none is returned whose reply
\* was malformed, though its expiry then is that of the token before it.  (As
\* long as the wall clock has not been set back.)
Outlived(k) == told[k] >= 0 /\ srvExpiry[k] - time <= Buffer
CacheHitIsFresh == back = 0 /\ Usable => ~Outlived(token) /\ told[token] # Malformed

\* The cache never goes back to a token older than one it has held: a slow,
\* failed or cancelled fetch never overwrites a later one.
CacheMovesForward ==
    [][token' # token /\ token' # NoToken =>
         /\ token' > token
         /\ \A t \in Tasks : token' > ret[t]]_storeVars

\* The store is the simple cell of TokenCache to its callers: whatever the queue,
\* the clocks, failures and cancellations do, only the lock's owner refills it,
\* with the newest token granted, and nobody empties or serves it meanwhile
\* (get_valid_token and clear as their callers see them).
Cache == INSTANCE TokenCache WITH
    cell <- token, holder <- owner, newest <- minted, given <- ret
ImplementsCache == Cache!Spec

\* A task that waits for the lock or for its fetch leaves the store: a fetch
\* that fails or is cancelled passes the lock on.
EveryCallerLeaves ==
    \A t \in Tasks : pc[t] # "idle" ~> pc[t] = "idle"
=============================================================================
