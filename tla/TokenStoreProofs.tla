-------------------------- MODULE TokenStoreProofs --------------------------
\* Proofs about TokenStore, for every set of tasks and every bound.
EXTENDS TokenStore, SequenceTheorems, TLAPS

-----------------------------------------------------------------------------
(* The inductive invariant                                                  *)

\* A refresh runs while the cache is of no use, and `now' is not in the future.
\* Once its reply is on the way, the token in it is the newest there is, and
\* was minted after `now'.
FetchInv ==
    \A t \in Tasks :
        /\ pc[t] # "fetching" => grant[t] = NoToken
        /\ pc[t] = "fetching" /\ back = 0 => ~Usable /\ started[t] <= time
        /\ pc[t] = "fetching" /\ grant[t] # NoToken =>
              /\ grant[t] = minted
              /\ grant[t] > token
              /\ \A u \in Tasks : grant[t] > ret[u]
              /\ back = 0 /\ told[grant[t]] >= 0 =>
                    started[t] + told[grant[t]] <= srvExpiry[grant[t]]

\* The cached expiry is no later than the server's, or has passed already.
CacheInv ==
    /\ token <= minted
    /\ \A t \in Tasks : ret[t] <= minted
    /\ token = NoToken => expiresAt = NoTime
    /\ back = 0 /\ token # NoToken /\ expiresAt # NoTime =>
          /\ told[token] >= 0 => expiresAt <= srvExpiry[token]
          /\ told[token] = Malformed => expiresAt <= time + Buffer

Inv == StoreTypeOK /\ LockHeldAcrossFetch /\ FetchInv /\ CacheInv

USE BufferAssumption, LifeAssumption, ClockAssumption, TokensAssumption, NoTaskAssumption

\* Removing a queued waiter keeps the order of the others.
LEMMA RemoveAtProperties ==
    ASSUME NEW S, NEW s \in Seq(S), NEW i \in DOMAIN s
    PROVE  /\ RemoveAt(s, i) \in Seq(S)
           /\ Len(RemoveAt(s, i)) = Len(s) - 1
           /\ \A n \in 1..(Len(s) - 1) :
                 RemoveAt(s, i)[n] = IF n < i THEN s[n] ELSE s[n + 1]
<1>1. i \in 1..Len(s) /\ Len(s) \in Nat
    BY LenProperties
<1> DEFINE front == SubSeq(s, 1, i - 1)
           rest == SubSeq(s, i + 1, Len(s))
<1>2. /\ front \in Seq(S) /\ Len(front) = i - 1
      /\ \A n \in 1..(i - 1) : front[n] = s[n]
    <2>1. CASE i = 1
        BY <1>1, <2>1, SubSeqEmpty, EmptySeq, SMT
    <2>2. CASE i > 1
        BY <1>1, <2>2, SubSeqProperties, SMT
    <2> QED
        BY <1>1, <2>1, <2>2
<1>3. /\ rest \in Seq(S) /\ Len(rest) = Len(s) - i
      /\ \A n \in 1..(Len(s) - i) : rest[n] = s[i + n]
    <2>1. CASE i = Len(s)
        BY <1>1, <2>1, SubSeqEmpty, EmptySeq, SMT
    <2>2. CASE i < Len(s)
        BY <1>1, <2>2, SubSeqProperties, SMT
    <2> QED
        BY <1>1, <2>1, <2>2
<1> HIDE DEF front, rest
<1> DEFINE joined == front \o rest
<1>4. /\ joined \in Seq(S)
      /\ Len(joined) = Len(front) + Len(rest)
      /\ \A n \in 1..(Len(front) + Len(rest)) :
            joined[n] = IF n <= Len(front) THEN front[n] ELSE rest[n - Len(front)]
    BY <1>2, <1>3, ConcatProperties
<1>5. RemoveAt(s, i) = joined
    BY DEF RemoveAt, front, rest
<1> HIDE DEF joined
<1>6. Len(joined) = Len(s) - 1
    BY <1>1, <1>2, <1>3, <1>4, SMT
<1>7. ASSUME NEW n \in 1..(Len(s) - 1)
      PROVE  joined[n] = IF n < i THEN s[n] ELSE s[n + 1]
    <2>1. CASE n < i
        BY <1>1, <1>2, <1>3, <1>4, <2>1, SMT
    <2>2. CASE ~(n < i)
        <3>1. n - (i - 1) \in 1..(Len(s) - i) /\ i + (n - (i - 1)) = n + 1
            BY <1>1, <2>2, SMT
        <3>2. joined[n] = rest[n - (i - 1)]
            BY <1>1, <1>2, <1>3, <1>4, <2>2, SMT
        <3> QED
            BY <1>3, <2>2, <3>1, <3>2
    <2> QED
        BY <2>1, <2>2
<1> QED
    BY <1>4, <1>5, <1>6, <1>7

-----------------------------------------------------------------------------
(* Type correctness                                                         *)

LEMMA GetUnderLockType ==
    ASSUME StoreTypeOK, NEW t \in Tasks, NEW queue \in Seq(Tasks), GetUnderLock(t, queue)
    PROVE  StoreTypeOK'
<1>1. WallNow \in Int /\ WallNow >= -BackStep
    BY DEF StoreTypeOK, WallNow
<1>3. QED
    <2>1. CASE Usable
        BY <2>1 DEF StoreTypeOK, GetUnderLock, cacheVars, clockVars, serverVars
    <2>2. CASE ~Usable
        <3>1. StartFetch(t) /\ ret' = [ret EXCEPT ![t] = NoToken] /\ UNCHANGED grant
            BY <2>2 DEF GetUnderLock
        <3>2. UNCHANGED <<cacheVars, clockVars, serverVars>> /\ waiters' = queue
            BY DEF GetUnderLock
        <3> QED
            BY <1>1, <3>1, <3>2 DEF StoreTypeOK, StartFetch, cacheVars, clockVars, serverVars
    <2> QED
        BY <2>1, <2>2

LEMMA ClearUnderLockType ==
    ASSUME StoreTypeOK, NEW t \in Tasks, NEW queue \in Seq(Tasks), ClearUnderLock(t, queue)
    PROVE  StoreTypeOK'
<1>1. WallNow \in Int /\ WallNow >= -BackStep
    BY DEF StoreTypeOK, WallNow
<1>2. Append(queue, t) \in Seq(Tasks)
    BY AppendProperties
<1>3. QED
    <2>1. expiresAt' \in Int /\ expiresAt' >= NoTime
        BY DEF ClearUnderLock, NoTime
    <2>2. /\ token' = NoToken /\ ret' = [ret EXCEPT ![t] = NoToken]
          /\ UNCHANGED <<grant, clockVars, serverVars>>
        BY DEF ClearUnderLock
    <2>3. CASE queue = <<>>
        <3>1. StartFetch(t) /\ waiters' = queue
            BY <2>3 DEF ClearUnderLock
        <3> QED
            BY <1>1, <2>1, <2>2, <3>1 DEF StoreTypeOK, StartFetch, clockVars, serverVars
    <2>4. CASE queue # <<>>
        <3>1. /\ owner' = NoTask /\ waiters' = Append(queue, t)
              /\ pc' = [pc EXCEPT ![t] = "waitGet"] /\ UNCHANGED started
            BY <2>4 DEF ClearUnderLock
        <3> QED
            BY <1>2, <2>1, <2>2, <3>1 DEF StoreTypeOK, Waiting, clockVars, serverVars
    <2> QED
        BY <2>3, <2>4

LEMMA EnqueueType ==
    ASSUME StoreTypeOK, NEW t \in Tasks, NEW where \in Waiting, Enqueue(t, where)
    PROVE  StoreTypeOK'
<1>1. Append(waiters, t) \in Seq(Tasks)
    BY AppendProperties DEF StoreTypeOK
<1> QED
    BY <1>1 DEF StoreTypeOK, Enqueue, Waiting, cacheVars, clockVars, serverVars

LEMMA TypeStep ==
    ASSUME StoreTypeOK, [StoreNext]_storeVars
    PROVE  StoreTypeOK'
<1>1. CASE Tick
    BY <1>1 DEF Tick, StoreTypeOK, cacheVars, lockVars, serverVars
<1>2. CASE SetBack
    BY <1>2 DEF SetBack, StoreTypeOK, cacheVars, lockVars, serverVars
<1>3. ASSUME NEW t \in Tasks, GetToken(t)
      PROVE  StoreTypeOK'
    BY <1>3, GetUnderLockType, EnqueueType, EmptySeq DEF GetToken, Waiting
<1>4. ASSUME NEW t \in Tasks, RenewToken(t)
      PROVE  StoreTypeOK'
    BY <1>4, ClearUnderLockType, EnqueueType, EmptySeq DEF RenewToken, Waiting
<1>5. ASSUME NEW t \in Tasks, Acquire(t)
      PROVE  StoreTypeOK'
    <2>1. Tail(waiters) \in Seq(Tasks)
        BY <1>5, HeadTailProperties DEF Acquire, StoreTypeOK
    <2> QED
        BY <1>5, <2>1, GetUnderLockType, ClearUnderLockType DEF Acquire
<1>6. ASSUME NEW t \in Tasks, Mint(t)
      PROVE  StoreTypeOK'
    <2>1. minted + 1 \in Tokens
        BY <1>6 DEF Mint, StoreTypeOK, Tokens
    <2> QED
        BY <1>6, <2>1 DEF Mint, StoreTypeOK, clockVars, cacheVars, lockVars
<1>7. ASSUME NEW t \in Tasks, FetchReturns(t)
      PROVE  StoreTypeOK'
    <2>1. grant[t] \in Tokens
        BY <1>7 DEF FetchReturns, StoreTypeOK
    <2>2. ExpiresIn(grant[t]) \in Nat
        BY <1>7, <2>1 DEF FetchReturns, StoreTypeOK, ExpiresIn, Absent
    <2>3. Expiry(t) \in Int /\ Expiry(t) >= NoTime
        BY <2>2 DEF Expiry, StoreTypeOK, NoTime
    <2> QED
        BY <1>7, <2>1, <2>3 DEF FetchReturns, Leave, StoreTypeOK, clockVars, serverVars
<1>8. ASSUME NEW t \in Tasks, FetchMalformed(t)
      PROVE  StoreTypeOK'
    BY <1>8 DEF FetchMalformed, Leave, StoreTypeOK, clockVars, serverVars
<1>9. ASSUME NEW t \in Tasks, FetchFails(t)
      PROVE  StoreTypeOK'
    BY <1>9 DEF FetchFails, Leave, StoreTypeOK, clockVars, serverVars, cacheVars
<1>10. ASSUME NEW t \in Tasks, Cancel(t)
       PROVE  StoreTypeOK'
    <2>1. waiters' \in Seq(Tasks)
        BY <1>10, RemoveAtProperties DEF Cancel, StoreTypeOK
    <2> QED
        BY <1>10, <2>1 DEF Cancel, Leave, StoreTypeOK, clockVars, serverVars, cacheVars
<1>11. CASE UNCHANGED storeVars
    BY <1>11 DEF storeVars, StoreTypeOK, clockVars, serverVars, cacheVars, lockVars
<1> QED
    BY <1>1, <1>2, <1>3, <1>4, <1>5, <1>6, <1>7, <1>8, <1>9, <1>10, <1>11 DEF StoreNext

\* The types of the store's state, and that its expiry is a time the clock has
\* shown or will: the default for a reply without expires_in is never missed.
THEOREM TypeCorrect == StoreSpec => []StoreTypeOK
<1>1. StoreInit => StoreTypeOK
    BY EmptySeq DEF StoreInit, StoreTypeOK, Tokens, NoTime, Absent
<1>2. StoreTypeOK /\ [StoreNext]_storeVars => StoreTypeOK'
    BY TypeStep
<1> QED
    BY <1>1, <1>2, PTL DEF StoreSpec

-----------------------------------------------------------------------------
(* The lock is held exactly across a fetch                                  *)

\* Whoever gets the lock does so while nobody fetches.
LEMMA UnderLockExcludes ==
    ASSUME StoreTypeOK, LockHeldAcrossFetch, owner = NoTask,
           NEW t \in Tasks, NEW queue,
           GetUnderLock(t, queue) \/ ClearUnderLock(t, queue)
    PROVE  LockHeldAcrossFetch'
<1>1. \A u \in Tasks : pc[u] # "fetching"
    BY DEF LockHeldAcrossFetch
<1>2. pc \in [Tasks -> Waiting \cup {"idle", "fetching"}]
    BY DEF StoreTypeOK
<1>3. \/ StartFetch(t)
      \/ owner' = NoTask /\ \E p \in {"idle", "waitGet"} : pc' = [pc EXCEPT ![t] = p]
    BY DEF GetUnderLock, ClearUnderLock
<1> QED
    BY <1>1, <1>2, <1>3 DEF StartFetch, LockHeldAcrossFetch

\* A task that leaves the store releases the lock if it holds it.
LEMMA LeaveReleases ==
    ASSUME StoreTypeOK, LockHeldAcrossFetch, NEW t \in Tasks, NEW k, Leave(t, k)
    PROVE  LockHeldAcrossFetch'
BY DEF StoreTypeOK, LockHeldAcrossFetch, Leave

LEMMA LockStep ==
    ASSUME StoreTypeOK, LockHeldAcrossFetch, [StoreNext]_storeVars
    PROVE  LockHeldAcrossFetch'
<1>1. CASE Tick \/ SetBack \/ UNCHANGED storeVars
    BY <1>1 DEF Tick, SetBack, storeVars, lockVars, LockHeldAcrossFetch
<1>2. ASSUME NEW t \in Tasks, NEW where \in Waiting, Enqueue(t, where), pc[t] = "idle"
      PROVE  LockHeldAcrossFetch'
    BY <1>2 DEF Enqueue, Waiting, StoreTypeOK, LockHeldAcrossFetch
<1>3. ASSUME NEW t \in Tasks, GetToken(t) \/ RenewToken(t)
      PROVE  LockHeldAcrossFetch'
    BY <1>2, <1>3, UnderLockExcludes DEF GetToken, RenewToken, LockFree, Waiting
<1>4. ASSUME NEW t \in Tasks, Acquire(t)
      PROVE  LockHeldAcrossFetch'
    BY <1>4, UnderLockExcludes DEF Acquire
<1>5. ASSUME NEW t \in Tasks, Mint(t)
      PROVE  LockHeldAcrossFetch'
    BY <1>5 DEF Mint, lockVars, LockHeldAcrossFetch
<1>6. ASSUME NEW t \in Tasks, FetchReturns(t) \/ FetchMalformed(t) \/ FetchFails(t) \/ Cancel(t)
      PROVE  LockHeldAcrossFetch'
    BY <1>6, LeaveReleases DEF FetchReturns, FetchMalformed, FetchFails, Cancel
<1> QED
    BY <1>1, <1>3, <1>4, <1>5, <1>6 DEF StoreNext

\* At most one token request of the process is in flight, and no way out of a
\* fetch leaves the lock held, whatever the number of callers.
THEOREM OneFetchAtATime == StoreSpec => []LockHeldAcrossFetch
<1>1. StoreInit => LockHeldAcrossFetch
    BY DEF StoreInit, LockHeldAcrossFetch
<1>2. StoreTypeOK /\ LockHeldAcrossFetch /\ [StoreNext]_storeVars => LockHeldAcrossFetch'
    BY LockStep
<1> QED
    BY <1>1, <1>2, TypeCorrect, PTL DEF StoreSpec

-----------------------------------------------------------------------------
(* The cache and the fetch                                                  *)

\* Tokens are numbered in the order the server mints them.
LEMMA TokenNumbers ==
    ASSUME StoreTypeOK
    PROVE  /\ token \in Nat /\ minted \in Nat
           /\ \A u \in Tasks : ret[u] \in Nat /\ grant[u] \in Nat
<1>1. Tokens \cup {NoToken} \subseteq Nat
    BY DEF Tokens, NoToken
<1> QED
    BY <1>1 DEF StoreTypeOK

\* With nobody fetching, FetchInv says only that no reply is on its way.
LEMMA NobodyFetches ==
    ASSUME \A u \in Tasks : pc[u] # "fetching" /\ grant[u] = NoToken
    PROVE  FetchInv
BY DEF FetchInv

\* A single task fetches at a time, so only its grant matters.
LEMMA OnlyFetcher ==
    ASSUME Inv, NEW t \in Tasks, pc[t] = "fetching"
    PROVE  \A u \in Tasks : u # t => pc[u] # "fetching" /\ grant[u] = NoToken
BY DEF Inv, LockHeldAcrossFetch, FetchInv

\* The lock is free: get_valid_token returns the cached token or goes to fetch.
LEMMA GetUnderLockStep ==
    ASSUME Inv, owner = NoTask, NEW t \in Tasks, NEW queue, GetUnderLock(t, queue)
    PROVE  FetchInv' /\ CacheInv'
<1>1. \A u \in Tasks : pc[u] # "fetching" /\ grant[u] = NoToken
    BY DEF Inv, LockHeldAcrossFetch, FetchInv
<1>2. UNCHANGED <<token, expiresAt, time, back, minted, srvExpiry, told>>
    BY DEF GetUnderLock, cacheVars, clockVars, serverVars
<1>3. UNCHANGED grant /\ \E k \in {token, NoToken} : ret' = [ret EXCEPT ![t] = k]
    BY DEF GetUnderLock
<1>4. \A u \in Tasks : ret'[u] <= minted
    BY <1>3 DEF Inv, StoreTypeOK, CacheInv, NoToken
<1>5. CacheInv'
    BY <1>2, <1>4 DEF Inv, CacheInv
<1>6. CASE Usable
    <2>1. pc' = [pc EXCEPT ![t] = "idle"]
        BY <1>6 DEF GetUnderLock
    <2>2. \A u \in Tasks : pc'[u] # "fetching" /\ grant'[u] = NoToken
        BY <1>1, <1>3, <2>1 DEF Inv, StoreTypeOK
    <2> QED
        BY <1>5, <2>2, NobodyFetches DEF FetchInv
<1>7. CASE ~Usable
    <2>1. pc' = [pc EXCEPT ![t] = "fetching"] /\ started' = [started EXCEPT ![t] = WallNow]
        BY <1>7 DEF GetUnderLock, StartFetch
    <2>2. \A u \in Tasks : grant'[u] = NoToken
        BY <1>1, <1>3
    <2>3. \A u \in Tasks : pc'[u] = "fetching" => u = t
        BY <1>1, <2>1 DEF Inv, StoreTypeOK
    <2>4. back = 0 => started'[t] <= time
        BY <2>1 DEF WallNow, Inv, StoreTypeOK
    <2>5. ~Usable'
        BY <1>2, <1>7 DEF Usable, WallNow
    <2> QED
        BY <1>2, <1>5, <2>2, <2>3, <2>4, <2>5 DEF FetchInv
<1> QED
    BY <1>6, <1>7

\* The lock is free: clear, and the fetch or the queue.
LEMMA ClearUnderLockStep ==
    ASSUME Inv, owner = NoTask, NEW t \in Tasks, NEW queue, ClearUnderLock(t, queue)
    PROVE  FetchInv' /\ CacheInv'
<1>1. \A u \in Tasks : pc[u] # "fetching" /\ grant[u] = NoToken
    BY DEF Inv, LockHeldAcrossFetch, FetchInv
<1>2. UNCHANGED <<grant, time, back, minted, srvExpiry, told>>
    BY DEF ClearUnderLock, clockVars, serverVars
<1>3. token' = NoToken /\ expiresAt' = NoTime /\ ret' = [ret EXCEPT ![t] = NoToken]
    BY DEF ClearUnderLock
<1>4. \A u \in Tasks : ret'[u] <= minted
    BY <1>3 DEF Inv, StoreTypeOK, CacheInv, NoToken
<1>5. CacheInv'
    BY <1>2, <1>3, <1>4 DEF Inv, CacheInv, StoreTypeOK, NoToken, NoTime
<1>6. ~Usable'
    BY <1>3 DEF Usable
<1>7. \A u \in Tasks : grant'[u] = NoToken
    BY <1>1, <1>2
<1>8. \/ StartFetch(t)
      \/ pc' = [pc EXCEPT ![t] = "waitGet"]
    BY DEF ClearUnderLock
<1>9. \A u \in Tasks : pc'[u] = "fetching" => u = t /\ started'[t] = time - back
    BY <1>1, <1>8 DEF Inv, StoreTypeOK, StartFetch, WallNow
<1>10. \A u \in Tasks : pc'[u] = "fetching" /\ back' = 0 => started'[u] <= time'
    BY <1>2, <1>9 DEF Inv, StoreTypeOK
<1> QED
    BY <1>5, <1>6, <1>7, <1>10 DEF FetchInv

\* A task joins the queue.
LEMMA EnqueueStep ==
    ASSUME Inv, NEW t \in Tasks, NEW where \in Waiting, pc[t] = "idle", Enqueue(t, where)
    PROVE  FetchInv' /\ CacheInv'
<1>1. /\ UNCHANGED <<token, expiresAt, time, back, minted, srvExpiry, told, started, grant>>
      /\ pc' = [pc EXCEPT ![t] = where] /\ ret' = [ret EXCEPT ![t] = NoToken]
    BY DEF Enqueue, clockVars, cacheVars, serverVars
<1>2. \A u \in Tasks : pc'[u] = "fetching" <=> pc[u] = "fetching"
    BY <1>1 DEF Inv, StoreTypeOK, Waiting
<1>3. \A u \in Tasks : ret'[u] = ret[u] \/ ret'[u] = NoToken
    BY <1>1 DEF Inv, StoreTypeOK
<1>4. Usable' <=> Usable
    BY <1>1 DEF Usable, WallNow
<1>5. CacheInv'
    BY <1>1, <1>3 DEF Inv, StoreTypeOK, CacheInv, NoToken
<1>6. \A u, v \in Tasks : pc[u] = "fetching" /\ grant[u] # NoToken => grant[u] > ret'[v]
    BY <1>3, TokenNumbers DEF Inv, FetchInv, NoToken
<1> QED
    BY <1>1, <1>2, <1>4, <1>5, <1>6 DEF Inv, FetchInv

\* The token endpoint mints a token for the one fetch there is.
LEMMA MintStep ==
    ASSUME Inv, NEW t \in Tasks, Mint(t)
    PROVE  FetchInv' /\ CacheInv'
<1> DEFINE k == minted + 1
<1>1. /\ UNCHANGED <<token, expiresAt, time, back, pc, ret, started>>
      /\ minted' = k /\ grant' = [grant EXCEPT ![t] = k]
      /\ pc[t] = "fetching" /\ minted < MaxTokens
    BY DEF Mint, clockVars, cacheVars, lockVars
<1>2. PICK life \in Lifetimes :
          /\ srvExpiry' = [srvExpiry EXCEPT ![k] = time + life]
          /\ \E says \in {life, Absent, Malformed} : told' = [told EXCEPT ![k] = says]
    BY DEF Mint
<1>3. minted \in Nat /\ k \in Tokens /\ k > minted
    BY <1>1 DEF Inv, StoreTypeOK, Tokens
<1>4. \A n \in Tokens : n <= minted => srvExpiry'[n] = srvExpiry[n] /\ told'[n] = told[n]
    BY <1>2, <1>3 DEF Inv, StoreTypeOK
<1>5. srvExpiry'[k] = time + life /\ (told'[k] >= 0 => told'[k] = life)
    BY <1>2, <1>3 DEF Inv, StoreTypeOK, Absent, Malformed
<1>6. CacheInv'
    <2>1. token' <= minted' /\ \A u \in Tasks : ret'[u] <= minted'
        BY <1>1, <1>3, TokenNumbers DEF Inv, CacheInv
    <2>2. token # NoToken => told'[token] = told[token] /\ srvExpiry'[token] = srvExpiry[token]
        BY <1>4 DEF Inv, StoreTypeOK, CacheInv
    <2> QED
        BY <1>1, <2>1, <2>2 DEF Inv, CacheInv
<1>7. \A u \in Tasks : u # t => pc'[u] # "fetching" /\ grant'[u] = NoToken
    BY <1>1, OnlyFetcher DEF Inv, StoreTypeOK
<1>8. grant'[t] = k
    BY <1>1 DEF Inv, StoreTypeOK
<1>9. k > token /\ \A u \in Tasks : k > ret[u]
    BY <1>3, TokenNumbers DEF Inv, CacheInv
<1>10. back = 0 => ~Usable' /\ started[t] <= time
    BY <1>1 DEF Inv, FetchInv, Usable, WallNow
<1>11. back = 0 /\ told'[k] >= 0 => started[t] + told'[k] <= srvExpiry'[k]
    BY <1>5, <1>10 DEF Inv, StoreTypeOK
<1> QED
    BY <1>1, <1>3, <1>6, <1>7, <1>8, <1>9, <1>10, <1>11 DEF FetchInv

\* The task that leaves is the only one that may fetch, or fetches not at all.
LEMMA LeaveStep ==
    ASSUME Inv, NEW t \in Tasks, NEW n, Leave(t, n),
           pc[t] # "fetching" => UNCHANGED cacheVars /\ n = NoToken
    PROVE  FetchInv'
<1>1. /\ UNCHANGED <<time, back, minted, srvExpiry, told>>
      /\ pc' = [pc EXCEPT ![t] = "idle"] /\ ret' = [ret EXCEPT ![t] = n]
      /\ started' = [started EXCEPT ![t] = 0] /\ grant' = [grant EXCEPT ![t] = NoToken]
    BY DEF Leave, clockVars, serverVars
<1>2. CASE pc[t] = "fetching"
    <2>1. \A u \in Tasks : pc'[u] # "fetching" /\ grant'[u] = NoToken
        BY <1>1, <1>2, OnlyFetcher DEF Inv, StoreTypeOK
    <2> QED
        BY <2>1, NobodyFetches DEF FetchInv
<1>3. CASE pc[t] # "fetching"
    <2>1. UNCHANGED <<token, expiresAt>> /\ ret' = [ret EXCEPT ![t] = NoToken]
        BY <1>1, <1>3 DEF cacheVars
    <2>2. \A u \in Tasks : u # t => UNCHANGED <<pc[u], grant[u], started[u]>>
        BY <1>1 DEF Inv, StoreTypeOK
    <2>3. pc'[t] # "fetching" /\ grant'[t] = NoToken
        BY <1>1 DEF Inv, StoreTypeOK
    <2>4. Usable' <=> Usable
        BY <1>1, <2>1 DEF Usable, WallNow
    <2>5. \A u, v \in Tasks : pc[u] = "fetching" /\ grant[u] # NoToken => grant[u] > ret'[v]
        BY <2>1 DEF Inv, FetchInv, StoreTypeOK, NoToken, Tokens
    <2> QED
        BY <1>1, <2>1, <2>2, <2>3, <2>4, <2>5 DEF Inv, FetchInv
<1> QED
    BY <1>2, <1>3

\* A reply fills the cache with the newest token.
LEMMA FetchReturnsStep ==
    ASSUME Inv, NEW t \in Tasks, FetchReturns(t)
    PROVE  CacheInv'
<1> DEFINE k == grant[t]
<1>1. /\ pc[t] = "fetching" /\ k \in Tokens /\ k # NoToken /\ told[k] # Malformed
      /\ token' = k /\ ret' = [ret EXCEPT ![t] = k]
      /\ UNCHANGED <<time, back, minted, srvExpiry, told>>
    BY DEF FetchReturns, Leave, clockVars, serverVars, Inv, StoreTypeOK
<1>2. k <= minted
    <2>1. k = minted
        BY <1>1 DEF Inv, FetchInv
    <2> QED
        BY <2>1 DEF Inv, StoreTypeOK
<1>3. \A u \in Tasks : ret'[u] <= minted
    BY <1>1, <1>2 DEF Inv, StoreTypeOK, CacheInv
<1>4. ASSUME back = 0, told[k] >= 0
      PROVE  expiresAt' <= srvExpiry[k]
    <2>1. expiresAt' = started[t] + told[k]
        BY <1>1, <1>4 DEF FetchReturns, Expiry, ExpiresIn, Absent
    <2> QED
        BY <1>1, <1>4, <2>1 DEF Inv, FetchInv
<1> QED
    BY <1>1, <1>2, <1>3, <1>4 DEF CacheInv

\* A malformed reply leaves the expiry of the token before it, which is no
\* longer of use: the refresh was made for that.
LEMMA FetchMalformedStep ==
    ASSUME Inv, NEW t \in Tasks, FetchMalformed(t)
    PROVE  CacheInv'
<1> DEFINE k == grant[t]
<1>1. /\ pc[t] = "fetching" /\ k \in Tokens /\ k # NoToken /\ told[k] = Malformed
      /\ token' = k /\ expiresAt' = expiresAt /\ ret' = [ret EXCEPT ![t] = NoToken]
      /\ UNCHANGED <<time, back, minted, srvExpiry, told>>
    BY DEF FetchMalformed, Leave, clockVars, serverVars, Inv, StoreTypeOK
<1>2. k <= minted
    <2>1. k = minted
        BY <1>1 DEF Inv, FetchInv
    <2> QED
        BY <2>1 DEF Inv, StoreTypeOK
<1>3. \A u \in Tasks : ret'[u] <= minted
    BY <1>1, TokenNumbers DEF Inv, StoreTypeOK, CacheInv, NoToken
<1>4. ASSUME back = 0, expiresAt # NoTime
      PROVE  expiresAt <= time + Buffer
    <2>1. ~Usable /\ token # NoToken
        BY <1>1, <1>4 DEF Inv, FetchInv, CacheInv
    <2>2. ~(time - back < expiresAt - Buffer)
        BY <1>4, <2>1 DEF Usable, WallNow
    <2> QED
        BY <1>4, <2>2 DEF Inv, StoreTypeOK
<1> QED
    BY <1>1, <1>2, <1>3, <1>4 DEF CacheInv, Malformed

\* An exception or a cancellation leaves the cache alone.
LEMMA NoReplyStep ==
    ASSUME Inv, NEW t \in Tasks, Leave(t, NoToken), UNCHANGED cacheVars
    PROVE  CacheInv'
<1>1. /\ UNCHANGED <<token, expiresAt, time, back, minted, srvExpiry, told>>
      /\ ret' = [ret EXCEPT ![t] = NoToken]
    BY DEF Leave, clockVars, serverVars, cacheVars
<1>2. \A u \in Tasks : ret'[u] <= minted
    BY <1>1, TokenNumbers DEF Inv, StoreTypeOK, CacheInv, NoToken
<1> QED
    BY <1>1, <1>2 DEF Inv, CacheInv

LEMMA TimeStep ==
    ASSUME Inv, Tick \/ SetBack
    PROVE  FetchInv' /\ CacheInv'
<1>1. UNCHANGED <<token, expiresAt, pc, ret, started, grant, minted, srvExpiry, told>>
    BY DEF Tick, SetBack, cacheVars, serverVars
<1>2. time \in Int /\ back \in Int /\ expiresAt \in Int /\ started \in [Tasks -> Int]
    BY DEF Inv, StoreTypeOK
<1>3. CASE Tick
    <2>1. time' = time + 1 /\ back' = back
        BY <1>3 DEF Tick
    <2>2. Usable' => Usable
        BY <1>1, <1>2, <2>1 DEF Usable, WallNow
    <2>3. FetchInv'
        BY <1>1, <1>2, <2>1, <2>2 DEF Inv, FetchInv
    <2>4. CacheInv'
        BY <1>1, <1>2, <2>1 DEF Inv, CacheInv
    <2> QED
        BY <2>3, <2>4
<1>4. CASE SetBack
    <2>1. back' # 0
        BY <1>4 DEF SetBack, Inv, StoreTypeOK
    <2> QED
        BY <1>1, <2>1 DEF Inv, FetchInv, CacheInv
<1> QED
    BY <1>3, <1>4

LEMMA InvStep ==
    ASSUME Inv, [StoreNext]_storeVars
    PROVE  Inv'
<1>1. StoreTypeOK' /\ LockHeldAcrossFetch'
    BY TypeStep, LockStep DEF Inv
<1>2. CASE Tick \/ SetBack
    BY <1>1, <1>2, TimeStep DEF Inv
<1>3. ASSUME NEW t \in Tasks, GetToken(t) \/ RenewToken(t)
      PROVE  Inv'
    BY <1>1, <1>3, GetUnderLockStep, ClearUnderLockStep, EnqueueStep
       DEF GetToken, RenewToken, LockFree, Waiting, Inv
<1>4. ASSUME NEW t \in Tasks, Acquire(t)
      PROVE  Inv'
    BY <1>1, <1>4, GetUnderLockStep, ClearUnderLockStep DEF Acquire, Inv
<1>5. ASSUME NEW t \in Tasks, Mint(t)
      PROVE  Inv'
    BY <1>1, <1>5, MintStep DEF Inv
<1>6. ASSUME NEW t \in Tasks, FetchReturns(t)
      PROVE  Inv'
    BY <1>1, <1>6, FetchReturnsStep, LeaveStep DEF FetchReturns, Inv
<1>7. ASSUME NEW t \in Tasks, FetchMalformed(t)
      PROVE  Inv'
    BY <1>1, <1>7, FetchMalformedStep, LeaveStep DEF FetchMalformed, Inv
<1>8. ASSUME NEW t \in Tasks, FetchFails(t) \/ Cancel(t)
      PROVE  Inv'
    BY <1>1, <1>8, NoReplyStep, LeaveStep DEF FetchFails, Cancel, Inv
<1>9. CASE UNCHANGED storeVars
    BY <1>1, <1>9 DEF storeVars, cacheVars, lockVars, clockVars, serverVars,
                      Inv, FetchInv, CacheInv, Usable, WallNow
<1> QED
    BY <1>2, <1>3, <1>4, <1>5, <1>6, <1>7, <1>8, <1>9 DEF StoreNext

LEMMA InvInit == StoreInit => Inv
<1>1. StoreInit => StoreTypeOK
    BY EmptySeq DEF StoreInit, StoreTypeOK, Tokens, NoTime, Absent
<1> QED
    BY <1>1 DEF StoreInit, Inv, LockHeldAcrossFetch, FetchInv, CacheInv, NoToken

LEMMA InvHolds == StoreSpec => []Inv
<1>1. StoreInit => Inv
    BY InvInit
<1>2. Inv /\ [StoreNext]_storeVars => Inv'
    BY InvStep
<1> QED
    BY <1>1, <1>2, PTL DEF StoreSpec

\* A token that get_valid_token takes from the cache has more than the refresh
\* buffer left on the server, for every life, buffer and number of callers.
THEOREM CacheHitFresh == StoreSpec => []CacheHitIsFresh
<1>1. Inv => CacheHitIsFresh
    <2> SUFFICES ASSUME Inv, back = 0, Usable
                 PROVE  ~Outlived(token) /\ told[token] # Malformed
        BY DEF CacheHitIsFresh
    <2>1. token \in Tokens /\ token # NoToken /\ expiresAt # NoTime /\ time < expiresAt - Buffer
        BY DEF Usable, WallNow, Inv, StoreTypeOK
    <2>2. told[token] # Malformed
        BY <2>1 DEF Inv, CacheInv, StoreTypeOK
    <2>3. told[token] >= 0 => expiresAt <= srvExpiry[token]
        BY <2>1 DEF Inv, CacheInv
    <2>4. srvExpiry[token] \in Int /\ time \in Int /\ expiresAt \in Int
        BY <2>1 DEF Inv, StoreTypeOK
    <2> QED
        BY <2>1, <2>2, <2>3, <2>4 DEF Outlived
<1> QED
    BY <1>1, InvHolds, PTL

\* A step that fills the cache fills it with a token newer than the cached one
\* and than any a task holds.
THEOREM CacheForward == StoreSpec => CacheMovesForward
<1> DEFINE Forward ==
        token' # token /\ token' # NoToken =>
            /\ token' > token
            /\ \A t \in Tasks : token' > ret[t]
<1>1. Inv /\ [StoreNext]_storeVars => [Forward]_storeVars
    <2> SUFFICES ASSUME Inv, StoreNext, token' # token, token' # NoToken
                 PROVE  token' > token /\ \A t \in Tasks : token' > ret[t]
        OBVIOUS
    <2>1. PICK t \in Tasks : FetchReturns(t) \/ FetchMalformed(t)
        BY DEF StoreNext, Tick, SetBack, GetToken, RenewToken, Acquire, GetUnderLock,
               ClearUnderLock, Enqueue, Mint, FetchFails, Cancel, cacheVars
    <2>2. pc[t] = "fetching" /\ grant[t] # NoToken /\ token' = grant[t]
        BY <2>1 DEF FetchReturns, FetchMalformed
    <2> QED
        BY <2>2 DEF Inv, FetchInv
<1> QED
    BY <1>1, InvHolds, PTL DEF StoreSpec, CacheMovesForward

-----------------------------------------------------------------------------
(* TokenStore implements TokenCache, for every set of tasks and every bound *)

LEMMA GetUnderLockServes ==
    ASSUME StoreTypeOK, NEW t \in Tasks, NEW queue, owner = NoTask, GetUnderLock(t, queue)
    PROVE  Cache!Serve(t) \/ Cache!BeginRefill(t)
<1>1. UNCHANGED <<token, minted>>
    BY DEF GetUnderLock, cacheVars, serverVars
<1>2. CASE Usable
    <2>1. owner' = NoTask /\ ret' = [ret EXCEPT ![t] = token] /\ token # NoToken
        BY <1>2 DEF GetUnderLock, Usable
    <2> QED
        BY <1>1, <2>1 DEF Cache!Serve, Cache!Give, Cache!NoToken, NoToken
<1>3. CASE ~Usable
    <2>1. owner' = t /\ ret' = [ret EXCEPT ![t] = NoToken]
        BY <1>3 DEF GetUnderLock, StartFetch
    <2> QED
        BY <1>1, <2>1 DEF Cache!BeginRefill, Cache!Give, Cache!NoToken, NoToken
<1> QED
    BY <1>2, <1>3

LEMMA ClearUnderLockDrops ==
    ASSUME StoreTypeOK, NEW t \in Tasks, NEW queue, owner = NoTask, ClearUnderLock(t, queue)
    PROVE  Cache!Drop(t)
<1>1. token' = NoToken /\ ret' = [ret EXCEPT ![t] = NoToken] /\ minted' = minted
    BY DEF ClearUnderLock, serverVars
<1>2. owner' \in {NoTask, t}
    BY DEF ClearUnderLock, StartFetch
<1> QED
    BY <1>1, <1>2 DEF Cache!Drop, Cache!Give, Cache!NoToken, NoToken

LEMMA EnqueueAsks ==
    ASSUME NEW t \in Tasks, NEW where, Enqueue(t, where)
    PROVE  Cache!Ask(t)
BY DEF Enqueue, cacheVars, serverVars, Cache!Ask, Cache!Give, Cache!NoToken, NoToken

\* A reply reaches the cache only from the lock's owner, and carries the newest
\* token there is.
LEMMA ReplyRefills ==
    ASSUME Inv, NEW t \in Tasks, NEW k \in {grant[t], NoToken},
           pc[t] = "fetching", grant[t] # NoToken, token' = grant[t], Leave(t, k)
    PROVE  Cache!Refill(t)
<1>1. owner = t /\ owner' = NoTask
    BY DEF Inv, LockHeldAcrossFetch, Leave
<1>2. grant[t] = minted /\ grant[t] > token /\ \A u \in Tasks : grant[t] > ret[u]
    BY DEF Inv, FetchInv
<1>3. ret' = [ret EXCEPT ![t] = k] /\ minted' = minted
    BY DEF Leave, serverVars
<1> QED
    BY <1>1, <1>2, <1>3 DEF Cache!Refill, Cache!Give, Cache!NoToken, NoToken

\* A task that leaves with nothing gives up its refill, or its place in the queue.
LEMMA LeavingGivesUp ==
    ASSUME Inv, NEW t \in Tasks, UNCHANGED cacheVars, Leave(t, NoToken)
    PROVE  Cache!GiveUp(t) \/ Cache!Ask(t)
<1>1. token' = token /\ minted' = minted /\ ret' = [ret EXCEPT ![t] = NoToken]
    BY DEF Leave, cacheVars, serverVars
<1>2. CASE owner = t
    BY <1>1, <1>2 DEF Leave, Cache!GiveUp, Cache!Give, Cache!NoToken, NoToken
<1>3. CASE owner # t
    BY <1>1, <1>3 DEF Leave, Cache!Ask, Cache!Give, Cache!NoToken, NoToken
<1> QED
    BY <1>2, <1>3

\* A step of the store is a step of the cell, or none.
LEMMA StepImplements ==
    ASSUME Inv, [StoreNext]_storeVars
    PROVE  [Cache!Next]_<<token, owner, minted, ret>>
<1>1. CASE Tick \/ SetBack \/ UNCHANGED storeVars
    <2>1. UNCHANGED <<token, owner, minted, ret>>
        BY <1>1 DEF Tick, SetBack, storeVars, cacheVars, lockVars, serverVars
    <2> QED
        BY <2>1
<1>2. ASSUME NEW t \in Tasks, GetToken(t) \/ RenewToken(t)
      PROVE  Cache!Next
    <2>1. CASE LockFree
        <3>1. owner = NoTask /\ (GetUnderLock(t, <<>>) \/ ClearUnderLock(t, <<>>))
            BY <1>2, <2>1 DEF GetToken, RenewToken, LockFree
        <3> QED
            BY <3>1, GetUnderLockServes, ClearUnderLockDrops DEF Inv, Cache!Next
    <2>2. CASE ~LockFree
        BY <1>2, <2>2, EnqueueAsks DEF GetToken, RenewToken, Cache!Next
    <2> QED
        BY <2>1, <2>2
<1>3. ASSUME NEW t \in Tasks, Acquire(t)
      PROVE  Cache!Next
    <2>1. owner = NoTask
        BY <1>3 DEF Acquire
    <2>2. GetUnderLock(t, Tail(waiters)) \/ ClearUnderLock(t, Tail(waiters))
        BY <1>3 DEF Acquire
    <2> QED
        BY <2>1, <2>2, GetUnderLockServes, ClearUnderLockDrops DEF Inv, Cache!Next
<1>4. ASSUME NEW t \in Tasks, Mint(t)
      PROVE  Cache!Next
    BY <1>4 DEF Mint, cacheVars, lockVars, Cache!Next, Cache!Grant
<1>5. ASSUME NEW t \in Tasks, FetchReturns(t) \/ FetchMalformed(t)
      PROVE  Cache!Next
    <2>1. pc[t] = "fetching" /\ grant[t] # NoToken /\ token' = grant[t]
        BY <1>5 DEF FetchReturns, FetchMalformed
    <2>2. Leave(t, grant[t]) \/ Leave(t, NoToken)
        BY <1>5 DEF FetchReturns, FetchMalformed
    <2> QED
        BY <2>1, <2>2, ReplyRefills DEF Cache!Next
<1>6. ASSUME NEW t \in Tasks, FetchFails(t) \/ Cancel(t)
      PROVE  Cache!Next
    BY <1>6, LeavingGivesUp DEF FetchFails, Cancel, Cache!Next
<1> QED
    BY <1>1, <1>2, <1>3, <1>4, <1>5, <1>6 DEF StoreNext

\* The token store is, to its callers, the cell of TokenCache: every behaviour
\* of get_valid_token and clear with their failures is one of the cell.
THEOREM StoreImplementsCache == StoreSpec => ImplementsCache
<1>1. StoreInit => Cache!Init
    BY DEF StoreInit, Cache!Init, Cache!NoToken, NoToken
<1>2. Inv /\ [StoreNext]_storeVars => [Cache!Next]_Cache!vars
    BY StepImplements DEF Cache!vars
<1> QED
    BY <1>1, <1>2, InvHolds, PTL DEF StoreSpec, ImplementsCache, Cache!Spec
=============================================================================
