----------------------------- MODULE WebProofs ------------------------------
(***************************************************************************)
(* Proofs about what runs around the programs, for any number of callers,  *)
(* visitors, assets and mints and any limits: the price feed never holds   *)
(* two requests to Hermes and never shows a price as fresh beyond its      *)
(* bound, nobody is told falsely to be on the waitlist, and a deployment   *)
(* script lists a symbol once however often it dies.                       *)
(***************************************************************************)
EXTENDS Integers, PriceFeed, Waitlist, Deployment, FiniteSetTheorems, TLAPS

(***************************************************************************)
(* The price feed: one request at a time.                                  *)
(***************************************************************************)

(* On Node every fetch under way is the one new requests join.             *)
JoinInv ==
  /\ fetching \subseteq Fetches
  /\ host = "node" => \A f \in fetching : inFlight = f

LEMMA JoinInvInductive == JoinInv /\ [FeedNext]_feedVars => JoinInv'
<1> SUFFICES ASSUME JoinInv, [FeedNext]_feedVars
             PROVE  JoinInv'
  OBVIOUS
<1>1. ASSUME UNCHANGED <<host, inFlight, fetching>>
      PROVE  JoinInv'
  BY <1>1 DEF JoinInv
<1>2. ASSUME NEW f \in Fetches, StartFetch(f), host' = host
      PROVE  JoinInv'
  <2>1. ASSUME host = "node"
        PROVE  inFlight' = f /\ fetching = {}
    <3>1. inFlight = None /\ inFlight' = f
      BY <1>2, <2>1 DEF StartFetch, JoinNext, AskAlone, ToJoin
    <3>2. \A g \in fetching : FALSE
      BY <2>1, <3>1, FeedAssumption DEF JoinInv
    <3> QED
      BY <3>1, <3>2
  <2> QED
    BY <1>2, <2>1 DEF StartFetch, JoinInv
<1>3. ASSUME NEW f \in fetching, NEW result, Settle(f, result), host' = host
      PROVE  JoinInv'
  BY <1>3 DEF Settle, JoinInv
<1>4. CASE UNCHANGED feedVars
  BY <1>1, <1>4 DEF feedVars, serverVars
<1>5. ASSUME Tick \/ Mount, host' = host
      PROVE  JoinInv'
  BY <1>1, <1>5 DEF Tick, Mount, serverVars
<1>6. ASSUME ServeOthers, host' = host
      PROVE  JoinInv'
  BY <1>2, <1>6 DEF ServeOthers
<1>7. ASSUME NEW f \in fetching, FetchArrives(f) \/ FetchFails(f), host' = host
      PROVE  JoinInv'
  BY <1>3, <1>7 DEF FetchArrives, FetchFails
<1>8. ASSUME NEW r \in Free, Refresh(r), host' = host
      PROVE  JoinInv'
  BY <1>1, <1>8 DEF Refresh, serverVars
<1>9. ASSUME NEW r \in Refreshes \ Free, Serve(r), host' = host
      PROVE  JoinInv'
  BY <1>1, <1>2, <1>9 DEF Serve, serverVars
<1>10. ASSUME NEW r \in Refreshes \ Free, host' = host,
              HearBackend(r) \/ AskHermes(r) \/ HearHermes(r) \/ SayUnavailable(r)
       PROVE  JoinInv'
  BY <1>1, <1>10 DEF HearBackend, AskHermes, HearHermes, SayUnavailable, Keep, serverVars
<1> QED
  BY <1>4, <1>5, <1>6, <1>7, <1>8, <1>9, <1>10 DEF FeedNext

(* However many pages ask while the cache is old, the Node backend has one *)
(* request to Hermes outstanding.                                          *)
THEOREM OneRequestToHermes == FeedSpec => []OneFetch
<1>1. FeedInit => JoinInv
  BY DEF FeedInit, JoinInv
<1>2. JoinInv => OneFetch
  BY DEF JoinInv, OneFetch
<1> QED
  BY <1>1, <1>2, JoinInvInductive, PTL DEF FeedSpec

(***************************************************************************)
(* The price feed: how old a price on the screen can be.                   *)
(***************************************************************************)
Price == [time : Nat, stale : BOOLEAN]

(* A price that was judged at time t or later. *)
JudgedBy(p, t) == p \in Price /\ (~p.stale => t - p.time <= StaleAfter)

(* What a refresh holds: it began at most MaxWait ago, and the price it was *)
(* answered was judged at most one cache life before it began.             *)
RefreshOk(v) ==
  /\ v \in [stage : {v.stage}, since : Nat, value : {v.value}]
  /\ v.since <= now /\ now <= v.since + MaxWait
  /\ v.stage = "answered" /\ v.value # None => JudgedBy(v.value, v.since - (Ttl - 1))

(* The tab's cache counts from the beginning of a refresh, the server's    *)
(* from the verdict.                                                       *)
CachesOk ==
  /\ now \in Nat
  /\ cache # None => cache.at \in Nat /\ JudgedBy(cache.price, cache.at)
  /\ pageCache # None =>
       pageCache.at \in Nat /\ JudgedBy(pageCache.price, pageCache.at - (Ttl - 1))

FeedInv ==
  /\ CachesOk
  /\ refreshes = [r \in Refreshes |-> refreshes[r]]
  /\ \A r \in Refreshes : refreshes[r] # None => RefreshOk(refreshes[r])

(* What may come on the screen when the clock shows t, by the time since   *)
(* the refresh that heard it began.                                        *)
Timely(p, t, wait) == ~p.stale => t - p.time <= StaleAfter + (Ttl - 1) + wait

LEMMA LongestIsLonger ==
  Longest \in Nat /\ MaxWait <= Longest /\ Ttl - 1 <= Longest
BY FeedAssumption DEF Longest

LEMMA JudgedNow ==
  ASSUME now \in Nat, NEW time \in 0 .. now
  PROVE  JudgedBy(Judged(time), now)
<1>1. StaleAfter \in Nat
  BY FeedAssumption
<1>2. CASE now - time > StaleAfter
  <2>1. Judged(time) = [time |-> time, stale |-> TRUE]
    BY <1>2, Zenon DEF Judged
  <2> QED
    BY <2>1 DEF JudgedBy, Price
<1>3. CASE ~(now - time > StaleAfter)
  <2>0. (now - time > StaleAfter) = FALSE
    BY <1>3
  <2>1. Judged(time) = [time |-> time, stale |-> FALSE]
    BY <2>0, Zenon DEF Judged
  <2>2. now - time <= StaleAfter
    BY <1>1, <1>3
  <2> QED
    BY <2>1, <2>2 DEF JudgedBy, Price
<1> QED
  BY <1>2, <1>3

(* What was judged late was judged by any earlier time.                    *)
LEMMA JudgedEarlier ==
  ASSUME NEW p, NEW t \in Int, NEW s \in Int, s <= t, JudgedBy(p, t)
  PROVE  JudgedBy(p, s)
<1>1. p.time \in Nat /\ StaleAfter \in Nat
  BY FeedAssumption DEF JudgedBy, Price
<1> QED
  BY <1>1 DEF JudgedBy

(* A verdict taken a cache life before a refresh began is timely until it  *)
(* ends.                                                                   *)
LEMMA JudgedIsTimely ==
  ASSUME NEW p, NEW since \in Nat, JudgedBy(p, since - (Ttl - 1)), now \in Nat,
         NEW wait \in Int, now - since <= wait
  PROVE  Timely(p, now, wait)
<1>1. p.time \in Nat /\ StaleAfter \in Nat /\ Ttl \in Nat
  BY FeedAssumption DEF JudgedBy, Price
<1> QED
  BY <1>1 DEF JudgedBy, Timely

(* One refresh moves on and nothing else of the invariant is disturbed.    *)
LEMMA RefreshMoves ==
  ASSUME FeedInv, CachesOk', NEW r \in Refreshes, NEW v,
         refreshes' = [refreshes EXCEPT ![r] = v], v # None => RefreshOk(v), now' = now
  PROVE  FeedInv'
<1>1. refreshes' = [q \in Refreshes |-> refreshes'[q]]
  BY DEF FeedInv
<1>2. ASSUME NEW q \in Refreshes, refreshes'[q] # None
      PROVE  RefreshOk(refreshes'[q])
  <2>1. refreshes'[q] = IF q = r THEN v ELSE refreshes[q]
    BY DEF FeedInv
  <2> QED
    BY <1>2, <2>1 DEF FeedInv
<1>3. ASSUME NEW q \in Refreshes, refreshes'[q] # None
      PROVE  RefreshOk(refreshes[q])'
  BY <1>2, <1>3 DEF RefreshOk, JudgedBy
<1> QED
  BY <1>1, <1>3 DEF FeedInv

(* A stage is reached: the record is replaced as a whole.                  *)
LEMMA FieldsReplaced ==
  ASSUME NEW v, v \in [stage : {v.stage}, since : Nat, value : {v.value}], NEW x, NEW y
  PROVE  [v EXCEPT !.stage = x, !.value = y] = [stage |-> x, since |-> v.since, value |-> y]
<1> DEFINE r == [v EXCEPT !.stage = x, !.value = y]
<1>1. r.stage = x /\ r.since = v.since /\ r.value = y
  OBVIOUS
<1>2. r = [i \in {"stage", "since", "value"} |-> r[i]]
  OBVIOUS
<1> HIDE DEF r
<1>3. r = [stage |-> x, since |-> v.since, value |-> y]
  BY <1>1, <1>2
<1> QED
  BY <1>3 DEF r

LEMMA ReachMoves ==
  ASSUME FeedInv, NEW r \in Refreshes, refreshes[r] # None, NEW stage, NEW value,
         Reach(r, stage, value)
  PROVE  refreshes' = [refreshes EXCEPT ![r] =
           [stage |-> stage, since |-> refreshes[r].since, value |-> value]]
<1> DEFINE v == refreshes[r]
<1>1. v \in [stage : {v.stage}, since : Nat, value : {v.value}]
  BY DEF FeedInv, RefreshOk
<1>2. refreshes' = [refreshes EXCEPT ![r] = [v EXCEPT !.stage = stage, !.value = value]]
  BY DEF FeedInv, Reach
<1> HIDE DEF v
<1>3. [v EXCEPT !.stage = stage, !.value = value] =
        [stage |-> stage, since |-> v.since, value |-> value]
  BY <1>1, FieldsReplaced
<1> QED
  BY <1>2, <1>3, Zenon DEF v

(* A step of one refresh that leaves the caches alone.                     *)
LEMMA ReachKeeps ==
  ASSUME FeedInv, NEW r \in Refreshes, refreshes[r] # None, NEW stage, NEW value,
         Reach(r, stage, value), UNCHANGED <<now, cache, pageCache>>,
         stage = "answered" /\ value # None => JudgedBy(value, refreshes[r].since - (Ttl - 1))
  PROVE  FeedInv'
<1> DEFINE v == [stage |-> stage, since |-> refreshes[r].since, value |-> value]
<1>1. refreshes' = [refreshes EXCEPT ![r] = v]
  BY ReachMoves
<1>2. RefreshOk(refreshes[r])
  BY DEF FeedInv
<1>3. v.stage = stage /\ v.since = refreshes[r].since /\ v.value = value
  OBVIOUS
<1>4. v \in [stage : {v.stage}, since : Nat, value : {v.value}]
  BY <1>2 DEF RefreshOk
<1> HIDE DEF v
<1>5. RefreshOk(v)
  BY <1>2, <1>3, <1>4 DEF RefreshOk
<1>6. CachesOk'
  BY DEF FeedInv, CachesOk, JudgedBy
<1> QED
  BY <1>1, <1>5, <1>6, RefreshMoves

LEMMA ServeKeeps ==
  ASSUME FeedInv, NEW r \in Refreshes \ Free, Serve(r)
  PROVE  FeedInv'
<1>1. refreshes[r] # None
  BY DEF Free
<1>2. UNCHANGED <<now, cache, pageCache>>
  BY DEF Serve, pageVars, serverVars, StartFetch
<1>3. CASE Recent(cache) /\ Reach(r, "answered", cache.price)
  <2> DEFINE since == refreshes[r].since
  <2>1. since \in Nat /\ since <= now
    BY <1>1 DEF FeedInv, RefreshOk
  <2>2. cache.at \in Nat /\ JudgedBy(cache.price, cache.at) /\ now - cache.at < Ttl
    BY <1>3 DEF FeedInv, CachesOk, Recent
  <2>3. Ttl \in Nat /\ now \in Nat
    BY FeedAssumption DEF FeedInv, CachesOk
  <2> HIDE DEF since
  <2>4. since - (Ttl - 1) \in Int /\ since - (Ttl - 1) <= cache.at /\ cache.at \in Int
    BY <2>1, <2>2, <2>3
  <2>5. JudgedBy(cache.price, since - (Ttl - 1))
    BY <2>2, <2>4, JudgedEarlier
  <2> QED
    BY <1>1, <1>2, <1>3, <2>5, ReachKeeps DEF since
<1>4. ASSUME NEW f, Reach(r, "joined", f)
      PROVE  FeedInv'
  BY <1>1, <1>2, <1>4, ReachKeeps
<1> QED
  BY <1>3, <1>4 DEF Serve

(* The refreshes that joined a fetch hear of its result.                   *)
LEMMA SettleKeeps ==
  ASSUME FeedInv, NEW f \in fetching, NEW result, Settle(f, result),
         result # None => JudgedBy(result, now),
         cache' = cache \/ (cache' = [at |-> now, price |-> result] /\ JudgedBy(result, now))
  PROVE  FeedInv'
<1> USE FeedAssumption
<1>1. now' = now /\ UNCHANGED pageVars /\ now \in Nat
  BY DEF Settle, FeedInv, CachesOk
<1>2. cache' # None => cache'.at \in Nat /\ JudgedBy(cache'.price, cache'.at)
  <2>1. CASE cache' = cache
    BY <2>1 DEF FeedInv, CachesOk
  <2>2. CASE cache' = [at |-> now, price |-> result] /\ JudgedBy(result, now)
    <3>1. cache'.at = now /\ cache'.price = result
      BY <2>2
    <3> QED
      BY <1>1, <2>2, <3>1
  <2> QED
    BY <2>1, <2>2
<1>3. CachesOk'
  BY <1>1, <1>2 DEF FeedInv, CachesOk, JudgedBy, pageVars
<1>4. ASSUME NEW r \in Refreshes, refreshes'[r] # None
      PROVE  RefreshOk(refreshes'[r])
  <2> DEFINE v == refreshes[r]
  <2>0. refreshes'[r] = IF v # None /\ v.stage = "joined" /\ v.value = f
                        THEN [v EXCEPT !.stage = "answered", !.value = result] ELSE v
    BY DEF Settle
  <2>1. CASE v # None /\ v.stage = "joined" /\ v.value = f
    <3> DEFINE w == [stage |-> "answered", since |-> v.since, value |-> result]
    <3>1. RefreshOk(v)
      BY <2>1 DEF FeedInv
    <3>2. v \in [stage : {v.stage}, since : Nat, value : {v.value}]
      BY <3>1 DEF RefreshOk
    <3>3. [v EXCEPT !.stage = "answered", !.value = result] = w
      <4> HIDE DEF v
      <4> QED
        BY <3>2, FieldsReplaced
    <3>4. w \in [stage : {w.stage}, since : Nat, value : {w.value}]
          /\ w.since = v.since /\ w.stage = "answered" /\ w.value = result
      BY <3>1 DEF RefreshOk
    <3>5. v.since \in Nat /\ v.since <= now /\ now <= v.since + MaxWait
      BY <3>1 DEF RefreshOk
    <3>6. ASSUME result # None
          PROVE  JudgedBy(result, v.since - (Ttl - 1))
      <4> HIDE DEF v
      <4>1. v.since - (Ttl - 1) \in Int /\ v.since - (Ttl - 1) <= now /\ now \in Int
        BY <1>1, <3>5
      <4> QED
        BY <3>6, <4>1, JudgedEarlier
    <3> HIDE DEF w, v
    <3>7. RefreshOk(w)
      BY <3>4, <3>5, <3>6 DEF RefreshOk
    <3> QED
      BY <2>0, <2>1, <3>3, <3>7
  <2>2. CASE ~(v # None /\ v.stage = "joined" /\ v.value = f)
    BY <1>4, <2>0, <2>2 DEF FeedInv
  <2> QED
    BY <2>1, <2>2
<1>5. ASSUME NEW r \in Refreshes, refreshes'[r] # None
      PROVE  RefreshOk(refreshes[r])'
  BY <1>1, <1>4, <1>5 DEF RefreshOk, JudgedBy
<1>6. refreshes' = [r \in Refreshes |-> refreshes'[r]]
  BY DEF Settle
<1> QED
  BY <1>3, <1>5, <1>6 DEF FeedInv

(* Every step keeps the invariant, and changes the price on the screen     *)
(* only to one that is timely.                                             *)
FeedStepOk ==
  /\ FeedInv'
  /\ price' # price /\ price' # None =>
       Timely(price', now, IF Mount THEN now - pageCache.at ELSE Longest)

(* What a refresh hears was judged at most one cache life before it began, *)
(* and it gives up after MaxWait.                                          *)
LEMMA KeepKeeps ==
  ASSUME FeedInv, NEW r \in Refreshes, refreshes[r] # None, NEW p, Keep(r, p),
         JudgedBy(p, refreshes[r].since - (Ttl - 1))
  PROVE  FeedInv' /\ (price' # price => Timely(price', now, Longest))
<1> DEFINE since == refreshes[r].since
<1>1. /\ pageCache' = [at |-> since, price |-> p]
      /\ price' # price => price' = p
      /\ refreshes' = [refreshes EXCEPT ![r] = None]
      /\ now' = now /\ UNCHANGED serverVars
  BY DEF Keep, Show
<1>2. since \in Nat /\ since <= now /\ now <= since + MaxWait /\ now \in Nat
  BY DEF FeedInv, CachesOk, RefreshOk
<1>3. pageCache'.at = since /\ pageCache'.price = p
  BY <1>1
<1>4. CachesOk'
  BY <1>1, <1>2, <1>3 DEF FeedInv, CachesOk, serverVars, JudgedBy
<1>5. FeedInv'
  BY <1>1, <1>4, RefreshMoves
<1>6. Longest \in Int /\ now - since <= Longest
  <2> HIDE DEF since
  <2> QED
    BY <1>2, LongestIsLonger, FeedAssumption
<1>7. Timely(p, now, Longest)
  <2>1. JudgedBy(p, since - (Ttl - 1))
    OBVIOUS
  <2> HIDE DEF since
  <2> QED
    BY <1>2, <1>6, <2>1, JudgedIsTimely
<1> QED
  BY <1>1, <1>5, <1>7

LEMMA FeedStepsAreOk == FeedInv /\ [FeedNext]_feedVars => FeedStepOk
<1> SUFFICES ASSUME FeedInv, [FeedNext]_feedVars
             PROVE  FeedStepOk
  OBVIOUS
<1> USE FeedAssumption
<1>0. ASSUME FeedInv', price' = price
      PROVE  FeedStepOk
  BY <1>0 DEF FeedStepOk
<1>a. ASSUME UNCHANGED <<now, refreshes, cache, pageCache>>
      PROVE  FeedInv'
  <2>1. \A r \in Refreshes : RefreshOk(refreshes[r]) => RefreshOk(refreshes[r])'
    BY <1>a DEF RefreshOk, JudgedBy
  <2>2. CachesOk'
    BY <1>a DEF FeedInv, CachesOk, JudgedBy
  <2> QED
    BY <1>a, <2>1, <2>2 DEF FeedInv
<1>b. ASSUME NEW r \in Refreshes \ Free
      PROVE  refreshes[r] # None /\ RefreshOk(refreshes[r])
  BY <1>b DEF Free, FeedInv
<1>1. CASE Tick
  <2>1. /\ \A r \in Refreshes \ Free : now - refreshes[r].since < MaxWait
        /\ now' = now + 1 /\ now \in Nat
        /\ UNCHANGED <<refreshes, serverVars, pageVars>>
    BY <1>1 DEF Tick, FeedInv, CachesOk
  <2>2. CachesOk'
    BY <2>1 DEF FeedInv, CachesOk, serverVars, pageVars, JudgedBy
  <2>3. ASSUME NEW r \in Refreshes, refreshes[r] # None
        PROVE  RefreshOk(refreshes[r])'
    <3>1. RefreshOk(refreshes[r]) /\ r \in Refreshes \ Free
      BY <2>3 DEF FeedInv, Free
    <3>2. now - refreshes[r].since < MaxWait /\ refreshes[r].since \in Nat
      BY <2>1, <3>1 DEF RefreshOk
    <3>3. refreshes[r].since <= now' /\ now' <= refreshes[r].since + MaxWait
      BY <2>1, <3>1, <3>2 DEF RefreshOk
    <3> QED
      BY <2>1, <3>1, <3>3 DEF RefreshOk, JudgedBy
  <2>4. FeedInv'
    BY <2>1, <2>2, <2>3 DEF FeedInv
  <2> QED
    BY <1>0, <2>1, <2>4 DEF pageVars
<1>2. CASE ServeOthers
  BY <1>0, <1>a, <1>2 DEF ServeOthers, StartFetch, pageVars
<1>3. CASE Mount
  <2>1. FeedInv'
    BY <1>a, <1>3 DEF Mount, serverVars
  <2>2. ASSUME price' # None
        PROVE  Timely(price', now, now - pageCache.at)
    <3>1. pageCache # None /\ price' = pageCache.price
      BY <1>3, <2>2 DEF Mount
    <3>2. /\ pageCache.at \in Nat /\ now \in Nat
          /\ JudgedBy(pageCache.price, pageCache.at - (Ttl - 1))
      BY <3>1 DEF FeedInv, CachesOk
    <3> DEFINE at == pageCache.at
               p == pageCache.price
    <3>3. at \in Nat /\ JudgedBy(p, at - (Ttl - 1)) /\ now - at \in Int /\ now - at <= now - at
      BY <3>2
    <3> HIDE DEF at, p
    <3>4. Timely(p, now, now - at)
      BY <3>2, <3>3, JudgedIsTimely
    <3> QED
      BY <3>1, <3>4 DEF at, p
  <2> QED
    BY <1>3, <2>1, <2>2 DEF FeedStepOk
<1>4. ASSUME NEW f \in fetching, FetchArrives(f)
      PROVE  FeedStepOk
  <2>1. PICK time \in 0 .. now :
          (Cached(Judged(time)) \/ CachedOnPhp) /\ Settle(f, Judged(time))
    BY <1>4 DEF FetchArrives
  <2> DEFINE p == Judged(time)
  <2>2. Settle(f, p) /\ (cache' = cache \/ cache' = [at |-> now, price |-> p])
    BY <2>1 DEF Cached, CachedOnPhp
  <2>3. JudgedBy(p, now)
    BY JudgedNow DEF FeedInv, CachesOk
  <2> HIDE DEF p
  <2>4. FeedInv'
    BY <2>2, <2>3, SettleKeeps
  <2> QED
    BY <1>0, <2>2, <2>4 DEF Settle, pageVars
<1>5. ASSUME NEW f \in fetching, FetchFails(f)
      PROVE  FeedStepOk
  <2>1. Settle(f, None) /\ cache' = cache
    BY <1>5 DEF FetchFails
  <2>2. FeedInv'
    BY <2>1, SettleKeeps
  <2> QED
    BY <1>0, <2>1, <2>2 DEF Settle, pageVars
<1>6. ASSUME NEW r \in Free, Refresh(r)
      PROVE  FeedStepOk
  <2>1. now' = now /\ UNCHANGED <<cache, pageCache>> /\ r \in Refreshes /\ now \in Nat
    BY <1>6 DEF Refresh, Free, FeedInv, CachesOk, serverVars
  <2>2. CASE Recent(pageCache) /\ Show(pageCache.price) /\ UNCHANGED refreshes
    <3>1. FeedInv'
      BY <1>a, <2>1, <2>2
    <3> DEFINE at == pageCache.at
               p == pageCache.price
    <3>2. at \in Nat /\ JudgedBy(p, at - (Ttl - 1)) /\ now - at < Ttl /\ price' = p
      BY <2>2 DEF Recent, Show, FeedInv, CachesOk
    <3> HIDE DEF at, p
    <3>4. now - at <= Longest /\ Longest \in Int /\ now - at \in Int /\ now - at <= now - at
      BY <2>1, <3>2, LongestIsLonger
    <3>5. Timely(p, now, Longest) /\ Timely(p, now, now - at)
      BY <2>1, <3>2, <3>4, JudgedIsTimely
    <3> QED
      BY <3>1, <3>2, <3>5 DEF FeedStepOk, at, p
  <2>3. CASE ~Recent(pageCache)
    <3> DEFINE v == [stage |-> "asking", since |-> now, value |-> None]
    <3>1. refreshes' = [refreshes EXCEPT ![r] = v] /\ price' = price
      BY <1>6, <2>3 DEF Refresh
    <3>2. v \in [stage : {v.stage}, since : Nat, value : {v.value}]
          /\ v.stage = "asking" /\ v.since = now
      BY <2>1
    <3> HIDE DEF v
    <3>3. RefreshOk(v)
      BY <2>1, <3>2 DEF RefreshOk
    <3>4. CachesOk'
      BY <2>1 DEF FeedInv, CachesOk, JudgedBy
    <3>5. FeedInv'
      BY <2>1, <3>1, <3>3, <3>4, RefreshMoves
    <3> QED
      BY <1>0, <3>1, <3>5
  <2> QED
    BY <1>6, <2>2, <2>3 DEF Refresh
<1>7. ASSUME NEW r \in Refreshes \ Free, Serve(r)
      PROVE  FeedStepOk
  BY <1>0, <1>7, ServeKeeps DEF Serve, pageVars
<1>8. ASSUME NEW r \in Refreshes \ Free, NEW p, Keep(r, p),
             JudgedBy(p, refreshes[r].since - (Ttl - 1))
      PROVE  FeedStepOk
  <2>1. FeedInv' /\ (price' # price => Timely(price', now, Longest))
    BY <1>b, <1>8, KeepKeeps
  <2>2. ~Mount
    <3>1. refreshes[r] # None /\ refreshes' = [refreshes EXCEPT ![r] = None]
      BY <1>b, <1>8 DEF Keep
    <3>2. refreshes'[r] = None
      BY <3>1 DEF FeedInv
    <3> QED
      BY <3>1, <3>2 DEF Mount
  <2> QED
    BY <2>1, <2>2 DEF FeedStepOk
<1>9. ASSUME NEW r \in Refreshes \ Free, HearBackend(r)
      PROVE  FeedStepOk
  <2>1. RefreshOk(refreshes[r]) /\ refreshes[r].stage = "answered" /\ refreshes[r].value # None
        /\ Keep(r, refreshes[r].value)
    BY <1>b, <1>9 DEF HearBackend
  <2>2. JudgedBy(refreshes[r].value, refreshes[r].since - (Ttl - 1))
    BY <2>1 DEF RefreshOk
  <2> QED
    BY <1>8, <2>1, <2>2
<1>10. ASSUME NEW r \in Refreshes \ Free, AskHermes(r)
       PROVE  FeedStepOk
  <2>1. Reach(r, "direct", None) /\ UNCHANGED <<now, cache, pageCache, price>>
    BY <1>10 DEF AskHermes, serverVars, pageVars
  <2>2. FeedInv'
    BY <1>b, <2>1, ReachKeeps
  <2> QED
    BY <1>0, <2>1, <2>2
<1>11. ASSUME NEW r \in Refreshes \ Free, HearHermes(r)
       PROVE  FeedStepOk
  <2>1. PICK time \in 0 .. now : Keep(r, Judged(time))
    BY <1>11 DEF HearHermes
  <2> DEFINE p == Judged(time)
             since == refreshes[r].since
  <2>2. JudgedBy(p, now) /\ Keep(r, p)
    BY <2>1, JudgedNow DEF FeedInv, CachesOk
  <2>3. since \in Nat /\ since <= now /\ now \in Nat
    BY <1>b DEF RefreshOk, FeedInv, CachesOk
  <2> HIDE DEF p, since
  <2>4. since - (Ttl - 1) \in Int /\ since - (Ttl - 1) <= now /\ now \in Int
    BY <2>3
  <2>5. JudgedBy(p, since - (Ttl - 1))
    BY <2>2, <2>4, JudgedEarlier
  <2> QED
    BY <1>8, <2>2, <2>5 DEF since
<1>12. ASSUME NEW r \in Refreshes \ Free, SayUnavailable(r)
       PROVE  FeedStepOk
  <2>1. /\ refreshes' = [refreshes EXCEPT ![r] = None]
        /\ UNCHANGED <<now, serverVars, pageCache, price>>
    BY <1>12 DEF SayUnavailable
  <2>2. CachesOk'
    BY <2>1 DEF FeedInv, CachesOk, serverVars, JudgedBy
  <2>3. FeedInv'
    BY <2>1, <2>2, RefreshMoves
  <2> QED
    BY <1>0, <2>1, <2>3
<1>13. CASE UNCHANGED feedVars
  BY <1>0, <1>a, <1>13 DEF feedVars, serverVars, pageVars
<1> QED
  BY <1>1, <1>2, <1>3, <1>4, <1>5, <1>6, <1>7, <1>9, <1>10, <1>11, <1>12, <1>13 DEF FeedNext

(* Through the caches, joined fetches, overlapping refreshes and the pages *)
(* that open on an old price, what comes on the screen as fresh is late by *)
(* no more than a cache life and the time since its refresh began.         *)
THEOREM FreshIsRecent == FeedSpec => ShownInTime
<1>1. FeedInit => FeedInv
  BY DEF FeedInit, FeedInv, CachesOk
<1>2. FeedInv /\ [FeedNext]_feedVars => FeedInv'
  BY FeedStepsAreOk DEF FeedStepOk
<1>3. FeedInv /\ [FeedNext]_feedVars =>
        [price' # price /\ price' # None /\ ~price'.stale =>
           now - price'.time <= StaleAfter + (Ttl - 1) +
             (IF Mount THEN now - pageCache.at ELSE Longest)]_feedVars
  BY FeedStepsAreOk DEF FeedStepOk, Timely
<1> QED
  BY <1>1, <1>2, <1>3, PTL DEF FeedSpec, ShownInTime

(***************************************************************************)
(* The waitlist.                                                           *)
(***************************************************************************)

Form == [entry : Entries \union {Unfilled}, waits : Posts \union {NoPost},
         note : {"none", "error"} \union Told, about : Entries \union {Unfilled}]

(* What a form shows of the entry it was told about.                       *)
TrueTale(g, about, table) ==
  /\ about \in EntriesOf(g)
  /\ about.kind # "trapped" =>
       Lowered[about.email] \in table /\ about.role \in RoleTypes

(* A post under way is an entry of the form that waits for it, and only an *)
(* entry that keeps the rules is inserted; what a form was told holds.     *)
ListInv ==
  /\ forms \in [Guests -> Form]
  /\ posts \in [Posts -> {NoPost} \union Post]
  /\ \A p \in Posts : posts[p] # NoPost /\ posts[p].inserting =>
       posts[p].entry.role \in RoleTypes
  /\ \A g \in Guests :
       /\ forms[g].entry \in EntriesOf(g) \union {Unfilled}
       /\ Busy(g) => posts[forms[g].waits] # NoPost
                       /\ posts[forms[g].waits].entry \in EntriesOf(g)
       /\ forms[g].note \in Told => TrueTale(g, forms[g].about, rows)

LEMMA EntriesAreEntries == ASSUME NEW g \in Guests PROVE EntriesOf(g) \subseteq Entries
BY DEF Entries

(* Replacing a form by one that waits for nothing and was told no good     *)
(* news keeps the invariant.                                               *)
LEMMA QuietKeeps ==
  ASSUME ListInv, NEW g \in Guests, NEW v \in Form, forms' = [forms EXCEPT ![g] = v],
         v.waits = NoPost, v.note \notin Told, v.entry \in EntriesOf(g) \union {Unfilled},
         posts' = posts, rows' = rows
  PROVE  ListInv'
<1>1. \A q \in Guests : forms'[q] = IF q = g THEN v ELSE forms[q]
  BY DEF ListInv
<1>2. forms' \in [Guests -> Form]
  BY DEF ListInv
<1> QED
  BY <1>1, <1>2 DEF ListInv, Busy, TrueTale

(* Whoever waits for the post is told.                                     *)
LEMMA ReplyKeeps ==
  ASSUME ListInv, NEW p \in Posts, posts[p] # NoPost, NEW note \in {"error"} \union Told,
         Reply(p, note), rows \subseteq rows',
         note \in Told /\ posts[p].entry.kind # "trapped" =>
           Lowered[posts[p].entry.email] \in rows' /\ posts[p].entry.role \in RoleTypes
  PROVE  ListInv'
<1> USE NoPostIsNoPost
<1> DEFINE Heard(g) ==
      IF note \in Told
      THEN [Note(forms[g], note, posts[p].entry) EXCEPT !.entry = Unfilled]
      ELSE Note(forms[g], note, Unfilled)
<1>0. /\ posts' = [posts EXCEPT ![p] = NoPost]
      /\ \A g \in Guests : forms'[g] = IF forms[g].waits # p THEN forms[g] ELSE Heard(g)
      /\ forms' = [g \in Guests |-> forms'[g]]
  BY DEF Reply
<1>1. /\ posts' \in [Posts -> {NoPost} \union Post]
      /\ \A q \in Posts : posts'[q] = IF q = p THEN NoPost ELSE posts[q]
  BY <1>0 DEF ListInv
<1>2. posts[p].entry \in Entries
  BY DEF ListInv, Post
<1>3. ASSUME NEW g \in Guests, forms[g].waits = p
      PROVE  /\ Heard(g) \in Form /\ Heard(g).waits = NoPost
             /\ Heard(g).entry \in EntriesOf(g) \union {Unfilled}
             /\ Heard(g).note \in Told => TrueTale(g, Heard(g).about, rows')
  <2>1. forms[g] \in Form /\ forms[g].entry \in EntriesOf(g) \union {Unfilled}
    BY DEF ListInv
  <2>2. posts[p].entry \in EntriesOf(g)
    BY <1>3 DEF ListInv, Busy
  <2>3. CASE note \in Told
    <3>1. /\ Heard(g).waits = NoPost /\ Heard(g).note = note
          /\ Heard(g).entry = Unfilled /\ Heard(g).about = posts[p].entry
          /\ Heard(g) \in Form
      BY <1>2, <2>1, <2>3 DEF Note, Form
    <3> HIDE DEF Heard
    <3> QED
      BY <2>2, <2>3, <3>1 DEF TrueTale
  <2>4. CASE note \notin Told
    <3>1. /\ Heard(g).waits = NoPost /\ Heard(g).note = note
          /\ Heard(g).entry = forms[g].entry /\ Heard(g) \in Form
      BY <2>1, <2>4 DEF Note, Form
    <3> HIDE DEF Heard
    <3> QED
      BY <2>1, <2>4, <3>1
  <2> QED
    BY <2>3, <2>4
<1> HIDE DEF Heard
<1>4. forms' \in [Guests -> Form]
  BY <1>0, <1>3 DEF ListInv
<1>5. ASSUME NEW g \in Guests
      PROVE  /\ forms'[g].entry \in EntriesOf(g) \union {Unfilled}
             /\ Busy(g)' => posts'[forms'[g].waits] # NoPost
                              /\ posts'[forms'[g].waits].entry \in EntriesOf(g)
             /\ forms'[g].note \in Told => TrueTale(g, forms'[g].about, rows')
  <2>1. CASE forms[g].waits = p
    BY <1>0, <1>3, <2>1 DEF Busy
  <2>2. CASE forms[g].waits # p
    <3>1. forms'[g] = forms[g]
      BY <1>0, <2>2
    <3>2. forms[g].waits \in Posts \union {NoPost}
      BY DEF ListInv, Form
    <3> QED
      BY <1>1, <2>2, <3>1, <3>2 DEF ListInv, Busy, TrueTale
  <2> QED
    BY <2>1, <2>2
<1>6. \A q \in Posts : posts'[q] # NoPost /\ posts'[q].inserting =>
        posts'[q].entry.role \in RoleTypes
  BY <1>1 DEF ListInv
<1> QED
  BY <1>1, <1>4, <1>5, <1>6 DEF ListInv

LEMMA ListInvInductive == ListInv /\ [WaitlistNext]_waitlistVars => ListInv'
<1> SUFFICES ASSUME ListInv, [WaitlistNext]_waitlistVars
             PROVE  ListInv'
  OBVIOUS
<1> USE NoPostIsNoPost
<1>0. ASSUME NEW g \in Guests
      PROVE  forms[g] \in Form /\ forms[g].entry \in EntriesOf(g) \union {Unfilled}
  BY DEF ListInv
<1>1. ASSUME NEW g \in Guests, ShowsError(g), posts' = posts, rows' = rows
      PROVE  ListInv'
  <2> DEFINE v == Note(forms[g], "error", Unfilled)
  <2>1. forms' = [forms EXCEPT ![g] = v]
    BY <1>1 DEF ListInv, ShowsError
  <2>2. v \in Form /\ v.waits = NoPost /\ v.note = "error" /\ v.entry = forms[g].entry
    BY <1>0 DEF Note, Form
  <2>3. v.note \notin Told
    BY <2>2 DEF Told
  <2> HIDE DEF v
  <2> QED
    BY <1>0, <1>1, <2>1, <2>2, <2>3, QuietKeeps
<1>2. ASSUME NEW g \in Guests, Edit(g)
      PROVE  ListInv'
  <2>1. PICK e \in EntriesOf(g) : forms' = [forms EXCEPT ![g].entry = e]
    BY <1>2 DEF Edit
  <2>2. posts' = posts /\ rows' = rows /\ e \in Entries
    BY <1>2, EntriesAreEntries DEF Edit
  <2> DEFINE v == [forms[g] EXCEPT !.entry = e]
  <2>3. forms' = [forms EXCEPT ![g] = v]
    BY <2>1 DEF ListInv
  <2>4. /\ v \in Form /\ v.waits = forms[g].waits /\ v.note = forms[g].note
        /\ v.about = forms[g].about /\ v.entry = e
    BY <1>0, <2>2 DEF Form
  <2> HIDE DEF v
  <2>5. forms' \in [Guests -> Form] /\ \A q \in Guests : forms'[q] = IF q = g THEN v ELSE forms[q]
    BY <2>3, <2>4 DEF ListInv
  <2>6. ASSUME NEW q \in Guests
        PROVE  /\ forms'[q].entry \in EntriesOf(q) \union {Unfilled}
               /\ forms'[q].waits = forms[q].waits /\ forms'[q].note = forms[q].note
               /\ forms'[q].about = forms[q].about
    BY <1>0, <2>4, <2>5
  <2> QED
    BY <2>2, <2>5, <2>6 DEF ListInv, Busy, TrueTale
<1>3. ASSUME NEW g \in Guests, NEW p \in Posts, ~Busy(g), posts[p] = NoPost, rows' = rows,
             forms[g].entry # Unfilled,
             posts' = [posts EXCEPT ![p] = [entry |-> forms[g].entry, inserting |-> FALSE]],
             forms' = [forms EXCEPT ![g] =
                         [Note(forms[g], "none", Unfilled) EXCEPT !.waits = p]]
      PROVE  ListInv'
  <2> DEFINE v == [Note(forms[g], "none", Unfilled) EXCEPT !.waits = p]
             n == [entry |-> forms[g].entry, inserting |-> FALSE]
  <2>1. forms' = [forms EXCEPT ![g] = v] /\ posts' = [posts EXCEPT ![p] = n]
    BY <1>3
  <2>2. v \in Form /\ v.waits = p /\ v.note = "none" /\ v.entry = forms[g].entry
    BY <1>0 DEF Note, Form
  <2>3. forms[g].entry \in EntriesOf(g) /\ forms[g].entry \in Entries
    BY <1>0, <1>3, EntriesAreEntries
  <2>4. n \in Post /\ n.entry = forms[g].entry /\ ~n.inserting
    BY <2>3 DEF Post
  <2>5. v.note \notin Told
    BY <2>2 DEF Told
  <2> HIDE DEF v, n
  <2>6. /\ posts' \in [Posts -> {NoPost} \union Post]
        /\ \A q \in Posts : posts'[q] = IF q = p THEN n ELSE posts[q]
    BY <2>1, <2>4 DEF ListInv
  <2>7. /\ forms' \in [Guests -> Form]
        /\ \A q \in Guests : forms'[q] = IF q = g THEN v ELSE forms[q]
    BY <2>1, <2>2 DEF ListInv
  <2>8. ASSUME NEW q \in Guests
        PROVE  /\ forms'[q].entry \in EntriesOf(q) \union {Unfilled}
               /\ Busy(q)' => posts'[forms'[q].waits] # NoPost
                                /\ posts'[forms'[q].waits].entry \in EntriesOf(q)
               /\ forms'[q].note \in Told => TrueTale(q, forms'[q].about, rows')
    <3>1. CASE q = g
      BY <2>2, <2>3, <2>4, <2>5, <2>6, <2>7, <3>1
    <3>2. CASE q # g
      <4>1. forms'[q] = forms[q]
        BY <2>7, <3>2
      <4>2. Busy(q) => forms[q].waits \in Posts /\ forms[q].waits # p
        BY <1>0, <1>3 DEF ListInv, Busy, Form
      <4>3. Busy(q) => posts'[forms[q].waits] = posts[forms[q].waits]
        BY <2>6, <4>2
      <4>4. forms[q].note \in Told => TrueTale(q, forms[q].about, rows')
        BY <1>3 DEF ListInv
      <4>5. Busy(q) => posts[forms[q].waits] # NoPost
                         /\ posts[forms[q].waits].entry \in EntriesOf(q)
        BY DEF ListInv
      <4>6. Busy(q)' <=> Busy(q)
        BY <4>1 DEF Busy
      <4> QED
        BY <1>0, <4>1, <4>3, <4>4, <4>5, <4>6
    <3> QED
      BY <3>1, <3>2
  <2>9. \A q \in Posts : posts'[q] # NoPost /\ posts'[q].inserting =>
          posts'[q].entry.role \in RoleTypes
    BY <2>4, <2>6 DEF ListInv
  <2> QED
    BY <2>6, <2>7, <2>8, <2>9 DEF ListInv
<1>4. ASSUME NEW g \in Guests, Submit(g)
      PROVE  ListInv'
  <2>1. rows' = rows /\ ~Busy(g)
    BY <1>4 DEF Submit
  <2>2. CASE ShowsError(g) /\ posts' = posts
    BY <1>1, <2>1, <2>2
  <2>3. ASSUME NEW p \in Posts, posts[p] = NoPost, forms[g].entry # Unfilled,
               posts' = [posts EXCEPT ![p] = [entry |-> forms[g].entry, inserting |-> FALSE]],
               forms' = [forms EXCEPT ![g] = [Note(@, "none", Unfilled) EXCEPT !.waits = p]]
        PROVE  ListInv'
    <3>1. forms' = [forms EXCEPT ![g] = [Note(forms[g], "none", Unfilled) EXCEPT !.waits = p]]
      BY <2>3 DEF ListInv
    <3> QED
      BY <1>3, <2>1, <2>3, <3>1
  <2> QED
    BY <1>4, <2>2, <2>3 DEF Submit
<1>5. ASSUME NEW g \in Guests, Disconnected(g)
      PROVE  ListInv'
  BY <1>1, <1>5 DEF Disconnected
<1>6. ASSUME NEW p \in Posts, Validate(p)
      PROVE  ListInv'
  <2>1. posts[p] \in Post /\ posts[p] # NoPost /\ rows' = rows
    BY <1>6 DEF Validate, At, ListInv
  <2>2. CASE posts[p].entry.kind = "trapped"
    <3>1. Reply(p, "thanked")
      BY <1>6, <2>2 DEF Validate
    <3> QED
      BY <2>1, <2>2, <3>1, ReplyKeeps DEF Told
  <2>3. CASE posts[p].entry.kind # "trapped" /\ Refusable(posts[p].entry)
    <3>1. Reply(p, "error")
      BY <1>6, <2>3 DEF Validate
    <3> QED
      BY <2>1, <3>1, ReplyKeeps DEF Told
  <2>4. CASE posts[p].entry.kind # "trapped" /\ ~Refusable(posts[p].entry)
    <3> DEFINE n == [posts[p] EXCEPT !.inserting = TRUE]
    <3>1. forms' = forms /\ posts' = [posts EXCEPT ![p] = n]
      BY <1>6, <2>4 DEF Validate, ListInv
    <3>2. n \in Post /\ n.entry = posts[p].entry /\ n.entry.role \in RoleTypes
      BY <2>1, <2>4 DEF Post, Refusable
    <3> HIDE DEF n
    <3>3. /\ posts' \in [Posts -> {NoPost} \union Post]
          /\ \A q \in Posts : posts'[q] = IF q = p THEN n ELSE posts[q]
      BY <3>1, <3>2 DEF ListInv
    <3>4. ASSUME NEW q \in Guests, Busy(q)
          PROVE  posts'[forms[q].waits] # NoPost
                   /\ posts'[forms[q].waits].entry \in EntriesOf(q)
      <4>1. forms[q].waits \in Posts
        BY <1>0, <3>4 DEF Busy, Form
      <4> QED
        BY <3>2, <3>3, <3>4, <4>1 DEF ListInv
    <3> QED
      BY <2>1, <3>1, <3>2, <3>3, <3>4 DEF ListInv, Busy, TrueTale
  <2> QED
    BY <2>2, <2>3, <2>4
<1>7. ASSUME NEW p \in Posts, Insert(p)
      PROVE  ListInv'
  <2> DEFINE address == Lowered[posts[p].entry.email]
  <2>1. posts[p] # NoPost /\ rows' = rows \union {address} /\ posts[p].entry.role \in RoleTypes
    BY <1>7 DEF Insert, At, ListInv
  <2>2. Reply(p, "already") \/ Reply(p, "thanked")
    BY <1>7 DEF Insert, Refused, IsDuplicate
  <2> QED
    BY <2>1, <2>2, ReplyKeeps DEF Told
<1>8. ASSUME NEW p \in Posts, InsertFails(p)
      PROVE  ListInv'
  <2>1. posts[p] # NoPost /\ rows' = rows /\ Reply(p, "error")
    BY <1>8 DEF InsertFails, At, Refused, IsDuplicate
  <2> QED
    BY <2>1, ReplyKeeps DEF Told
<1>9. CASE UNCHANGED waitlistVars
  BY <1>9 DEF waitlistVars, ListInv, Busy, TrueTale
<1> QED
  BY <1>2, <1>4, <1>5, <1>6, <1>7, <1>8, <1>9 DEF WaitlistNext

(* Through lost answers, second presses and refused inserts, whoever is    *)
(* told to be on the list is, with a role the function knows; whatever the *)
(* forms offer.                                                            *)
THEOREM ListedAsTold == WaitlistSpec => []ToldIsListed
<1>1. WaitlistInit => ListInv
  BY NoPostIsNoPost DEF WaitlistInit, ListInv, Busy, Form, Told
<1>2. ListInv => ToldIsListed
  BY DEF ListInv, ToldIsListed, TrueTale, EntriesOf
<1> QED
  BY <1>1, <1>2, ListInvInductive, PTL DEF WaitlistSpec

(***************************************************************************)
(* The deployment script: one listing per symbol.                          *)
(***************************************************************************)
MintMap == [Symbols -> Mints \union {Nothing}]

Steps == 1 .. Len(Plan)

DeploymentTypes ==
  /\ script \in [step : Steps, phase : {"check", "mint", "send"}, left : Nat,
                 mints : MintMap, config : MintMap] \union {Nothing}
  /\ chain \in [done : SUBSET {Plan[i] : i \in Steps}, mints : [Mints -> Symbols \union {Nothing}],
                listed : SUBSET Mints]
  /\ repo \in [manifest : MintMap \union {Nothing}, config : MintMap, frontend : MintMap]

Manifest == Known(repo.manifest)

(* A mint that is known for a symbol was created for it.                   *)
Made(mints) == \A s \in Symbols : mints[s] # Nothing => chain.mints[mints[s]] = s

(* The running script knows what the manifest says, and has a mint for the *)
(* asset it lists.                                                         *)
ScriptInv ==
  script # Nothing =>
    /\ script.mints = Manifest
    /\ Made(script.config)
    /\ Item \in Symbols /\ script.phase # "mint" => script.mints[Item] # Nothing
    /\ script.phase = "mint" => Item \in Symbols

(* The mint of a symbol that was not lost: the manifest's, and until the   *)
(* manifest knows one the configured one.                                  *)
KnownMint(s) == IF Manifest[s] # Nothing THEN Manifest[s] ELSE repo.config[s]

(* For such a symbol only that mint is listed, the configuration does not  *)
(* name another, and the script has read no other.  It may have read none, *)
(* but then it finds the configured one in its manifest.                   *)
SymbolInv(s) ==
  /\ \A m \in chain.listed : chain.mints[m] = s => m = KnownMint(s)
  /\ Manifest[s] # Nothing => repo.config[s] \in {Nothing, Manifest[s]}
  /\ script # Nothing =>
       /\ script.config[s] \in {Nothing, repo.config[s]}
       /\ script.config[s] = Nothing /\ repo.config[s] # Nothing => Manifest[s] = repo.config[s]

DeploymentInv ==
  /\ DeploymentTypes /\ ScriptInv
  /\ Made(Manifest) /\ Made(repo.config)
  /\ \A s \in Symbols \ lost : SymbolInv(s)

LEMMA PlanFacts ==
  /\ Len(Plan) \in Nat \ {0} /\ Plan[1] = TopUp /\ TopUp \notin Symbols
  /\ \A i \in Steps : Plan[i] \in Symbols => i > 1
<1> DEFINE Names == {TopUp} \union {Configs[i] : i \in DOMAIN Configs} \union Symbols
<1>1. <<TopUp>> \in Seq(Names) /\ Configs \in Seq(Names) /\ Assets \in Seq(Names)
  BY DeploymentAssumption
<1>2. /\ <<TopUp>> \o Configs \in Seq(Names) /\ Len(<<TopUp>> \o Configs) = 1 + Len(Configs)
      /\ (<<TopUp>> \o Configs)[1] = TopUp
  BY <1>1
<1>3. /\ Plan \in Seq(Names) /\ Len(Plan) = 1 + Len(Configs) + Len(Assets) /\ Plan[1] = TopUp
      /\ \A i \in 1 .. Len(Assets) : Plan[1 + Len(Configs) + i] = Assets[i]
  BY <1>1, <1>2 DEF Plan
<1>4. Len(Configs) \in Nat /\ Len(Assets) \in Nat /\ DOMAIN Plan = 1 .. Len(Plan)
      /\ DOMAIN Assets = 1 .. Len(Assets)
  BY <1>1, <1>3
<1>5. TopUp \notin Symbols
  <2> SUFFICES ASSUME NEW i \in 1 .. Len(Assets), Assets[i] = TopUp
               PROVE  FALSE
    BY <1>4 DEF Symbols
  <2>1. 1 \in DOMAIN Plan /\ 1 + Len(Configs) + i \in DOMAIN Plan /\ 1 # 1 + Len(Configs) + i
    BY <1>3, <1>4
  <2> QED
    BY <1>3, <2>1, DeploymentAssumption
<1> QED
  BY <1>3, <1>4, <1>5 DEF Steps

LEMMA TypeFacts ==
  ASSUME DeploymentTypes
  PROVE  /\ script # Nothing =>
              /\ script \in [step : Steps, phase : {"check", "mint", "send"}, left : Nat,
                             mints : MintMap, config : MintMap]
              /\ script.mints \in MintMap /\ script.config \in MintMap /\ script.step \in Steps
         /\ repo.manifest \in MintMap \union {Nothing} /\ repo.config \in MintMap
         /\ repo.frontend \in MintMap /\ Manifest \in MintMap
         /\ chain.mints \in [Mints -> Symbols \union {Nothing}] /\ chain.listed \subseteq Mints
BY DEF DeploymentTypes, Manifest, Known, NoMints, MintMap

(* A manifest that was written is known. *)
LEMMA WrittenIsKnown ==
  ASSUME NEW mints \in MintMap
  PROVE  Known(mints) = mints
BY DeploymentAssumption DEF Known, MintMap

(* The script reads or retries: no chain or file changes. *)
LEMMA ScriptStepKeeps ==
  ASSUME DeploymentInv, DeploymentTypes', ScriptInv', UNCHANGED <<chain, repo, lost>>,
         script' # Nothing => \/ script # Nothing /\ script'.config = script.config
                              \/ script'.config = repo.config
  PROVE  DeploymentInv'
<1>1. Manifest' = Manifest
  BY DEF Manifest
<1>2. Made(Manifest)' /\ Made(repo.config)'
  BY <1>1 DEF DeploymentInv, Made
<1>3. ASSUME NEW s \in Symbols \ lost'
      PROVE  SymbolInv(s)'
  <2>1. SymbolInv(s)
    BY DEF DeploymentInv
  <2> QED
    BY <1>1, <2>1 DEF SymbolInv, KnownMint
<1> QED
  BY <1>2, <1>3 DEF DeploymentInv

LEMMA StartKeeps ==
  ASSUME DeploymentInv, Start
  PROVE  DeploymentInv'
<1> DEFINE v == [step |-> 1, phase |-> "check", left |-> Attempts,
                 mints |-> Known(repo.manifest), config |-> repo.config]
<1>1. script' = v /\ chain' = chain /\ repo' = repo /\ lost' = lost
  BY DEF Start
<1>2. /\ v.step = 1 /\ v.phase = "check" /\ v.mints = Manifest /\ v.config = repo.config
      /\ v \in [step : Steps, phase : {"check", "mint", "send"}, left : Nat,
                mints : MintMap, config : MintMap]
  BY PlanFacts, TypeFacts, DeploymentAssumption DEF DeploymentInv, Manifest, Steps
<1> HIDE DEF v
<1>3. DeploymentTypes'
  BY <1>1, <1>2 DEF DeploymentInv, DeploymentTypes
<1>4. ScriptInv'
  BY <1>1, <1>2, PlanFacts DEF DeploymentInv, ScriptInv, Manifest, Item, Made
<1> QED
  BY <1>1, <1>2, <1>3, <1>4, ScriptStepKeeps

(* The script goes on to another phase of its step, or retries it.         *)
LEMMA SameStepKeeps ==
  ASSUME DeploymentInv, script # Nothing, UNCHANGED <<chain, repo, lost>>,
         \/ script.phase = "check" /\ script' = [script EXCEPT !.phase = "send"]
         \/ script.left > 1 /\ script' = [script EXCEPT !.left = @ - 1]
         \/ script' = Nothing
  PROVE  DeploymentInv'
<1>1. DeploymentTypes /\ ScriptInv
  BY DEF DeploymentInv
<1>2. CASE script' = Nothing
  BY <1>1, <1>2, ScriptStepKeeps DEF DeploymentTypes, ScriptInv
<1>3. CASE script' # Nothing
  <2>1. /\ script' \in [step : Steps, phase : {"check", "mint", "send"}, left : Nat,
                        mints : MintMap, config : MintMap]
        /\ script'.step = script.step /\ script'.mints = script.mints
        /\ script'.config = script.config
        /\ script'.phase = "mint" => script.phase = "mint"
        /\ script.phase = "mint" => script'.phase = "mint"
    BY <1>1, <1>3, TypeFacts
  <2>2. DeploymentTypes'
    BY <1>1, <2>1 DEF DeploymentTypes
  <2>3. ScriptInv'
    BY <1>1, <2>1 DEF ScriptInv, Manifest, Item, Made
  <2> QED
    BY <2>1, <2>2, <2>3, ScriptStepKeeps
<1> QED
  BY <1>2, <1>3

(* What Advance leaves of the running script. *)
LEMMA AdvanceFacts ==
  ASSUME DeploymentInv, script # Nothing, Advance
  PROVE  \/ script' = Nothing
         \/ /\ script' \in [step : Steps, phase : {"check", "mint", "send"}, left : Nat,
                            mints : MintMap, config : MintMap]
            /\ script'.mints = script.mints /\ script'.config = script.config
            /\ script'.phase = "mint" <=> Plan[script'.step] \in Symbols
<1> DEFINE phase == IF Plan[script.step + 1] \in Symbols THEN "mint" ELSE "check"
           v == [script EXCEPT !.step = @ + 1, !.left = Attempts, !.phase = phase]
<1>1. script' = Nothing \/ (script.step # Len(Plan) /\ script' = v)
  BY DEF Advance
<1>2. script \in [step : Steps, phase : {"check", "mint", "send"}, left : Nat,
                  mints : MintMap, config : MintMap]
  BY TypeFacts DEF DeploymentInv
<1>3. script.step \in Steps /\ (script.step # Len(Plan) => script.step + 1 \in Steps)
  BY <1>2, PlanFacts DEF Steps
<1>4. phase \in {"check", "mint", "send"} /\ (phase = "mint" <=> Plan[script.step + 1] \in Symbols)
  OBVIOUS
<1> HIDE DEF phase
<1>5. ASSUME script.step # Len(Plan)
      PROVE  /\ v \in [step : Steps, phase : {"check", "mint", "send"}, left : Nat,
                       mints : MintMap, config : MintMap]
             /\ v.mints = script.mints /\ v.config = script.config
             /\ v.step = script.step + 1 /\ v.phase = phase
  BY <1>2, <1>3, <1>4, <1>5, DeploymentAssumption
<1> HIDE DEF v
<1> QED
  BY <1>1, <1>4, <1>5

LEMMA SkipKeeps ==
  ASSUME DeploymentInv, Skip
  PROVE  DeploymentInv'
<1>1. script # Nothing /\ Advance /\ chain' = chain /\ repo' = repo /\ lost' = lost
  BY DEF Skip, In
<1>2. DeploymentTypes /\ ScriptInv
  BY DEF DeploymentInv
<1>3. DeploymentTypes'
  BY <1>1, <1>2, AdvanceFacts DEF DeploymentTypes
<1>4. ScriptInv'
  BY <1>1, <1>2, AdvanceFacts DEF ScriptInv, Manifest, Item, Made
<1> QED
  BY <1>1, <1>3, <1>4, AdvanceFacts, ScriptStepKeeps

(* A transaction lands: what is listed is the mint of the manifest, which  *)
(* was created for the symbol.                                             *)
LEMMA LandsFacts ==
  ASSUME DeploymentInv, script # Nothing, script.phase = "send", Lands
  PROVE  /\ chain'.mints = chain.mints
         /\ chain' \in [done : SUBSET {Plan[i] : i \in Steps}, mints : [Mints -> Symbols \union {Nothing}],
                        listed : SUBSET Mints]
         /\ \A m \in chain'.listed : m \in chain.listed \/ m = Manifest[chain.mints[m]]
<1>1. /\ chain \in [done : SUBSET {Plan[i] : i \in Steps}, mints : [Mints -> Symbols \union {Nothing}],
                    listed : SUBSET Mints]
      /\ script.step \in Steps /\ script.mints = Manifest /\ Manifest \in MintMap
      /\ Item \in Symbols => Manifest[Item] # Nothing
      /\ Made(Manifest)
  BY TypeFacts DEF DeploymentInv, DeploymentTypes, ScriptInv
<1>2. CASE Item \in Symbols
  <2>1. chain' = [chain EXCEPT !.listed = @ \union {Manifest[Item]}]
    BY <1>1, <1>2 DEF Lands
  <2>2. Manifest[Item] \in Mints /\ chain.mints[Manifest[Item]] = Item
    BY <1>1, <1>2 DEF MintMap, Made
  <2> QED
    BY <1>1, <2>1, <2>2
<1>3. CASE Item \notin Symbols
  <2>1. chain' = [chain EXCEPT !.done = @ \union {Item}]
    BY <1>3 DEF Lands
  <2>2. Item \in {Plan[i] : i \in Steps}
    BY <1>1 DEF Item
  <2> QED
    BY <1>1, <2>1, <2>2
<1> QED
  BY <1>2, <1>3

LEMMA LandsKeeps ==
  ASSUME DeploymentInv, script # Nothing, script.phase = "send", Lands,
         DeploymentTypes', ScriptInv', UNCHANGED <<repo, lost>>,
         script' # Nothing => script'.config = script.config
  PROVE  DeploymentInv'
<1>1. Manifest' = Manifest /\ chain'.mints = chain.mints
  BY LandsFacts DEF Manifest
<1>2. Made(Manifest)' /\ Made(repo.config)'
  BY <1>1 DEF DeploymentInv, Made
<1>3. ASSUME NEW s \in Symbols \ lost'
      PROVE  SymbolInv(s)'
  <2>1. SymbolInv(s) /\ Nothing \notin Symbols
    BY DeploymentAssumption DEF DeploymentInv
  <2>2. \A m \in chain'.listed : chain.mints[m] = s => m = KnownMint(s)
    <3> SUFFICES ASSUME NEW m \in chain'.listed, chain.mints[m] = s
                 PROVE  m = KnownMint(s)
      OBVIOUS
    <3>1. m \in chain.listed \/ m = Manifest[s]
      BY LandsFacts
    <3>2. CASE m = Manifest[s]
      <4>1. m \in Mints
        BY LandsFacts
      <4> QED
        BY <3>2, <4>1, DeploymentAssumption DEF KnownMint
    <3> QED
      BY <2>1, <3>1, <3>2 DEF SymbolInv
  <2> QED
    BY <1>1, <2>1, <2>2 DEF SymbolInv, KnownMint
<1> QED
  BY <1>2, <1>3 DEF DeploymentInv

LEMMA ConfirmedKeeps ==
  ASSUME DeploymentInv, Confirmed
  PROVE  DeploymentInv'
<1>1. /\ script # Nothing /\ script.phase = "send" /\ Lands /\ Advance
      /\ repo' = repo /\ lost' = lost
  BY DEF Confirmed, In
<1>2. DeploymentTypes /\ ScriptInv
  BY DEF DeploymentInv
<1>3. DeploymentTypes'
  BY <1>1, <1>2, AdvanceFacts, LandsFacts DEF DeploymentTypes
<1>4. ScriptInv'
  BY <1>1, <1>2, AdvanceFacts, LandsFacts DEF ScriptInv, Manifest, Item, Made
<1> QED
  BY <1>1, <1>3, <1>4, AdvanceFacts, LandsKeeps

LEMMA UnansweredKeeps ==
  ASSUME DeploymentInv, Unanswered
  PROVE  DeploymentInv'
<1>1. /\ script # Nothing /\ RetryOrDie /\ repo' = repo /\ lost' = lost
      /\ chain' = chain \/ (script.phase = "send" /\ Lands)
  BY DEF Unanswered
<1>2. DeploymentTypes /\ ScriptInv
  BY DEF DeploymentInv
<1>3. CASE chain' = chain
  BY <1>1, <1>3, SameStepKeeps DEF RetryOrDie
<1>4. CASE script.phase = "send" /\ Lands
  <2>1. \/ script' = Nothing
        \/ /\ script' \in [step : Steps, phase : {"check", "mint", "send"}, left : Nat,
                            mints : MintMap, config : MintMap]
           /\ script'.step = script.step /\ script'.mints = script.mints
           /\ script'.config = script.config /\ script'.phase = script.phase
    <3>1. CASE script' = Nothing
      BY <3>1
    <3>2. CASE script.left > 1 /\ script' = [script EXCEPT !.left = @ - 1]
      BY <1>1, <1>2, <3>2, TypeFacts
    <3> QED
      BY <1>1, <3>1, <3>2 DEF RetryOrDie
  <2>2. DeploymentTypes'
    BY <1>1, <1>2, <1>4, <2>1, LandsFacts DEF DeploymentTypes
  <2>3. ScriptInv'
    BY <1>1, <1>2, <1>4, <2>1, LandsFacts DEF ScriptInv, Manifest, Item, Made
  <2> QED
    BY <1>1, <1>4, <2>1, <2>2, <2>3, LandsKeeps
<1> QED
  BY <1>1, <1>3, <1>4

(***************************************************************************)
(* Mints.  Remember writes the manifest before anything is listed.         *)
(***************************************************************************)
LEMMA RememberFacts ==
  ASSUME DeploymentInv, script # Nothing, script.phase = "mint", NEW m \in Mints, Remember(m)
  PROVE  /\ Item \in Symbols
         /\ Manifest' = [Manifest EXCEPT ![Item] = m] /\ repo'.config = repo.config
         /\ repo' \in [manifest : MintMap \union {Nothing}, config : MintMap, frontend : MintMap]
         /\ script' # Nothing =>
              /\ script' \in [step : Steps, phase : {"check", "mint", "send"}, left : Nat,
                              mints : MintMap, config : MintMap]
              /\ script'.step = script.step /\ script'.phase = "check"
              /\ script'.mints = Manifest' /\ script'.config = script.config
<1> DEFINE new == [Manifest EXCEPT ![Item] = m]
           v == [script EXCEPT !.mints = new, !.phase = "check", !.left = Attempts]
<1>1. Item \in Symbols /\ script.mints = Manifest /\ Manifest \in MintMap
  BY TypeFacts DEF DeploymentInv, ScriptInv
<1>2. script \in [step : Steps, phase : {"check", "mint", "send"}, left : Nat,
                  mints : MintMap, config : MintMap]
      /\ repo \in [manifest : MintMap \union {Nothing}, config : MintMap, frontend : MintMap]
  BY TypeFacts DEF DeploymentInv, DeploymentTypes
<1>3. new \in MintMap
  BY <1>1 DEF MintMap
<1>4. [script EXCEPT !.mints[Item] = m, !.phase = "check", !.left = Attempts] = v
  BY <1>1, <1>2
<1>5. script' = v /\ repo' = [repo EXCEPT !.manifest = script'.mints]
  BY <1>4 DEF Remember
<1> HIDE DEF new
<1>6. /\ v \in [step : Steps, phase : {"check", "mint", "send"}, left : Nat,
                mints : MintMap, config : MintMap]
      /\ v.step = script.step /\ v.phase = "check" /\ v.mints = new /\ v.config = script.config
  BY <1>2, <1>3, DeploymentAssumption
<1> HIDE DEF v
<1>7. /\ repo' \in [manifest : MintMap \union {Nothing}, config : MintMap, frontend : MintMap]
      /\ repo'.manifest = new /\ repo'.config = repo.config
  BY <1>2, <1>3, <1>5, <1>6
<1>8. Manifest' = new
  BY <1>3, <1>7, WrittenIsKnown DEF Manifest
<1> QED
  BY <1>1, <1>5, <1>6, <1>7, <1>8 DEF new

LEMMA UseMintKeeps ==
  ASSUME DeploymentInv, UseMint
  PROVE  DeploymentInv'
<1> DEFINE s0 == Item
           m == Reusable(s0)
<1>1. /\ script # Nothing /\ script.phase = "mint" /\ m # Nothing /\ Remember(m)
      /\ chain' = chain /\ lost' = lost
  BY DEF UseMint, In
<1>2. s0 \in Symbols /\ script.mints = Manifest /\ Made(script.config) /\ Made(Manifest)
  BY <1>1 DEF DeploymentInv, ScriptInv
<1>3. /\ Manifest \in MintMap /\ script.config \in MintMap
      /\ chain.mints \in [Mints -> Symbols \union {Nothing}]
  BY <1>1, TypeFacts DEF DeploymentInv
<1>4. /\ m \in Mints /\ chain.mints[m] = s0
      /\ m = IF script.config[s0] # Nothing THEN script.config[s0] ELSE Manifest[s0]
  BY <1>1, <1>2, <1>3 DEF Reusable, MintMap, Made
<1> HIDE DEF m
<1>5. /\ Manifest' = [Manifest EXCEPT ![s0] = m] /\ repo'.config = repo.config
      /\ repo' \in [manifest : MintMap \union {Nothing}, config : MintMap, frontend : MintMap]
      /\ script' # Nothing =>
           /\ script' \in [step : Steps, phase : {"check", "mint", "send"}, left : Nat,
                           mints : MintMap, config : MintMap]
           /\ script'.step = script.step /\ script'.phase = "check"
           /\ script'.mints = Manifest' /\ script'.config = script.config
  BY <1>1, <1>4, RememberFacts
<1>6. \A s \in Symbols : Manifest'[s] = IF s = s0 THEN m ELSE Manifest[s]
  BY <1>3, <1>5 DEF MintMap
<1>7. Made(Manifest)' /\ Made(repo.config)'
  BY <1>1, <1>2, <1>4, <1>5, <1>6 DEF DeploymentInv, Made
<1>8. DeploymentTypes'
  BY <1>1, <1>5 DEF DeploymentInv, DeploymentTypes
<1>9. ScriptInv'
  <2>1. m # Nothing /\ Made(script.config)
    BY <1>2, <1>4, DeploymentAssumption
  <2> SUFFICES ASSUME script' # Nothing
               PROVE  ScriptInv'
    BY DEF ScriptInv
  <2>2. Item' = s0
    BY <1>5 DEF Item
  <2>3. Made(script.config)'
    BY <1>1, <1>5, <2>1 DEF Made
  <2>4. script'.mints[s0] # Nothing /\ script'.phase # "mint" /\ script'.mints = Manifest'
    BY <1>2, <1>5, <1>6, <2>1
  <2> QED
    BY <2>2, <2>3, <2>4 DEF ScriptInv
<1>10. ASSUME NEW s \in Symbols \ lost'
       PROVE  SymbolInv(s)'
  <2>1. SymbolInv(s)
    BY <1>1 DEF DeploymentInv
  <2>2. CASE s # s0
    BY <1>1, <1>5, <1>6, <2>1, <2>2 DEF SymbolInv, KnownMint
  <2>3. CASE s = s0
    <3>1. m # Nothing /\ Manifest'[s] = m
      BY <1>1, <1>4, <1>6, <2>3, DeploymentAssumption
    <3>2. CASE script.config[s0] # Nothing
      BY <1>1, <1>4, <1>5, <2>1, <2>3, <3>1, <3>2 DEF SymbolInv, KnownMint
    <3>3. CASE script.config[s0] = Nothing
      BY <1>1, <1>4, <1>5, <2>1, <2>3, <3>1, <3>3 DEF SymbolInv, KnownMint
    <3> QED
      BY <3>2, <3>3
  <2> QED
    BY <2>2, <2>3
<1> QED
  BY <1>7, <1>8, <1>9, <1>10 DEF DeploymentInv

(* A mint is created only for a symbol of which no mint is known, so none  *)
(* is listed unless it was lost.                                           *)
LEMMA CreateMintKeeps ==
  ASSUME DeploymentInv, CreateMint
  PROVE  DeploymentInv'
<1> USE DeploymentAssumption
<1>1. PICK m \in Mints : /\ chain.mints[m] = Nothing
                         /\ chain' = [chain EXCEPT !.mints[m] = Item]
                         /\ Remember(m)
  BY DEF CreateMint
<1>2. PICK s0 : s0 = Item
  OBVIOUS
<1>3. /\ script # Nothing /\ script.phase = "mint" /\ Reusable(s0) = Nothing /\ lost' = lost
  BY <1>2 DEF CreateMint, In
<1>4. s0 \in Symbols /\ script.mints = Manifest /\ Made(script.config) /\ Made(Manifest)
      /\ Made(repo.config)
  BY <1>2, <1>3 DEF DeploymentInv, ScriptInv
<1>5. /\ Manifest \in MintMap /\ script.config \in MintMap /\ repo.config \in MintMap
      /\ chain.mints \in [Mints -> Symbols \union {Nothing}] /\ chain.listed \subseteq Mints
      /\ chain \in [done : SUBSET {Plan[i] : i \in Steps},
                    mints : [Mints -> Symbols \union {Nothing}], listed : SUBSET Mints]
  BY <1>3, TypeFacts DEF DeploymentInv, DeploymentTypes
<1>6. script.config[s0] = Nothing /\ Manifest[s0] = Nothing
  BY <1>3, <1>4, <1>5 DEF Reusable, Made
<1>7. /\ chain' \in [done : SUBSET {Plan[i] : i \in Steps},
                     mints : [Mints -> Symbols \union {Nothing}], listed : SUBSET Mints]
      /\ chain'.listed = chain.listed
      /\ \A n \in Mints : chain'.mints[n] = IF n = m THEN s0 ELSE chain.mints[n]
  BY <1>1, <1>2, <1>4, <1>5
<1>8. /\ Manifest' = [Manifest EXCEPT ![s0] = m] /\ repo'.config = repo.config
      /\ repo' \in [manifest : MintMap \union {Nothing}, config : MintMap, frontend : MintMap]
      /\ script' # Nothing =>
           /\ script' \in [step : Steps, phase : {"check", "mint", "send"}, left : Nat,
                           mints : MintMap, config : MintMap]
           /\ script'.step = script.step /\ script'.phase = "check"
           /\ script'.mints = Manifest' /\ script'.config = script.config
  BY <1>1, <1>2, <1>3, RememberFacts
<1>9. \A s \in Symbols : Manifest'[s] = IF s = s0 THEN m ELSE Manifest[s]
  BY <1>5, <1>8 DEF MintMap
<1>10. \A s \in Symbols, n \in Mints : chain.mints[n] = s => chain'.mints[n] = s /\ n # m
  BY <1>1, <1>7
<1>11. Made(Manifest)' /\ Made(repo.config)' /\ (script' # Nothing => Made(script.config)')
  BY <1>3, <1>4, <1>5, <1>7, <1>8, <1>9, <1>10 DEF Made, MintMap
<1>12. DeploymentTypes'
  BY <1>7, <1>8 DEF DeploymentTypes
<1>13. ScriptInv'
  <2> SUFFICES ASSUME script' # Nothing
               PROVE  ScriptInv'
    BY DEF ScriptInv
  <2>1. Item' = s0
    BY <1>2, <1>8 DEF Item
  <2>2. script'.mints = Manifest' /\ script'.phase # "mint"
    BY <1>8
  <2>3. Manifest'[s0] = m /\ m # Nothing
    BY <1>4, <1>9, DeploymentAssumption
  <2>4. script'.mints[s0] # Nothing
    BY <2>2, <2>3
  <2> QED
    BY <1>11, <2>1, <2>2, <2>4 DEF ScriptInv
<1>14. ASSUME NEW s \in Symbols \ lost'
       PROVE  SymbolInv(s)'
  <2>1. SymbolInv(s)
    BY <1>3 DEF DeploymentInv
  <2>2. CASE s # s0
    <3>1. \A n \in Mints : chain'.mints[n] = s => chain.mints[n] = s
      BY <1>7, <2>2
    <3> QED
      BY <1>3, <1>5, <1>7, <1>8, <1>9, <2>1, <2>2, <3>1 DEF SymbolInv, KnownMint
  <2>3. CASE s = s0
    <3>1. repo.config[s] = Nothing
      BY <1>3, <1>6, <2>1, <2>3 DEF SymbolInv
    <3>2. \A n \in chain.listed : chain.mints[n] # s
      BY <1>5, <1>6, <2>1, <2>3, <3>1 DEF SymbolInv, KnownMint
    <3>3. m # Nothing /\ Manifest'[s] = m
      BY <1>9, <2>3
    <3>4. \A n \in chain'.listed : chain'.mints[n] = s => n = m
      BY <1>5, <1>7, <3>2
    <3> QED
      BY <1>6, <1>8, <2>3, <3>1, <3>3, <3>4 DEF SymbolInv, KnownMint
  <2> QED
    BY <2>2, <2>3
<1> QED
  BY <1>11, <1>12, <1>13, <1>14 DEF DeploymentInv

LEMMA SameStepActionsKeep ==
  ASSUME DeploymentInv, Missing \/ Rejected \/ Interrupt
  PROVE  DeploymentInv'
BY SameStepKeeps DEF Missing, Rejected, Interrupt, In

(* The manifest is applied: what the configuration gets is the manifest's  *)
(* mint, where there is one.                                               *)
LEMMA ApplyKeeps ==
  ASSUME DeploymentInv, Apply
  PROVE  DeploymentInv'
<1> DEFINE Filled(file) == [s \in Symbols |-> IF Manifest[s] = Nothing THEN file[s] ELSE Manifest[s]]
<1>1. /\ script' = script /\ chain' = chain /\ lost' = lost
      /\ \/ repo' = [repo EXCEPT !.frontend = Filled(@), !.config = Filled(@)]
         \/ repo' = [repo EXCEPT !.frontend = Filled(@)]
  BY DEF Apply, Manifest
<1>2. /\ repo \in [manifest : MintMap \union {Nothing}, config : MintMap, frontend : MintMap]
      /\ Manifest \in MintMap /\ repo.config \in MintMap
  BY TypeFacts DEF DeploymentInv, DeploymentTypes
<1>3. \A file \in MintMap : Filled(file) \in MintMap
  BY <1>2 DEF MintMap
<1> DEFINE config == Filled(repo.config)
           frontend == Filled(repo.frontend)
<1>4. config \in MintMap /\ frontend \in MintMap
  BY <1>2, <1>3
<1>5. \A s \in Symbols : config[s] = IF Manifest[s] = Nothing THEN repo.config[s] ELSE Manifest[s]
  OBVIOUS
<1>6. \/ repo' = [repo EXCEPT !.frontend = frontend, !.config = config]
      \/ repo' = [repo EXCEPT !.frontend = frontend]
  BY <1>1, <1>2
<1> HIDE DEF config, frontend, Filled
<1>7. /\ repo' \in [manifest : MintMap \union {Nothing}, config : MintMap, frontend : MintMap]
      /\ repo'.manifest = repo.manifest /\ repo'.config \in {repo.config, config}
  BY <1>2, <1>4, <1>6
<1>8. Manifest' = Manifest
  BY <1>7 DEF Manifest
<1>9. \A s \in Symbols : repo'.config[s] = repo.config[s]
                         \/ (Manifest[s] # Nothing /\ repo'.config[s] = Manifest[s])
  BY <1>5, <1>7
<1>10. DeploymentTypes'
  BY <1>1, <1>7 DEF DeploymentInv, DeploymentTypes
<1>11. ScriptInv'
  BY <1>1, <1>8 DEF DeploymentInv, ScriptInv, Item, Made
<1>12. Made(Manifest)' /\ Made(repo.config)'
  BY <1>1, <1>8, <1>9 DEF DeploymentInv, Made
<1>13. ASSUME NEW s \in Symbols \ lost'
       PROVE  SymbolInv(s)'
  <2>1. SymbolInv(s)
    BY <1>1 DEF DeploymentInv
  <2> QED
    BY <1>1, <1>8, <1>9, <2>1 DEF SymbolInv, KnownMint
<1> QED
  BY <1>10, <1>11, <1>12, <1>13 DEF DeploymentInv

(* A clean checkout has no manifest.  What only it knew is lost.           *)
LEMMA CheckoutKeeps ==
  ASSUME DeploymentInv, Checkout
  PROVE  DeploymentInv'
<1>1. /\ script = Nothing /\ script' = script /\ chain' = chain
      /\ repo' = [repo EXCEPT !.manifest = Nothing] /\ lost' = lost \union Unapplied
  BY DEF Checkout
<1>2. repo \in [manifest : MintMap \union {Nothing}, config : MintMap, frontend : MintMap]
  BY DEF DeploymentInv, DeploymentTypes
<1>3. /\ repo' \in [manifest : MintMap \union {Nothing}, config : MintMap, frontend : MintMap]
      /\ repo'.manifest = Nothing /\ repo'.config = repo.config
  BY <1>1, <1>2
<1>4. \A s \in Symbols : Manifest'[s] = Nothing
  BY <1>3 DEF Manifest, Known, NoMints
<1>5. Unapplied \subseteq Symbols
      /\ \A s \in Symbols \ Unapplied : Manifest[s] \in {Nothing, repo.config[s]}
  BY DEF Unapplied, Manifest
<1>6. DeploymentTypes'
  BY <1>1, <1>2, <1>3, <1>5 DEF DeploymentInv, DeploymentTypes
<1>7. ScriptInv'
  BY <1>1 DEF ScriptInv
<1>8. Made(Manifest)' /\ Made(repo.config)'
  BY <1>1, <1>3, <1>4 DEF DeploymentInv, Made
<1>9. ASSUME NEW s \in Symbols \ lost'
      PROVE  SymbolInv(s)'
  <2>1. SymbolInv(s) /\ Manifest[s] \in {Nothing, repo.config[s]}
    BY <1>1, <1>5 DEF DeploymentInv
  <2>2. KnownMint(s) = repo.config[s] /\ KnownMint(s)' = repo.config[s]
    BY <1>3, <1>4, <2>1 DEF KnownMint
  <2> QED
    BY <1>1, <1>3, <1>4, <2>1, <2>2 DEF SymbolInv
<1> QED
  BY <1>6, <1>7, <1>8, <1>9 DEF DeploymentInv

LEMMA DeploymentStarts ==
  DeploymentInit => DeploymentInv
<1> SUFFICES ASSUME DeploymentInit
             PROVE  DeploymentInv
  OBVIOUS
<1>1. /\ script = Nothing /\ lost = {} /\ chain.listed = {}
      /\ chain = [done |-> {}, mints |-> [m \in Mints |-> Nothing], listed |-> {}]
      /\ repo = [manifest |-> Nothing, config |-> NoMints, frontend |-> NoMints]
  BY DEF DeploymentInit
<1>2. NoMints \in MintMap /\ repo.manifest = Nothing /\ repo.config = NoMints
      /\ \A s \in Symbols : NoMints[s] = Nothing
  BY <1>1 DEF NoMints, MintMap
<1>3. Manifest = NoMints
  BY <1>2 DEF Manifest, Known
<1>4. DeploymentTypes
  BY <1>1, <1>2 DEF DeploymentTypes
<1>5. ScriptInv /\ Made(Manifest) /\ Made(repo.config)
  BY <1>1, <1>2, <1>3 DEF ScriptInv, Made
<1>6. \A s \in Symbols : SymbolInv(s)
  BY <1>1, <1>2, <1>3 DEF SymbolInv
<1> QED
  BY <1>4, <1>5, <1>6 DEF DeploymentInv

LEMMA DeploymentKeeps ==
  DeploymentInv /\ [DeploymentNext]_deploymentVars => DeploymentInv'
<1> SUFFICES ASSUME DeploymentInv, [DeploymentNext]_deploymentVars
             PROVE  DeploymentInv'
  OBVIOUS
<1>1. CASE Start
  BY <1>1, StartKeeps
<1>2. CASE UseMint
  BY <1>2, UseMintKeeps
<1>3. CASE CreateMint
  BY <1>3, CreateMintKeeps
<1>4. CASE Skip
  BY <1>4, SkipKeeps
<1>5. CASE Confirmed
  BY <1>5, ConfirmedKeeps
<1>6. CASE Missing \/ Rejected \/ Interrupt
  BY <1>6, SameStepActionsKeep
<1>7. CASE Unanswered
  BY <1>7, UnansweredKeeps
<1>8. CASE Apply
  BY <1>8, ApplyKeeps
<1>9. CASE Checkout
  BY <1>9, CheckoutKeeps
<1>10. CASE UNCHANGED deploymentVars
  <2>1. script' = script /\ chain' = chain /\ repo' = repo /\ lost' = lost
    BY <1>10 DEF deploymentVars
  <2>2. DeploymentTypes' /\ ScriptInv'
    BY <2>1 DEF DeploymentInv, DeploymentTypes, ScriptInv, Manifest, Item, Made
  <2> QED
    BY <2>1, <2>2, ScriptStepKeeps
<1> QED
  BY <1>1, <1>2, <1>3, <1>4, <1>5, <1>6, <1>7, <1>8, <1>9, <1>10 DEF DeploymentNext, Proceed

(* The promise of the script's header, that it can be run again safely:    *)
(* however many runs die, whatever landed without an answer and however    *)
(* often a clean checkout takes over, a symbol whose mint was not left     *)
(* behind with an unapplied manifest is listed under at most one mint.     *)
THEOREM ListedOnce == DeploymentSpec => []OneListing
<1>1. DeploymentInv => OneListing
  <2> SUFFICES ASSUME DeploymentInv, NEW s \in Symbols \ lost
               PROVE  Cardinality(ListedFor(s)) <= 1
    BY DEF OneListing
  <2>1. ListedFor(s) \subseteq {KnownMint(s)}
    BY DEF DeploymentInv, SymbolInv, ListedFor
  <2>2. IsFiniteSet({KnownMint(s)}) /\ Cardinality({KnownMint(s)}) = 1
    BY FS_Singleton
  <2>3. Cardinality(ListedFor(s)) <= Cardinality({KnownMint(s)})
    BY <2>1, <2>2, FS_Subset
  <2> QED
    BY <2>2, <2>3
<1> QED
  BY <1>1, DeploymentStarts, DeploymentKeeps, PTL DEF DeploymentSpec
=============================================================================
