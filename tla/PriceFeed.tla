----------------------------- MODULE PriceFeed ------------------------------
(***************************************************************************)
(* The BTC price on its way from Pyth's Hermes server to a page: through   *)
(* the Node backend, which caches it and joins requests to one fetch in    *)
(* flight, or the PHP host, which caches it in a file and joins nothing,   *)
(* or straight from Hermes when neither answers; and through the cache of  *)
(* the browser tab, which outlives its pages: a page that opens shows what *)
(* the last one heard.  Several refreshes of a page may overlap, and those *)
(* of a page that was left fill the cache.                                 *)
(*                                                                         *)
(* A price stands for the time it was published: amounts and confidence    *)
(* are handed on untouched.  Hermes is not ours: what arrives from it may  *)
(* have any age.                                                           *)
(***************************************************************************)
EXTENDS Naturals

CONSTANTS
  Refreshes,   \* refresh() calls of a tab's pages that may be running at once
  Fetches,     \* bound on the backend's requests to Hermes
  Ttl,         \* CACHE_TTL of all caches
  StaleAfter,  \* age, in the clock's unit, over which a price is stale
  MaxWait,     \* time after which a refresh has heard or given up
  MaxTime,     \* bound on the clock
  None      \* null

ASSUME FeedAssumption ==
  /\ Ttl \in Nat \ {0} /\ {StaleAfter, MaxWait, MaxTime} \subseteq Nat
  /\ None \notin Refreshes \union Fetches \union Nat

VARIABLES
  host,       \* which of the two backends is deployed
  now,        \* Date.now()
  cache,      \* the backend's cached price and when it was put there
  inFlight,   \* the fetch new requests join
  fetching,   \* the fetches under way
  refreshes,  \* per refresh: None, or how far it has come
  pageCache,  \* the tab's cached price and when the refresh that heard it began
  watching,   \* the refreshes whose answers the open page waits for
  price,      \* the price the page holds, with the verdict it came with
  error       \* what the page says is wrong: none, "stale" or "unavailable"

serverVars == <<cache, inFlight, fetching>>
pageVars == <<pageCache, watching, price, error>>
feedVars == <<host, now, refreshes, serverVars, pageVars>>

FeedInit ==
  /\ host \in {"node", "php"}
  /\ now = 0
  /\ cache = None /\ inFlight = None /\ fetching = {}
  /\ refreshes = [r \in Refreshes |-> None]
  /\ pageCache = None /\ price = None /\ error = "none"
  /\ watching = {}

(* The verdict is taken when the price arrives, and travels with it. *)
Judged(time) == [time |-> time, stale |-> now - time > StaleAfter]

RecentMutant(c) == c # None

Recent(c) == c # None /\ now - c.at < Ttl

Free == {r \in Refreshes : refreshes[r] = None}

Reach(r, stage, value) ==
  refreshes' = [refreshes EXCEPT ![r].stage = stage, ![r].value = value]

(***************************************************************************)
(* The backend: fetchBtcUsdPrice on Node, persat_fetch_btc_usd on PHP.  A  *)
(* fetch fails after five seconds, for an error status or for an empty     *)
(* answer.  It goes on when the one who asked gives up.                    *)
(***************************************************************************)
ToJoinMutant == None

ToJoin == IF host = "node" THEN inFlight ELSE None

JoinNext(f) ==
  /\ host = "node" /\ ToJoin = None
  /\ inFlight' = f

AskAlone ==
  /\ host = "php"
  /\ UNCHANGED inFlight

StartFetch(f) ==
  /\ ~Recent(cache)
  /\ JoinNext(f) \/ AskAlone
  /\ fetching' = fetching \union {f}
  /\ UNCHANGED cache

Serve(r) ==
  /\ refreshes[r].stage = "asking"
  /\ \/ /\ Recent(cache)
        /\ Reach(r, "answered", cache.price)
        /\ UNCHANGED serverVars
     \/ /\ ~Recent(cache) /\ ToJoin # None
        /\ Reach(r, "joined", ToJoin)
        /\ UNCHANGED serverVars
     \/ \E f \in Fetches \ fetching : StartFetch(f) /\ Reach(r, "joined", f)
  /\ UNCHANGED <<now, pageVars>>

(* Another page, or /health. *)
ServeOthers ==
  /\ \E f \in Fetches \ fetching : StartFetch(f)
  /\ UNCHANGED <<now, refreshes, pageVars>>

(* Everyone who joined gets the result, null for a failure. *)
Settle(f, result) ==
  /\ fetching' = fetching \ {f}
  /\ inFlight' = None
  /\ refreshes' = [r \in Refreshes |->
       IF refreshes[r] # None /\ refreshes[r].stage = "joined" /\ refreshes[r].value = f
       THEN [refreshes[r] EXCEPT !.stage = "answered", !.value = result]
       ELSE refreshes[r]]
  /\ UNCHANGED <<now, pageVars>>

Cached(p) == cache' = [at |-> now, price |-> p]

(* Writing the cache file may fail without a word.                         *)
CachedOnPhp == host = "php" /\ UNCHANGED cache

FetchArrives(f) ==
  \E time \in 0 .. now :
    /\ Cached(Judged(time)) \/ CachedOnPhp
    /\ Settle(f, Judged(time))

FetchFails(f) == Settle(f, None) /\ UNCHANGED cache

(***************************************************************************)
(* The page.                                                               *)
(***************************************************************************)
Show(p) ==
  /\ price' = p
  /\ error' = IF p.stale THEN "stale" ELSE "none"

(* Another page opens on the cached price, of whatever age, with the       *)
(* verdict of then and no error; its first refresh follows.                *)
Mount ==
  /\ watching' = {}
  /\ price' = IF pageCache = None THEN None ELSE pageCache.price
  /\ error' = "none"
  /\ UNCHANGED <<now, refreshes, serverVars, pageCache>>

Refresh(r) ==
  /\ \/ /\ Recent(pageCache)
        /\ Show(pageCache.price)
        /\ UNCHANGED <<refreshes, watching>>
     \/ /\ ~Recent(pageCache)
        /\ refreshes' = [refreshes EXCEPT ![r] =
             [stage |-> "asking", since |-> now, value |-> None]]
        /\ watching' = watching \union {r}
        /\ UNCHANGED <<price, error>>
  /\ UNCHANGED <<now, serverVars, pageCache>>

(* The cache counts from when the refresh began. *)
Keep(r, p) ==
  /\ pageCache' = [at |-> refreshes[r].since, price |-> p]
  /\ IF r \in watching THEN Show(p) ELSE UNCHANGED <<price, error>>
  /\ refreshes' = [refreshes EXCEPT ![r] = None]
  /\ watching' = watching \ {r}
  /\ UNCHANGED <<now, serverVars>>

HearBackend(r) ==
  /\ refreshes[r].stage = "answered" /\ refreshes[r].value # None
  /\ Keep(r, refreshes[r].value)

(* An error answer, or no answer to the request and its repetitions.       *)
AskHermes(r) ==
  /\ refreshes[r].stage \in {"asking", "joined", "answered"}
  /\ Reach(r, "direct", None)
  /\ UNCHANGED <<now, serverVars, pageVars>>

HearHermes(r) ==
  /\ refreshes[r].stage = "direct"
  /\ \E time \in 0 .. now : Keep(r, Judged(time))

(* Nobody answered: the page says so and keeps the price it had. *)
SayUnavailable(r) ==
  /\ refreshes[r].stage = "direct"
  /\ error' = IF r \in watching THEN "unavailable" ELSE error
  /\ refreshes' = [refreshes EXCEPT ![r] = None]
  /\ watching' = watching \ {r}
  /\ UNCHANGED <<now, serverVars, pageCache, price>>

(* What the pages block on. *)
IsFailClosed == price = None \/ price.stale

(***************************************************************************)
(* Time.                                                                   *)
(***************************************************************************)
Tick ==
  /\ now < MaxTime
  /\ \A r \in Refreshes \ Free : now - refreshes[r].since < MaxWait
  /\ now' = now + 1
  /\ UNCHANGED <<refreshes, serverVars, pageVars>>

FeedNext ==
  /\ \/ Tick \/ ServeOthers \/ Mount
     \/ \E f \in fetching : FetchArrives(f) \/ FetchFails(f)
     \/ \E r \in Free : Refresh(r)
     \/ \E r \in Refreshes \ Free :
          Serve(r) \/ HearBackend(r) \/ AskHermes(r) \/ HearHermes(r) \/ SayUnavailable(r)
  /\ UNCHANGED host

FeedSpec == FeedInit /\ [][FeedNext]_feedVars

(***************************************************************************)
(* Properties.                                                             *)
(***************************************************************************)
(* However many pages ask while the cache is old, the Node backend has one *)
(* request to Hermes outstanding (inFlight in services/oracle.ts).         *)
OneFetch == host = "node" => \A f, g \in fetching : f = g

Longest == IF MaxWait > Ttl - 1 THEN MaxWait ELSE Ttl - 1

(* Verdicts are cached with the price and not taken again, so a price may  *)
(* come on the screen as fresh that is not.  Through all caches, joined    *)
(* fetches and overlapping refreshes it is older than the staleness limit  *)
(* by no more than one cache life and the time since the refresh that      *)
(* heard it began: for what a refresh shows, the longest one waits or      *)
(* another cache life; for a page that opens, all the time since this tab  *)
(* last heard a price.                                                     *)
ShownInTime ==
  [][price' # price /\ price' # None /\ ~price'.stale =>
       now - price'.time <= StaleAfter + (Ttl - 1) +
         (IF Mount THEN now - pageCache.at ELSE Longest)]_feedVars

(* "fail-closed": a page that says the price is unavailable does not go on *)
(* treating one over the staleness limit as usable (useBtcPrice).          *)
FailsClosed ==
  error = "unavailable" /\ price # None /\ now - price.time > StaleAfter
    => IsFailClosed
=============================================================================
