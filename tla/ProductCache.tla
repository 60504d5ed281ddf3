---------------------------- MODULE ProductCache ----------------------------
(***************************************************************************)
(* The cache of the catalogue (core/cache.py) and the handlers around it:    *)
(* GET /products and GET /products/{id} fill it on a miss (api/routes/        *)
(* products.py), POST /products, PATCH /products/{id} and POST /orders        *)
(* invalidate it after their commit.  A store is one Redis for all workers,   *)
(* or a dictionary in each worker's memory.                                   *)
(*                                                                           *)
(* The table is known by the number of writes committed to it, so a page is   *)
(* as old as the version its SELECT saw.  Time is the countdown each entry    *)
(* has left to live.                                                          *)
(***************************************************************************)
EXTENDS Integers

CONSTANTS
    Readers,     \* GET handlers that may be running at the same time
    Writers,     \* handlers that write the table, likewise
    Stores,      \* cache backends: one for all workers, or one in each
    Home,        \* Home[h]: the store of the worker that runs handler h
    Backend,     \* "redis" or "memory", settings.cache_backend
    Categories,  \* names a client may filter the list by
    NoCategory,  \* the list is asked for without a filter
    Windows,     \* offset and limit of a list
    Items,       \* product ids
    NoPage,      \* what an idle reader has asked for
    TTL,         \* cache_ttl_seconds, in ticks; 0 stands for "off"
    MaxVersion   \* bound: writes a trace commits

ASSUME TTLAssumption == TTL \in Nat
ASSUME BackendAssumption == Backend \in {"redis", "memory"}
ASSUME HomeAssumption == Home \in [Readers \cup Writers -> Stores]

ListPages == [kind : {"list"}, category : Categories \cup {NoCategory}, window : Windows]
ItemPages == [kind : {"item"}, id : Items]
Pages == ListPages \cup ItemPages

\* Variant with a fault: the key does not tell one category from another.
KeyWithoutCategory(page) ==
    IF page.kind = "item" THEN <<"item", page.id>> ELSE <<"list", page.window>>

\* list_key and item_key; a list without a filter is filed under 'all'.
Key(page) ==
    IF page.kind = "item" THEN <<"item", page.id>>
    ELSE <<"list", IF page.category = NoCategory THEN "all" ELSE page.category,
           page.window>>

Keys == {Key(page) : page \in Pages}

VARIABLES
    version,  \* writes committed to the products table
    acked,    \* newest write whose invalidation has finished
    cache,    \* cache[s]: entry of each key the store s holds
    rpc,      \* reader: "idle", "missed" or "loaded"
    asked,    \* page the reader is to answer with
    rver,     \* version its SELECT saw
    wpc,      \* writer: "idle", "committed" or "scanning"
    wver,     \* version its commit made
    todo      \* keys its SCAN has still to return

reader == <<rpc, asked, rver>>
writer == <<wpc, wver, todo>>
vars == <<version, acked, cache, reader, writer>>

\* What a SET leaves behind: the page and how long it lives.  "late" is history:
\* some write was committed between the SELECT and this SET.
Entry == [page : Pages, ver : Nat, late : BOOLEAN, left : 1 .. TTL]
Empty == [k \in {} |-> 0]

TypeOK ==
    /\ version \in Nat
    /\ acked \in Nat
    /\ DOMAIN cache = Stores
    /\ \A s \in Stores : /\ cache[s] \in [DOMAIN cache[s] -> Entry]
                         /\ DOMAIN cache[s] \subseteq Keys
    /\ rpc \in [Readers -> {"idle", "missed", "loaded"}]
    /\ asked \in [Readers -> Pages \cup {NoPage}]
    /\ rver \in [Readers -> Nat]
    /\ wpc \in [Writers -> {"idle", "committed", "scanning"}]
    /\ wver \in [Writers -> Nat]
    /\ todo \in [Writers -> SUBSET Keys]

Init ==
    /\ version = 0
    /\ acked = 0
    /\ cache = [s \in Stores |-> Empty]
    /\ rpc = [r \in Readers |-> "idle"]
    /\ asked = [r \in Readers |-> NoPage]
    /\ rver = [r \in Readers |-> 0]
    /\ wpc = [w \in Writers |-> "idle"]
    /\ wver = [w \in Writers |-> 0]
    /\ todo = [w \in Writers |-> {}]

-----------------------------------------------------------------------------
(* The backend                                                               *)

Put(s, key, entry) ==
    cache' = [cache EXCEPT ![s] =
        [k \in DOMAIN cache[s] \cup {key} |-> IF k = key THEN entry ELSE cache[s][k]]]

\* Keys that leave a store are keys no SCAN of that store has to return.
Remove(s, keys) ==
    /\ cache' = [cache EXCEPT ![s] = [k \in DOMAIN cache[s] \ keys |-> cache[s][k]]]
    /\ todo' = [w \in Writers |-> IF Home[w] = s THEN todo[w] \ keys ELSE todo[w]]

-----------------------------------------------------------------------------
(* GET /products and GET /products/{id}                                      *)

FinishRead(r) ==
    /\ rpc' = [rpc EXCEPT ![r] = "idle"]
    /\ asked' = [asked EXCEPT ![r] = NoPage]
    /\ rver' = [rver EXCEPT ![r] = 0]

\* Variant with a fault: every hit gives the entry its full life again.
HitRenews(r, page) ==
    /\ rpc[r] = "idle"
    /\ Key(page) \in DOMAIN cache[Home[r]]
    /\ Put(Home[r], Key(page), [cache[Home[r]][Key(page)] EXCEPT !.left = TTL])
    /\ UNCHANGED <<version, acked, reader, writer>>

\* The entry is the answer; nothing changes.
Hit(r, page) ==
    /\ rpc[r] = "idle"
    /\ Key(page) \in DOMAIN cache[Home[r]]
    /\ UNCHANGED vars

Miss(r, page) ==
    /\ rpc[r] = "idle"
    /\ Key(page) \notin DOMAIN cache[Home[r]]
    /\ rpc' = [rpc EXCEPT ![r] = "missed"]
    /\ asked' = [asked EXCEPT ![r] = page]
    /\ UNCHANGED <<version, acked, cache, rver, writer>>

\* The SELECT sees every write committed by now.
Load(r) ==
    /\ rpc[r] = "missed"
    /\ rpc' = [rpc EXCEPT ![r] = "loaded"]
    /\ rver' = [rver EXCEPT ![r] = version]
    /\ UNCHANGED <<version, acked, cache, asked, writer>>

\* No such product: 404, and nothing is cached.
NotFound(r) ==
    /\ rpc[r] = "missed"
    /\ asked[r].kind = "item"
    /\ FinishRead(r)
    /\ UNCHANGED <<version, acked, cache, writer>>

\* CACHE_TTL_SECONDS <= 0: nothing is ever stored.
Off == TTL = 0

\* cache.set, a no-op when the cache is off, and the answer.
Store(r) ==
    /\ rpc[r] = "loaded"
    /\ IF Off THEN UNCHANGED cache
       ELSE Put(Home[r], Key(asked[r]),
                [page |-> asked[r], ver |-> rver[r],
                 late |-> rver[r] < version, left |-> TTL])
    /\ FinishRead(r)
    /\ UNCHANGED <<version, acked, writer>>

\* The handler ends early: the database or Redis fails, or the worker dies.
FailRead(r) ==
    /\ rpc[r] # "idle"
    /\ FinishRead(r)
    /\ UNCHANGED <<version, acked, cache, writer>>

-----------------------------------------------------------------------------
(* POST /products, PATCH /products/{id}, POST /orders                        *)

FinishWrite(w) ==
    /\ wpc' = [wpc EXCEPT ![w] = "idle"]
    /\ wver' = [wver EXCEPT ![w] = 0]

Commit(w) ==
    /\ wpc[w] = "idle"
    /\ version < MaxVersion
    /\ version' = version + 1
    /\ wpc' = [wpc EXCEPT ![w] = "committed"]
    /\ wver' = [wver EXCEPT ![w] = version + 1]
    /\ UNCHANGED <<acked, cache, reader, todo>>

Acknowledge(w) == acked' = IF acked < wver[w] THEN wver[w] ELSE acked

\* delete_prefix on a dictionary runs without a pause.
InvalidateMemory(w) ==
    /\ Backend = "memory"
    /\ wpc[w] = "committed"
    /\ Remove(Home[w], DOMAIN cache[Home[w]])
    /\ Acknowledge(w)
    /\ FinishWrite(w)
    /\ UNCHANGED <<version, reader>>

\* Variant with a fault: only the pages of the list are invalidated.
ScanListsOnly(w) ==
    /\ Backend = "redis"
    /\ wpc[w] = "committed"
    /\ wpc' = [wpc EXCEPT ![w] = "scanning"]
    /\ todo' = [todo EXCEPT ![w] = {k \in DOMAIN cache[Home[w]] : k[1] = "list"}]
    /\ UNCHANGED <<version, acked, cache, reader, wver>>

\* delete_prefix on Redis: a SCAN returns every key that is there from its
\* beginning to its end, and it may return keys that came later ...
BeginScan(w) ==
    /\ Backend = "redis"
    /\ wpc[w] = "committed"
    /\ wpc' = [wpc EXCEPT ![w] = "scanning"]
    /\ todo' = [todo EXCEPT ![w] = DOMAIN cache[Home[w]]]
    /\ UNCHANGED <<version, acked, cache, reader, wver>>

\* ... and each key it returns is deleted by a command of its own.
DeleteKey(w, k) ==
    /\ wpc[w] = "scanning"
    /\ k \in DOMAIN cache[Home[w]]
    /\ Remove(Home[w], {k})
    /\ UNCHANGED <<version, acked, reader, wpc, wver>>

FinishScan(w) ==
    /\ wpc[w] = "scanning"
    /\ todo[w] = {}
    /\ Acknowledge(w)
    /\ FinishWrite(w)
    /\ UNCHANGED <<version, cache, reader, todo>>

\* The write stands and its invalidation never ends: Redis fails, or the worker
\* dies between the commit and the last DELETE.
FailInvalidate(w) ==
    /\ wpc[w] # "idle"
    /\ FinishWrite(w)
    /\ todo' = [todo EXCEPT ![w] = {}]
    /\ UNCHANGED <<version, acked, cache, reader>>

-----------------------------------------------------------------------------
(* Beside the handlers                                                       *)

\* scripts/seed_demo.py replaces the rows and leaves the cache alone.
Reseed ==
    /\ version < MaxVersion
    /\ version' = version + 1
    /\ UNCHANGED <<acked, cache, reader, writer>>

\* Redis runs with allkeys-lru: any entry may make room for another key.
Evict(s, k) ==
    /\ Backend = "redis"
    /\ k \in DOMAIN cache[s]
    /\ Remove(s, {k})
    /\ UNCHANGED <<version, acked, reader, wpc, wver>>

\* A worker that has ended its handlers stops (dispose_cache) and starts again:
\* the dictionary it kept is empty.
Restart(s) ==
    /\ Backend = "memory"
    /\ \A r \in Readers : Home[r] = s => rpc[r] = "idle"
    /\ \A w \in Writers : Home[w] = s => wpc[w] = "idle"
    /\ Remove(s, DOMAIN cache[s])
    /\ UNCHANGED <<version, acked, reader, wpc, wver>>

\* Variant with a fault: an entry outlives the second it expires in.
AliveTooLong(entry) == entry.left > 0

\* An entry that has no more than this tick left is not there after it.
Alive(entry) == entry.left > 1

Tick ==
    /\ cache' = [s \in Stores |->
                   [k \in {x \in DOMAIN cache[s] : Alive(cache[s][x])} |->
                      [cache[s][k] EXCEPT !.left = @ - 1]]]
    /\ todo' = [w \in Writers |->
                  todo[w] \ {k \in DOMAIN cache[Home[w]] : ~ Alive(cache[Home[w]][k])}]
    /\ UNCHANGED <<version, acked, reader, wpc, wver>>

Next ==
    \/ \E r \in Readers :
         \/ \E page \in Pages : Hit(r, page) \/ Miss(r, page)
         \/ Load(r) \/ NotFound(r) \/ Store(r) \/ FailRead(r)
    \/ \E w \in Writers :
         \/ Commit(w) \/ InvalidateMemory(w) \/ BeginScan(w)
         \/ (\E k \in Keys : DeleteKey(w, k))
         \/ FinishScan(w) \/ FailInvalidate(w)
    \/ Reseed
    \/ \E s \in Stores : Restart(s) \/ \E k \in Keys : Evict(s, k)
    \/ Tick

\* Of all this only the passing of time can be relied on.
Spec == Init /\ [][Next]_vars /\ WF_vars(Tick)

-----------------------------------------------------------------------------
\* Once a write's invalidation has finished, what a cache still holds of older
\* versions came from a fill whose SELECT ran before some commit and whose SET
\* ran after it.  An entry that was there before the commit is never left over,
\* whatever other scans, evictions and expiries happen meanwhile.
StaleOnlyIfRaced ==
    \A s \in Stores : \A k \in DOMAIN cache[s] :
        cache[s][k].ver < acked => cache[s][k].late

\* list_key files the unfiltered list under 'all', and so it files a category
\* of that name (routes/products.py takes any string of 1 to 64 characters).
OneList(page) == page.kind = "list" /\ page.category \in {NoCategory, "all"}
SamePage(p, q) == p = q \/ (OneList(p) /\ OneList(q) /\ p.window = q.window)

\* Who asks for a page never gets another one (another category, another window,
\* a product in place of a list), whoever stored the entry and whenever, but for
\* the one pair of pages list_key does not tell apart.
RightPage ==
    \A s \in Stores : \A page \in Pages :
        Key(page) \in DOMAIN cache[s] => SamePage(cache[s][Key(page)].page, page)

\* Failed invalidations, raced fills and the seed script leave stale pages
\* behind, but none for ever: when writing stops, the caches come to agree
\* with the table and stay so.
Coherent == \A s \in Stores : \A k \in DOMAIN cache[s] : cache[s][k].ver = version
EventuallyCoherent == <>[]Coherent

\* Why it happens: a page older than the table is there because a reader that had
\* loaded it stores it now, or it was there before, and then nothing (a hit, a
\* scan, a restart, another reader) has made it live longer.
StaleFades ==
    [][\A s \in Stores : \A k \in DOMAIN cache'[s] :
          cache'[s][k].ver < version' =>
            \/ \E r \in Readers : /\ rpc[r] = "loaded" /\ rpc'[r] = "idle"
                                  /\ rver[r] = cache'[s][k].ver
            \/ /\ k \in DOMAIN cache[s]
               /\ cache'[s][k].ver = cache[s][k].ver
               /\ cache'[s][k].left <= cache[s][k].left]_vars

\* README.md, line 32: with invalidation by event there are no stale prices.
NoStalePrices ==
    \A s \in Stores : \A k \in DOMAIN cache[s] : cache[s][k].ver >= acked
=============================================================================
