------------------------- MODULE ProductCacheProofs -------------------------
(***************************************************************************)
(* Proofs about ProductCache for every set of handlers, stores and pages,    *)
(* every TTL and every number of writes.                                     *)
(***************************************************************************)
EXTENDS ProductCache, TLAPS

\* One backend for all workers: Redis, or a single worker with its dictionary.
OneStore == \A s, t \in Stores : s = t

\* Versions are never ahead of the table.
VersionsBehind ==
    /\ acked <= version
    /\ \A r \in Readers : rver[r] <= version
    /\ \A w \in Writers : wver[w] <= version
    /\ \A s \in Stores : \A k \in DOMAIN cache[s] :
          /\ cache[s][k].ver <= version
          /\ cache[s][k].page \in Pages /\ Key(cache[s][k].page) = k

\* A reader that is not idle has asked for a page.
Asking == \A r \in Readers : rpc[r] # "idle" => asked[r] \in Pages

\* While a scan runs, what it has still to return are all the entries that were
\* there before the commit it follows, unless a raced fill left them.
ScanCovers ==
    \A w \in Writers : wpc[w] = "scanning" =>
        \A s \in Stores : \A k \in DOMAIN cache[s] :
            cache[s][k].ver < wver[w] /\ ~ cache[s][k].late => k \in todo[w]

CacheInv ==
    /\ TypeOK
    /\ VersionsBehind
    /\ Asking

-----------------------------------------------------------------------------
\* A store that gains an entry or loses some still maps keys to entries.
LEMMA PutType ==
    ASSUME NEW s \in Stores, NEW key \in Keys, NEW entry \in Entry, TypeOK,
           Put(s, key, entry)
    PROVE  /\ DOMAIN cache' = Stores
           /\ \A t \in Stores : /\ cache'[t] \in [DOMAIN cache'[t] -> Entry]
                                /\ DOMAIN cache'[t] \subseteq Keys
           /\ \A t \in Stores : \A k \in DOMAIN cache'[t] :
                 \/ k = key /\ t = s /\ cache'[t][k] = entry
                 \/ k \in DOMAIN cache[t] /\ cache'[t][k] = cache[t][k]
  BY DEF Put, TypeOK

LEMMA RemoveType ==
    ASSUME NEW s \in Stores, NEW keys, TypeOK, Remove(s, keys)
    PROVE  /\ DOMAIN cache' = Stores
           /\ \A t \in Stores : /\ cache'[t] \in [DOMAIN cache'[t] -> Entry]
                                /\ DOMAIN cache'[t] \subseteq Keys
           /\ \A t \in Stores : \A k \in DOMAIN cache'[t] :
                 k \in DOMAIN cache[t] /\ cache'[t][k] = cache[t][k]
           /\ \A k \in keys : k \notin DOMAIN cache'[s]
           /\ \A t \in Stores \ {s} : cache'[t] = cache[t]
           /\ todo' \in [Writers -> SUBSET Keys]
  BY DEF Remove, TypeOK

\* Requests and stores start empty.
LEMMA InitCache == Init => CacheInv /\ ScanCovers /\ StaleOnlyIfRaced
<1> SUFFICES ASSUME Init PROVE CacheInv /\ ScanCovers /\ StaleOnlyIfRaced
  OBVIOUS
<1>1. DOMAIN Empty = {} /\ Empty \in [DOMAIN Empty -> Entry]
  BY DEF Empty
<1> HIDE DEF Empty
<1>2. TypeOK
  BY <1>1 DEF Init, TypeOK
<1>3. VersionsBehind /\ Asking
  BY <1>1 DEF Init, VersionsBehind, Asking
<1>4. ScanCovers /\ StaleOnlyIfRaced
  BY <1>1 DEF Init, ScanCovers, StaleOnlyIfRaced
<1> QED
  BY <1>2, <1>3, <1>4 DEF CacheInv

\* What a reader stores is an entry of the page it was asked for.
LEMMA StoreEntry ==
    ASSUME NEW r \in Readers, CacheInv, Store(r), TTL # 0
    PROVE  /\ Key(asked[r]) \in Keys
           /\ [page |-> asked[r], ver |-> rver[r],
               late |-> rver[r] < version, left |-> TTL] \in Entry
<1>1. asked[r] \in Pages
  BY DEF CacheInv, Asking, Store
<1>2. rver[r] \in Nat /\ version \in Nat
  BY DEF CacheInv, TypeOK
<1>3. TTL \in 1 .. TTL
  BY TTLAssumption
<1>4. Key(asked[r]) \in Keys
  BY <1>1 DEF Keys
<1> QED
  BY <1>1, <1>2, <1>3, <1>4 DEF Entry

\* A reader's steps keep the types and the versions.
LEMMA ReaderCache ==
    ASSUME NEW r \in Readers, CacheInv,
           \/ \E page \in Pages : Hit(r, page) \/ Miss(r, page)
           \/ Load(r) \/ NotFound(r) \/ Store(r) \/ FailRead(r)
    PROVE  CacheInv'
<1> USE DEF CacheInv
<1>1. CASE \E page \in Pages : Hit(r, page)
  BY <1>1 DEF Hit, vars, reader, writer, TypeOK, VersionsBehind, Asking
<1>2. ASSUME NEW page \in Pages, Miss(r, page)
      PROVE  CacheInv'
  <2>1. TypeOK'
    BY <1>2 DEF Miss, writer, TypeOK
  <2>2. VersionsBehind' /\ Asking'
    BY <1>2 DEF Miss, writer, TypeOK, VersionsBehind, Asking
  <2> QED
    BY <2>1, <2>2
<1>3. CASE Load(r)
  <2>1. TypeOK'
    BY <1>3 DEF Load, writer, TypeOK
  <2>2. VersionsBehind'
    BY <1>3 DEF Load, writer, TypeOK, VersionsBehind
  <2>3. Asking'
    BY <1>3 DEF Load, TypeOK, Asking
  <2> QED
    BY <2>1, <2>2, <2>3
<1>4. CASE NotFound(r) \/ FailRead(r)
  <2>1. FinishRead(r) /\ UNCHANGED <<version, acked, cache, writer>>
    BY <1>4 DEF NotFound, FailRead
  <2>2. TypeOK'
    BY <2>1 DEF FinishRead, writer, TypeOK
  <2>3. VersionsBehind'
    BY <2>1 DEF FinishRead, writer, TypeOK, VersionsBehind
  <2>4. Asking'
    BY <2>1 DEF FinishRead, TypeOK, Asking
  <2> QED
    BY <2>2, <2>3, <2>4
<1>5. CASE Store(r)
  <2> DEFINE key == Key(asked[r])
             entry == [page |-> asked[r], ver |-> rver[r],
                       late |-> rver[r] < version, left |-> TTL]
  <2>1. FinishRead(r) /\ UNCHANGED <<version, acked, writer>>
    BY <1>5 DEF Store
  <2>2. /\ DOMAIN cache' = Stores
        /\ \A t \in Stores : /\ cache'[t] \in [DOMAIN cache'[t] -> Entry]
                             /\ DOMAIN cache'[t] \subseteq Keys
        /\ \A t \in Stores : \A k \in DOMAIN cache'[t] :
              \/ k = key /\ cache'[t][k] = entry
              \/ k \in DOMAIN cache[t] /\ cache'[t][k] = cache[t][k]
    <3>1. CASE TTL = 0
      BY <1>5, <3>1 DEF Off, Store, TypeOK
    <3>2. CASE TTL # 0
      <4>1. Put(Home[r], key, entry) /\ key \in Keys /\ entry \in Entry
        BY <1>5, <3>2, StoreEntry DEF Off, Store
      <4>2. Home[r] \in Stores
        BY HomeAssumption
      <4> HIDE DEF key, entry
      <4> QED
        BY <4>1, <4>2, PutType
    <3> QED
      BY <3>1, <3>2
  <2>3. asked[r] \in Pages /\ rver[r] <= version
    BY <1>5 DEF Asking, VersionsBehind, Store
  <2>4. /\ rpc' = [rpc EXCEPT ![r] = "idle"]
        /\ asked' = [asked EXCEPT ![r] = NoPage]
        /\ rver' = [rver EXCEPT ![r] = 0]
        /\ UNCHANGED <<wpc, wver, todo>>
    BY <2>1 DEF FinishRead, writer
  <2>5. TypeOK'
    BY <2>1, <2>2, <2>4 DEF TypeOK
  <2>6. entry.ver <= version /\ entry.page \in Pages /\ Key(entry.page) = key
    BY <2>3
  <2>7. VersionsBehind'
    <3> HIDE DEF key, entry
    <3>1. \A t \in Stores : \A k \in DOMAIN cache'[t] :
             /\ cache'[t][k].ver <= version
             /\ cache'[t][k].page \in Pages /\ Key(cache'[t][k].page) = k
      BY <2>2, <2>6 DEF VersionsBehind
    <3> QED
      BY <2>1, <2>4, <3>1 DEF VersionsBehind, TypeOK
  <2>8. Asking'
    BY <2>4 DEF Asking, TypeOK
  <2> QED
    BY <2>5, <2>7, <2>8
<1> QED
  BY <1>1, <1>2, <1>3, <1>4, <1>5

\* Keys that leave the stores leave the rest of them as it was.
LEMMA ShrinkCache ==
    ASSUME CacheInv, UNCHANGED <<version, reader>>,
           acked' \in Nat, acked' <= version,
           DOMAIN cache' = Stores,
           \A t \in Stores : /\ cache'[t] \in [DOMAIN cache'[t] -> Entry]
                             /\ DOMAIN cache'[t] \subseteq Keys,
           \A t \in Stores : \A k \in DOMAIN cache'[t] :
              /\ k \in DOMAIN cache[t]
              /\ cache'[t][k].ver = cache[t][k].ver
              /\ cache'[t][k].page = cache[t][k].page,
           wpc' \in [Writers -> {"idle", "committed", "scanning"}],
           wver' \in [Writers -> Nat],
           \A w \in Writers : wver'[w] <= version,
           todo' \in [Writers -> SUBSET Keys]
    PROVE  CacheInv'
<1>1. TypeOK'
  BY DEF CacheInv, TypeOK, reader
<1>2. VersionsBehind'
  BY DEF CacheInv, VersionsBehind, reader
<1>3. Asking'
  BY DEF CacheInv, Asking, reader
<1> QED
  BY <1>1, <1>2, <1>3 DEF CacheInv

\* A writer's steps keep the types and the versions.
LEMMA WriterCache ==
    ASSUME NEW w \in Writers, CacheInv,
           \/ Commit(w) \/ InvalidateMemory(w) \/ BeginScan(w)
           \/ \E k \in Keys : DeleteKey(w, k)
           \/ FinishScan(w) \/ FailInvalidate(w)
    PROVE  CacheInv'
<1>0. TypeOK /\ VersionsBehind
  BY DEF CacheInv
<1>1. Home[w] \in Stores
  BY HomeAssumption
<1>2. CASE Commit(w)
  <2>1. TypeOK'
    BY <1>0, <1>2 DEF Commit, reader, TypeOK
  <2>2. VersionsBehind'
    BY <1>0, <1>2 DEF Commit, reader, TypeOK, VersionsBehind, Entry
  <2>3. Asking'
    BY <1>2 DEF CacheInv, Commit, reader, Asking
  <2> QED
    BY <2>1, <2>2, <2>3 DEF CacheInv
<1>3. Acknowledge(w) => acked' \in Nat /\ acked' <= version
  BY <1>0 DEF Acknowledge, TypeOK, VersionsBehind
<1>4. FinishWrite(w) => /\ wpc' \in [Writers -> {"idle", "committed", "scanning"}]
                        /\ wver' \in [Writers -> Nat]
                        /\ \A v \in Writers : wver'[v] <= version
  BY <1>0 DEF FinishWrite, TypeOK, VersionsBehind
<1>5. CASE InvalidateMemory(w)
  <2>1. /\ Remove(Home[w], DOMAIN cache[Home[w]]) /\ Acknowledge(w) /\ FinishWrite(w)
        /\ UNCHANGED <<version, reader>>
    BY <1>5 DEF InvalidateMemory
  <2> QED
    BY <2>1, <1>0, <1>1, <1>3, <1>4, RemoveType, ShrinkCache
<1>6. CASE BeginScan(w)
  <2>1. TypeOK'
    BY <1>0, <1>1, <1>6 DEF BeginScan, reader, TypeOK
  <2>2. VersionsBehind' /\ Asking'
    BY <1>6 DEF CacheInv, BeginScan, reader, VersionsBehind, Asking
  <2> QED
    BY <2>1, <2>2 DEF CacheInv
<1>7. CASE \E k \in Keys : DeleteKey(w, k)
  <2>1. PICK k \in Keys : DeleteKey(w, k)
    BY <1>7
  <2>2. /\ Remove(Home[w], {k})
        /\ UNCHANGED <<version, acked, reader, wpc, wver>>
    BY <2>1 DEF DeleteKey
  <2>3. /\ acked \in Nat /\ acked <= version
        /\ wpc \in [Writers -> {"idle", "committed", "scanning"}]
        /\ wver \in [Writers -> Nat]
        /\ \A v \in Writers : wver[v] <= version
    BY <1>0 DEF TypeOK, VersionsBehind
  <2> QED
    BY <2>2, <2>3, <1>0, <1>1, RemoveType, ShrinkCache
<1>8. CASE FinishScan(w)
  <2>1. /\ Acknowledge(w) /\ FinishWrite(w) /\ UNCHANGED <<version, cache, reader, todo>>
    BY <1>8 DEF FinishScan
  <2>2. /\ DOMAIN cache = Stores
        /\ \A t \in Stores : /\ cache[t] \in [DOMAIN cache[t] -> Entry]
                             /\ DOMAIN cache[t] \subseteq Keys
        /\ todo \in [Writers -> SUBSET Keys]
    BY <1>0 DEF TypeOK
  <2> QED
    BY <2>1, <2>2, <1>3, <1>4, ShrinkCache
<1>9. CASE FailInvalidate(w)
  <2>1. /\ FinishWrite(w) /\ UNCHANGED <<version, acked, cache, reader>>
        /\ todo' = [todo EXCEPT ![w] = {}]
    BY <1>9 DEF FailInvalidate
  <2>2. /\ DOMAIN cache = Stores
        /\ \A t \in Stores : /\ cache[t] \in [DOMAIN cache[t] -> Entry]
                             /\ DOMAIN cache[t] \subseteq Keys
        /\ todo' \in [Writers -> SUBSET Keys]
        /\ acked \in Nat /\ acked <= version
    BY <1>0, <2>1 DEF TypeOK, VersionsBehind
  <2> QED
    BY <2>1, <2>2, <1>4, ShrinkCache
<1> QED
  BY <1>2, <1>5, <1>6, <1>7, <1>8, <1>9

\* So do the steps nobody's request takes.
LEMMA BesideCache ==
    ASSUME CacheInv,
           \/ Reseed \/ Tick
           \/ \E s \in Stores : Restart(s) \/ \E k \in Keys : Evict(s, k)
    PROVE  CacheInv'
<1>0. /\ TypeOK /\ VersionsBehind
      /\ wpc \in [Writers -> {"idle", "committed", "scanning"}]
      /\ wver \in [Writers -> Nat]
      /\ \A v \in Writers : wver[v] <= version
      /\ acked \in Nat /\ acked <= version
  BY DEF CacheInv, TypeOK, VersionsBehind
<1>1. CASE Reseed
  <2>1. TypeOK' /\ Asking'
    BY <1>1 DEF CacheInv, Reseed, reader, writer, TypeOK, Asking
  <2>2. VersionsBehind'
    BY <1>0, <1>1 DEF Reseed, reader, writer, TypeOK, VersionsBehind, Entry
  <2> QED
    BY <2>1, <2>2 DEF CacheInv
<1>2. CASE Tick
  <2>1. /\ DOMAIN cache' = Stores
        /\ \A t \in Stores : /\ DOMAIN cache'[t] \subseteq DOMAIN cache[t]
                             /\ \A k \in DOMAIN cache'[t] :
                                  /\ Alive(cache[t][k])
                                  /\ cache'[t][k] = [cache[t][k] EXCEPT !.left = @ - 1]
                             /\ cache'[t] = [k \in DOMAIN cache'[t] |-> cache'[t][k]]
    BY <1>2 DEF Tick
  <2>2. ASSUME NEW t \in Stores, NEW k \in DOMAIN cache'[t]
        PROVE  /\ cache'[t][k] \in Entry
               /\ cache'[t][k].ver = cache[t][k].ver
               /\ cache'[t][k].page = cache[t][k].page
    <3>1. cache[t][k] \in Entry /\ cache[t][k].left > 1
      BY <1>0, <2>1, <2>2 DEF TypeOK, Alive
    <3>2. cache[t][k].left - 1 \in 1 .. TTL
      BY <3>1, TTLAssumption DEF Entry
    <3> QED
      BY <2>1, <3>1, <3>2 DEF Entry
  <2>3. \A t \in Stores : /\ cache'[t] \in [DOMAIN cache'[t] -> Entry]
                          /\ DOMAIN cache'[t] \subseteq Keys
    BY <1>0, <2>1, <2>2 DEF TypeOK
  <2>4. todo' \in [Writers -> SUBSET Keys] /\ UNCHANGED <<version, acked, reader, wpc, wver>>
    BY <1>0, <1>2 DEF Tick, TypeOK
  <2> QED
    BY <1>0, <2>1, <2>2, <2>3, <2>4, ShrinkCache
<1>3. CASE \E s \in Stores, k \in Keys : Evict(s, k)
  <2>1. PICK s \in Stores, k \in Keys : Evict(s, k)
    BY <1>3
  <2>2. Remove(s, {k}) /\ UNCHANGED <<version, acked, reader, wpc, wver>>
    BY <2>1 DEF Evict
  <2> QED
    BY <1>0, <2>2, RemoveType, ShrinkCache
<1>4. CASE \E s \in Stores : Restart(s)
  <2>1. PICK s \in Stores : Restart(s)
    BY <1>4
  <2>2. Remove(s, DOMAIN cache[s]) /\ UNCHANGED <<version, acked, reader, wpc, wver>>
    BY <2>1 DEF Restart
  <2> QED
    BY <1>0, <2>2, RemoveType, ShrinkCache
<1> QED
  BY <1>1, <1>2, <1>3, <1>4

LEMMA CacheStep == CacheInv /\ [Next]_vars => CacheInv'
<1>1. CacheInv /\ UNCHANGED vars => CacheInv'
  BY DEF CacheInv, TypeOK, VersionsBehind, Asking, vars, reader, writer
<1> QED
  BY <1>1, ReaderCache, WriterCache, BesideCache DEF Next

\* No entry is newer than the table, and each is under its own key.
THEOREM CacheInvariant == Spec => []CacheInv
<1>1. Init => CacheInv
  BY InitCache
<1> QED
  BY <1>1, CacheStep, PTL DEF Spec

\* Every variable keeps its type, with any number of handlers and stores.
THEOREM Typed == Spec => []TypeOK
<1>1. CacheInv => TypeOK
  BY DEF CacheInv
<1> QED
  BY <1>1, CacheInvariant, PTL

-----------------------------------------------------------------------------
\* Two pages share a key only if they are the same, or both are the whole list.
LEMMA KeysDiffer ==
    ASSUME NEW p \in Pages, NEW q \in Pages, Key(p) = Key(q)
    PROVE  SamePage(p, q)
<1>1. CASE p \in ItemPages /\ q \in ItemPages
  BY <1>1 DEF ItemPages, Key, SamePage
<1>2. CASE p \in ListPages /\ q \in ListPages
  <2> DEFINE name(page) == IF page.category = NoCategory THEN "all" ELSE page.category
  <2>1. name(p) = name(q) /\ p.window = q.window /\ p.kind = "list" /\ q.kind = "list"
    BY <1>2 DEF ListPages, Key
  <2>2. CASE p.category = q.category
    BY <1>2, <2>1, <2>2 DEF ListPages, SamePage
  <2>3. CASE p.category # q.category
    BY <2>1, <2>3 DEF SamePage, OneList
  <2> QED
    BY <2>2, <2>3
<1>3. CASE p \in ItemPages /\ q \in ListPages
  BY <1>3 DEF ItemPages, ListPages, Key
<1>4. CASE p \in ListPages /\ q \in ItemPages
  BY <1>4 DEF ItemPages, ListPages, Key
<1> QED
  BY <1>1, <1>2, <1>3, <1>4 DEF Pages

\* A hit answers with the page that was asked for, but for a category 'all' and
\* the list without a filter, which are one page to the cache.
THEOREM HitsTheRightPage == Spec => []RightPage
<1>1. ASSUME CacheInv
      PROVE  RightPage
  BY <1>1, KeysDiffer DEF CacheInv, VersionsBehind, RightPage
<1> QED
  BY <1>1, CacheInvariant, PTL

-----------------------------------------------------------------------------
FreshInv == CacheInv /\ ScanCovers /\ StaleOnlyIfRaced

\* A store that only loses entries, together with the scans that would have
\* returned them, has no new stale entry and no new entry for a scan.
LEMMA ShrinkFresh ==
    ASSUME FreshInv,
           \A s \in Stores : \A k \in DOMAIN cache'[s] :
              /\ k \in DOMAIN cache[s]
              /\ cache'[s][k].ver = cache[s][k].ver
              /\ cache'[s][k].late = cache[s][k].late,
           UNCHANGED acked,
           \A w \in Writers : wpc'[w] = "scanning" =>
              /\ wpc[w] = "scanning" /\ wver'[w] = wver[w]
              /\ \A s \in Stores : \A k \in DOMAIN cache'[s] :
                    k \in todo[w] => k \in todo'[w]
    PROVE  ScanCovers' /\ StaleOnlyIfRaced'
<1>1. ScanCovers'
  BY DEF FreshInv, ScanCovers
<1>2. StaleOnlyIfRaced'
  BY DEF FreshInv, StaleOnlyIfRaced
<1> QED
  BY <1>1, <1>2

\* An entry that is deleted needs no scan any more.
LEMMA RemoveFresh ==
    ASSUME NEW s \in Stores, NEW gone, FreshInv,
           Remove(s, gone), UNCHANGED <<acked, wpc, wver>>, OneStore
    PROVE  ScanCovers' /\ StaleOnlyIfRaced'
<1>1. \A t \in Stores : \A k \in DOMAIN cache'[t] :
         k \in DOMAIN cache[t] /\ cache'[t][k] = cache[t][k] /\ k \notin gone
  BY RemoveType DEF FreshInv, CacheInv, OneStore
<1>2. \A w \in Writers : \A k \in todo[w] : k \notin gone => k \in todo'[w]
  BY DEF Remove
<1> QED
  BY <1>1, <1>2, ShrinkFresh

\* A fill that no commit overtook stores the newest version there is.
LEMMA ReaderFresh ==
    ASSUME NEW r \in Readers, FreshInv,
           \/ \E page \in Pages : Hit(r, page) \/ Miss(r, page)
           \/ Load(r) \/ NotFound(r) \/ Store(r) \/ FailRead(r)
    PROVE  ScanCovers' /\ StaleOnlyIfRaced'
<1>1. UNCHANGED <<version, acked, wpc, wver, todo>>
  BY DEF Hit, Miss, Load, NotFound, Store, FailRead, vars, writer
<1>2. CASE UNCHANGED cache
  BY <1>1, <1>2, ShrinkFresh
<1>3. CASE Store(r) /\ TTL # 0
  <2> DEFINE key == Key(asked[r])
             entry == [page |-> asked[r], ver |-> rver[r],
                       late |-> rver[r] < version, left |-> TTL]
  <2>1. Put(Home[r], key, entry) /\ key \in Keys /\ entry \in Entry /\ Home[r] \in Stores
    BY <1>3, StoreEntry, HomeAssumption DEF FreshInv, Off, Store
  <2>2. ~ entry.late => entry.ver >= acked /\ \A w \in Writers : entry.ver >= wver[w]
    <3>1. CASE rver[r] < version
      BY <3>1
    <3>2. CASE ~ rver[r] < version
      <4>1. /\ rver[r] = version /\ version \in Nat /\ acked \in Nat
            /\ \A w \in Writers : wver[w] \in Nat
        BY <3>2 DEF FreshInv, CacheInv, VersionsBehind, TypeOK
      <4>2. rver[r] >= acked /\ \A w \in Writers : rver[r] >= wver[w]
        BY <4>1 DEF FreshInv, CacheInv, VersionsBehind
      <4> QED
        BY <4>2
    <3> QED
      BY <3>1, <3>2
  <2>3. entry.ver \in Nat /\ acked \in Nat /\ \A w \in Writers : wver[w] \in Nat
    BY DEF FreshInv, CacheInv, TypeOK
  <2> HIDE DEF key, entry
  <2>4. \A s \in Stores : \A k \in DOMAIN cache'[s] :
           \/ k = key /\ cache'[s][k] = entry
           \/ k \in DOMAIN cache[s] /\ cache'[s][k] = cache[s][k]
    BY <2>1, PutType DEF FreshInv, CacheInv
  <2>5. ScanCovers'
    BY <1>1, <2>2, <2>3, <2>4 DEF FreshInv, ScanCovers
  <2>6. StaleOnlyIfRaced'
    BY <1>1, <2>2, <2>3, <2>4 DEF FreshInv, StaleOnlyIfRaced
  <2> QED
    BY <2>5, <2>6
<1>4. UNCHANGED cache \/ (Store(r) /\ TTL # 0)
  BY DEF Hit, Miss, Load, NotFound, Off, Store, FailRead, vars
<1> QED
  BY <1>2, <1>3, <1>4

\* An invalidation that ends has removed what was there before its commit.
LEMMA WriterFresh ==
    ASSUME OneStore, NEW w \in Writers, FreshInv,
           \/ Commit(w) \/ InvalidateMemory(w) \/ BeginScan(w)
           \/ \E k \in Keys : DeleteKey(w, k)
           \/ FinishScan(w) \/ FailInvalidate(w)
    PROVE  ScanCovers' /\ StaleOnlyIfRaced'
<1>0. /\ wpc \in [Writers -> {"idle", "committed", "scanning"}]
      /\ wver \in [Writers -> Nat] /\ acked \in Nat
      /\ todo \in [Writers -> SUBSET Keys]
      /\ TypeOK /\ Home[w] \in Stores
  BY HomeAssumption DEF FreshInv, CacheInv, TypeOK
<1>1. CASE Commit(w)
  BY <1>0, <1>1, ShrinkFresh DEF Commit
<1>2. CASE InvalidateMemory(w)
  <2>1. Remove(Home[w], DOMAIN cache[Home[w]])
    BY <1>2 DEF InvalidateMemory
  <2>2. \A s \in Stores : DOMAIN cache'[s] = {}
    BY <1>0, <2>1 DEF OneStore, Remove, TypeOK
  <2> QED
    BY <2>2 DEF ScanCovers, StaleOnlyIfRaced
<1>3. CASE BeginScan(w)
  <2>1. /\ UNCHANGED <<acked, cache, wver>>
        /\ todo'[w] = DOMAIN cache[Home[w]]
        /\ \A v \in Writers \ {w} : wpc'[v] = wpc[v] /\ todo'[v] = todo[v]
    BY <1>0, <1>3 DEF BeginScan
  <2>2. StaleOnlyIfRaced'
    BY <2>1 DEF FreshInv, StaleOnlyIfRaced
  <2>3. ScanCovers'
    BY <1>0, <2>1 DEF FreshInv, ScanCovers, OneStore
  <2> QED
    BY <2>2, <2>3
<1>4. CASE \E k \in Keys : DeleteKey(w, k)
  <2>1. PICK k \in Keys : Remove(Home[w], {k}) /\ UNCHANGED <<acked, wpc, wver>>
    BY <1>4 DEF DeleteKey
  <2> QED
    BY <1>0, <2>1, RemoveFresh
<1>5. CASE FinishScan(w)
  <2>1. /\ wpc[w] = "scanning" /\ todo[w] = {} /\ UNCHANGED <<cache, todo>>
        /\ acked' = IF acked < wver[w] THEN wver[w] ELSE acked
        /\ wpc' = [wpc EXCEPT ![w] = "idle"] /\ wver' = [wver EXCEPT ![w] = 0]
    BY <1>5 DEF FinishScan, Acknowledge, FinishWrite
  <2>2. StaleOnlyIfRaced'
    BY <1>0, <2>1 DEF FreshInv, ScanCovers, StaleOnlyIfRaced
  <2>3. ScanCovers'
    BY <1>0, <2>1 DEF FreshInv, ScanCovers
  <2> QED
    BY <2>2, <2>3
<1>6. CASE FailInvalidate(w)
  <2>1. /\ UNCHANGED <<acked, cache>> /\ todo' = [todo EXCEPT ![w] = {}]
        /\ wpc' = [wpc EXCEPT ![w] = "idle"] /\ wver' = [wver EXCEPT ![w] = 0]
    BY <1>6 DEF FailInvalidate, FinishWrite
  <2> QED
    BY <1>0, <2>1, ShrinkFresh
<1> QED
  BY <1>1, <1>2, <1>3, <1>4, <1>5, <1>6

\* A tick changes nothing of an entry but how long it has to live.
LEMMA Aged ==
    ASSUME NEW entry \in Entry, NEW n
    PROVE  /\ [entry EXCEPT !.left = n].ver = entry.ver
           /\ [entry EXCEPT !.left = n].late = entry.late
           /\ [entry EXCEPT !.left = n].left = n
<1>1. DOMAIN entry = {"page", "ver", "late", "left"}
  BY DEF Entry
<1> QED
  BY <1>1, Zenon

\* Expiry, eviction and a restart only take entries away, and Reseed changes neither side.
LEMMA BesideFresh ==
    ASSUME OneStore, FreshInv,
           \/ Reseed \/ Tick
           \/ \E s \in Stores : Restart(s) \/ \E k \in Keys : Evict(s, k)
    PROVE  ScanCovers' /\ StaleOnlyIfRaced'
<1>1. CASE Reseed
  BY <1>1, ShrinkFresh DEF Reseed, writer
<1>2. CASE Tick
  <2>1. \A s \in Stores : \A k \in DOMAIN cache'[s] :
           /\ k \in DOMAIN cache[s] /\ Alive(cache[s][k])
           /\ cache[s][k] \in Entry
           /\ cache'[s][k] = [cache[s][k] EXCEPT !.left = @ - 1]
    BY <1>2 DEF Tick, FreshInv, CacheInv, TypeOK
  <2>2. \A s \in Stores : \A k \in DOMAIN cache'[s] :
           /\ k \in DOMAIN cache[s]
           /\ cache'[s][k].ver = cache[s][k].ver
           /\ cache'[s][k].late = cache[s][k].late
    <3> SUFFICES ASSUME NEW s \in Stores, NEW k \in DOMAIN cache'[s]
                 PROVE  /\ k \in DOMAIN cache[s]
                        /\ cache'[s][k].ver = cache[s][k].ver
                        /\ cache'[s][k].late = cache[s][k].late
      OBVIOUS
    <3> DEFINE left == cache[s][k].left - 1
    <3>1. /\ k \in DOMAIN cache[s] /\ cache[s][k] \in Entry
          /\ cache'[s][k] = [cache[s][k] EXCEPT !.left = left]
      BY <2>1
    <3>2. /\ [cache[s][k] EXCEPT !.left = left].ver = cache[s][k].ver
          /\ [cache[s][k] EXCEPT !.left = left].late = cache[s][k].late
      BY <3>1, Aged
    <3> QED
      BY <3>1, <3>2, Zenon
  <2>3. \A w \in Writers : \A s \in Stores : \A k \in DOMAIN cache'[s] :
           k \in todo[w] => k \in todo'[w]
    <3>1. \A w \in Writers : Home[w] \in Stores
      BY HomeAssumption
    <3>2. \A w \in Writers : todo'[w] =
             todo[w] \ {k \in DOMAIN cache[Home[w]] : ~ Alive(cache[Home[w]][k])}
      BY <1>2 DEF Tick
    <3> QED
      BY <2>1, <3>1, <3>2 DEF OneStore
  <2>4. UNCHANGED <<acked, wpc, wver>>
    BY <1>2 DEF Tick
  <2> QED
    BY <2>2, <2>3, <2>4, ShrinkFresh
<1>3. CASE \E s \in Stores, k \in Keys : Evict(s, k)
  <2>1. PICK s \in Stores, k \in Keys :
           Remove(s, {k}) /\ UNCHANGED <<acked, wpc, wver>>
    BY <1>3 DEF Evict
  <2> QED
    BY <2>1, RemoveFresh
<1>4. CASE \E s \in Stores : Restart(s)
  <2>1. PICK s \in Stores :
           Remove(s, DOMAIN cache[s]) /\ UNCHANGED <<acked, wpc, wver>>
    BY <1>4 DEF Restart
  <2> QED
    BY <2>1, RemoveFresh
<1> QED
  BY <1>1, <1>2, <1>3, <1>4

\* With one store for all, whatever is stale once an invalidation has finished
\* was stored by a fill that straddled a commit.
THEOREM OnlyRacesLeaveStale ==
    ASSUME OneStore
    PROVE  Spec => []StaleOnlyIfRaced
<1>1. Init => FreshInv
  BY InitCache DEF FreshInv
<1>2. FreshInv /\ [Next]_vars => FreshInv'
  <2> SUFFICES ASSUME FreshInv, [Next]_vars PROVE FreshInv'
    OBVIOUS
  <2>1. CacheInv'
    BY CacheStep DEF FreshInv
  <2>2. CASE UNCHANGED vars
    BY <2>1, <2>2 DEF FreshInv, ScanCovers, StaleOnlyIfRaced, vars, writer
  <2>3. CASE Next
    BY <2>1, <2>3, ReaderFresh, WriterFresh, BesideFresh DEF FreshInv, Next
  <2> QED
    BY <2>2, <2>3
<1>3. FreshInv => StaleOnlyIfRaced
  BY DEF FreshInv
<1> QED
  BY <1>1, <1>2, <1>3, PTL DEF Spec

-----------------------------------------------------------------------------
(* What is true where no fill straddles a commit.                            *)

\* A reader that stores its page has loaded it after the last write.
FillsAreCurrent == [][\A r \in Readers : Store(r) => rver[r] = version]_vars

NeverLate ==
    \A s \in Stores : \A k \in DOMAIN cache[s] : ~ cache[s][k].late

\* What a step leaves in a store: the entry of a reader that stores its page, or
\* one that was there, with no more time to live.
Kept(s, k) ==
    /\ k \in DOMAIN cache[s]
    /\ cache'[s][k].ver = cache[s][k].ver
    /\ cache'[s][k].late = cache[s][k].late
    /\ cache'[s][k].left <= cache[s][k].left

Filled(s, k) ==
    \E r \in Readers :
        /\ Store(r)
        /\ rpc[r] = "loaded" /\ rpc'[r] = "idle"
        /\ cache'[s][k].ver = rver[r]
        /\ cache'[s][k].late => rver[r] < version

LEMMA EntryStep ==
    ASSUME CacheInv, [Next]_vars, NEW s \in Stores, NEW k \in DOMAIN cache'[s]
    PROVE  Filled(s, k) \/ Kept(s, k)
<1>0. TypeOK
  BY DEF CacheInv
<1>1. ASSUME k \in DOMAIN cache[s], cache'[s][k] = cache[s][k]
      PROVE  Kept(s, k)
  <2>1. cache[s][k] \in Entry
    BY <1>0, <1>1 DEF TypeOK
  <2>2. cache[s][k].left \in 1 .. TTL
    BY <2>1 DEF Entry
  <2>3. cache[s][k].left <= cache[s][k].left
    BY <2>2, TTLAssumption
  <2> QED
    BY <1>1, <2>3 DEF Kept
<1>2. CASE UNCHANGED cache
  BY <1>1, <1>2
<1>3. ASSUME NEW t \in Stores, NEW gone, Remove(t, gone)
      PROVE  Kept(s, k)
  BY <1>0, <1>1, <1>3, RemoveType
<1>4. ASSUME NEW r \in Readers, Store(r), TTL # 0
      PROVE  Filled(s, k) \/ Kept(s, k)
  <2> DEFINE key == Key(asked[r])
             entry == [page |-> asked[r], ver |-> rver[r],
                       late |-> rver[r] < version, left |-> TTL]
  <2>1. Put(Home[r], key, entry) /\ key \in Keys /\ entry \in Entry /\ Home[r] \in Stores
    BY <1>4, StoreEntry, HomeAssumption DEF Off, Store
  <2>2. rpc[r] = "loaded" /\ rpc'[r] = "idle"
    BY <1>0, <1>4 DEF Store, FinishRead, TypeOK
  <2>3. entry.ver = rver[r] /\ (entry.late => rver[r] < version)
    OBVIOUS
  <2> HIDE DEF key, entry
  <2>4. cache'[s][k] = entry \/ (k \in DOMAIN cache[s] /\ cache'[s][k] = cache[s][k])
    BY <1>0, <2>1, PutType
  <2> QED
    BY <1>1, <1>4, <2>2, <2>3, <2>4 DEF Filled
<1>5. CASE Tick
  <2> DEFINE left == cache[s][k].left - 1
  <2>1. /\ k \in DOMAIN cache[s]
        /\ cache'[s][k] = [cache[s][k] EXCEPT !.left = left]
    BY <1>5 DEF Tick
  <2>2. cache[s][k] \in Entry
    BY <1>0, <2>1 DEF TypeOK
  <2>3. /\ [cache[s][k] EXCEPT !.left = left].ver = cache[s][k].ver
        /\ [cache[s][k] EXCEPT !.left = left].late = cache[s][k].late
        /\ [cache[s][k] EXCEPT !.left = left].left = left
    BY <2>2, Aged
  <2>4. cache[s][k].left \in 1 .. TTL
    BY <2>2 DEF Entry
  <2>5. left <= cache[s][k].left
    BY <2>4, TTLAssumption
  <2> HIDE DEF left
  <2> QED
    BY <2>1, <2>3, <2>5, Zenon DEF Kept
<1>6. \/ UNCHANGED cache
      \/ \E t \in Stores : \E gone : Remove(t, gone)
      \/ \E r \in Readers : Store(r) /\ TTL # 0
      \/ Tick
  <2>1. \A w \in Writers : Home[w] \in Stores
    BY HomeAssumption
  <2>2. ASSUME NEW r \in Readers, NEW page \in Pages, Hit(r, page) \/ Miss(r, page)
        PROVE  UNCHANGED cache
    BY <2>2 DEF Hit, Miss, vars
  <2>3. ASSUME NEW r \in Readers, Load(r) \/ NotFound(r) \/ FailRead(r)
        PROVE  UNCHANGED cache
    BY <2>3 DEF Load, NotFound, FailRead
  <2>4. ASSUME NEW r \in Readers, Store(r)
        PROVE  UNCHANGED cache \/ TTL # 0
    BY <2>4 DEF Store, Off
  <2>5. ASSUME NEW w \in Writers, Commit(w) \/ BeginScan(w) \/ FinishScan(w) \/ FailInvalidate(w)
        PROVE  UNCHANGED cache
    BY <2>5 DEF Commit, BeginScan, FinishScan, FailInvalidate
  <2>6. ASSUME NEW w \in Writers, InvalidateMemory(w) \/ \E key \in Keys : DeleteKey(w, key)
        PROVE  \E gone : Remove(Home[w], gone)
    BY <2>6 DEF InvalidateMemory, DeleteKey
  <2>7. ASSUME NEW t \in Stores, Restart(t) \/ \E key \in Keys : Evict(t, key)
        PROVE  \E gone : Remove(t, gone)
    BY <2>7 DEF Restart, Evict
  <2>8. Reseed \/ UNCHANGED vars => UNCHANGED cache
    BY DEF Reseed, vars
  <2> QED
    BY <2>1, <2>2, <2>3, <2>4, <2>5, <2>6, <2>7, <2>8 DEF Next
<1> QED
  BY <1>2, <1>3, <1>4, <1>5, <1>6

\* No step gives a page that is older than the table a longer life, except the
\* reader that stores it.
THEOREM StaleOnlyFades == Spec => StaleFades
<1>1. ASSUME CacheInv, [Next]_vars
      PROVE  \A s \in Stores : \A k \in DOMAIN cache'[s] :
                cache'[s][k].ver < version' =>
                  \/ \E r \in Readers : /\ rpc[r] = "loaded" /\ rpc'[r] = "idle"
                                        /\ rver[r] = cache'[s][k].ver
                  \/ /\ k \in DOMAIN cache[s]
                     /\ cache'[s][k].ver = cache[s][k].ver
                     /\ cache'[s][k].left <= cache[s][k].left
  BY <1>1, EntryStep DEF Filled, Kept
<1> QED
  BY <1>1, CacheInvariant, PTL DEF Spec, StaleFades

\* With one store for all and no fill that straddles a commit, the README's claim
\* holds: once an invalidation has ended, no older page is served.  Readers may
\* fail, scans may end halfway, entries may expire or be evicted at any time.
THEOREM NoStalePricesUnlessRaced ==
    ASSUME OneStore
    PROVE  Spec /\ FillsAreCurrent => []NoStalePrices
<1>1. Init => NeverLate
  <2>1. DOMAIN Empty = {}
    BY DEF Empty
  <2> HIDE DEF Empty
  <2> QED
    BY <2>1 DEF Init, NeverLate
<1>2. ASSUME CacheInv, NeverLate, [Next]_vars,
             [\A r \in Readers : Store(r) => rver[r] = version]_vars
      PROVE  NeverLate'
  <2> SUFFICES ASSUME NEW s \in Stores, NEW k \in DOMAIN cache'[s]
               PROVE  ~ cache'[s][k].late
    BY DEF NeverLate
  <2>1. CASE Kept(s, k)
    BY <1>2, <2>1 DEF NeverLate, Kept
  <2>2. CASE Filled(s, k)
    <3>1. PICK r \in Readers : /\ Store(r) /\ rpc[r] # rpc'[r]
                               /\ cache'[s][k].late => rver[r] < version
      BY <2>2 DEF Filled
    <3>2. rver[r] = version
      BY <1>2, <3>1 DEF vars, reader
    <3>3. version \in Nat
      BY <1>2 DEF CacheInv, TypeOK
    <3> QED
      BY <3>1, <3>2, <3>3
  <2> QED
    BY <1>2, <2>1, <2>2, EntryStep
<1>3. ASSUME CacheInv, NeverLate, StaleOnlyIfRaced
      PROVE  NoStalePrices
  <2> SUFFICES ASSUME NEW s \in Stores, NEW k \in DOMAIN cache[s]
               PROVE  cache[s][k].ver >= acked
    BY DEF NoStalePrices
  <2>1. cache[s][k] \in Entry /\ acked \in Nat
    BY <1>3 DEF CacheInv, TypeOK
  <2>2. cache[s][k].ver \in Nat
    BY <2>1 DEF Entry
  <2>3. ~ cache[s][k].ver < acked
    BY <1>3 DEF NeverLate, StaleOnlyIfRaced
  <2> QED
    BY <2>1, <2>2, <2>3
<1> QED
  BY <1>1, <1>2, <1>3, CacheInvariant, OnlyRacesLeaveStale, PTL DEF Spec, FillsAreCurrent

\* Without such fills agreement lasts: caches that agree with the table go on to
\* do so until the next write, with any number of stores.
THEOREM AgreementLasts ==
    Spec /\ FillsAreCurrent => [][Coherent /\ version' = version => Coherent']_vars
<1>1. ASSUME CacheInv, [Next]_vars, Coherent, version' = version,
             [\A r \in Readers : Store(r) => rver[r] = version]_vars
      PROVE  Coherent'
  <2> SUFFICES ASSUME NEW s \in Stores, NEW k \in DOMAIN cache'[s]
               PROVE  cache'[s][k].ver = version
    BY <1>1 DEF Coherent
  <2>1. CASE Kept(s, k)
    BY <1>1, <2>1 DEF Coherent, Kept
  <2>2. CASE Filled(s, k)
    BY <1>1, <2>2 DEF Filled, vars, reader
  <2> QED
    BY <1>1, <2>1, <2>2, EntryStep
<1> QED
  BY <1>1, CacheInvariant, PTL DEF Spec, FillsAreCurrent
=============================================================================
