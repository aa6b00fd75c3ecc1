----------------------- MODULE TokenListFetcherProofs -----------------------
(***************************************************************************)
(* Proofs about TokenListFetcher: any number of requests, urls, versions   *)
(* and retries, any TTL and any capacity.                                  *)
(*                                                                         *)
(* Completeness of an accepted request is about four things that change at *)
(* different times: what the request asked for, what the cache held then,  *)
(* what was published since, and who loaded it.  FetchInv ties them        *)
(* together: a cached version was replaced no longer ago than the entry is *)
(* old, and no lookup can get a version older than the one its request     *)
(* found fresh on arrival.                                                 *)
(***************************************************************************)
EXTENDS TokenListFetcher, Extrema, FiniteSetTheorems, TLAPS

\* Functions from some of the urls.
Lookups == UNION {[urls -> Lookup] : urls \in SUBSET Url}
Floors == UNION {[urls -> Nat] : urls \in SUBSET Url}

Handler == [pc : {"idle", "resolve", "accepted"}, custom : SUBSET Address, lookups : Lookups,
            watched : SUBSET Address, oldest : Floors, losses : SUBSET Url]

CacheEntry == [hit : BOOLEAN, age : Nat, version : Nat]

\* The functions that TypeOK describes point by point.
Shape ==
    /\ published \in [Url -> Nat]
    /\ cache \in [Url -> CacheEntry]
    /\ loaded \in [Url -> Nat]
    /\ requests \in [Request -> Handler]

\* One list: p is its published version, e its cache entry, since the ticks since each
\* version was replaced, l the ticks since it was loaded.
ListSound(u, p, e, since, l) ==
    /\ p \in Versions(u)
    /\ since \in [Versions(u) -> 0 .. Ttl]
    /\ \A v \in Versions(u) : v >= p => since[v] = 0
    /\ e.age < Ttl /\ e.version \in 0 .. p
    /\ e.hit => e.version >= 1 /\ since[e.version] <= e.age
    /\ l <= Ttl
    /\ l < Ttl => e.hit /\ e.age = l

\* One lookup of handler h: p is the list's published version, e its cache entry.
LookupSound(h, u, p, e) ==
    /\ h.oldest[u] \in 1 .. p
    /\ e.hit => h.oldest[u] <= e.version
    /\ h.lookups[u].pc = "ask" \/ h.pc = "resolve"
    /\ h.lookups[u].pc = "got" => h.lookups[u].version \in h.oldest[u] .. p
    /\ h.lookups[u].pc = "failed" => ~ValidateUrl(u) \/ u \in h.losses
    /\ h.lookups[u].pc = "load" => ~e.hit

\* The tokens of an accepted handler, if picked are the versions it got.
Watches(h, pick) ==
    h.watched = {a \in Address \ {Native} :
                    \/ a = Weth9 \/ a \in h.custom
                    \/ \E u \in DOMAIN h.lookups : \E e \in List[u][pick[u]] :
                          e.address = a /\ e.onChain /\ e.parses}

Complete(h, pub) ==
    h.pc = "accepted" =>
        /\ \E pick \in [DOMAIN h.lookups -> UNION {Versions(u) : u \in Url}] :
              /\ \A u \in DOMAIN h.lookups : pick[u] \in h.oldest[u] .. pub[u]
              /\ Watches(h, pick)
        /\ Cardinality(h.watched) <= TokenLimit

HandlerSound(h, pub, c) ==
    /\ h.losses \subseteq DOMAIN h.lookups
    /\ \A u \in DOMAIN h.lookups : LookupSound(h, u, pub[u], c[u])
    /\ Complete(h, pub)

Loads(h, u) == u \in DOMAIN h.lookups /\ h.lookups[u].pc = "load"

OneLoader ==
    \A r \in Request, o \in Request, u \in Url :
        Loads(requests[r], u) /\ Loads(requests[o], u) => r = o

\* The inductive invariant.
FetchInv ==
    /\ Shape
    /\ \A u \in Url : ListSound(u, published[u], cache[u], replaced[u], loaded[u])
    /\ \A r \in Request : HandlerSound(requests[r], published, cache)
    /\ OneLoader

-----------------------------------------------------------------------------
(* What the records and the constants give.                                *)

\* A request's lookups are a function on some of the urls.
LEMMA LookupsAre ==
    \A f : f \in Lookups <=> DOMAIN f \subseteq Url /\ f \in [DOMAIN f -> Lookup]
BY DEF Lookups

\* So are the oldest versions it may be given.
LEMMA FloorsAre ==
    \A f : f \in Floors <=> DOMAIN f \subseteq Url /\ f \in [DOMAIN f -> Nat]
BY DEF Floors

\* Every list has a first version.
LEMMA VersionsAreNat == \A u \in Url : Len(List[u]) \in Nat /\ Len(List[u]) >= 1
BY FetcherAssumption

\* Every lookup the code makes is one.
LEMMA LookupValues ==
    /\ Asking \in Lookup /\ Asking.pc = "ask" /\ Asking.tries = 0
    /\ FailedLookup \in Lookup /\ FailedLookup.pc = "failed"
    /\ [Asking EXCEPT !.pc = "load"] \in Lookup /\ [Asking EXCEPT !.pc = "load"].pc = "load"
    /\ [Asking EXCEPT !.pc = "wait"] \in Lookup /\ [Asking EXCEPT !.pc = "wait"].pc = "wait"
    /\ \A v \in Nat : Got(v) \in Lookup /\ Got(v).pc = "got" /\ Got(v).version = v
<1>1. MaxRetries \in Nat
  BY FetcherAssumption
<1>2. Asking \in Lookup /\ Asking.pc = "ask" /\ Asking.tries = 0
  BY <1>1 DEF Asking, Lookup
<1> QED BY <1>2 DEF FailedLookup, Got, Lookup

\* A handler between two requests asks for nothing.
LEMMA IdleHandler ==
    /\ Idle \in Handler
    /\ Idle.pc = "idle" /\ Idle.custom = {} /\ Idle.watched = {} /\ Idle.losses = {}
    /\ DOMAIN Idle.lookups = {}
<1>1. NoLookups \in Lookups /\ DOMAIN NoLookups = {}
  BY LookupsAre DEF NoLookups
<1>2. [u \in {} |-> 1] \in Floors
  BY FloorsAre
<1> QED BY <1>1, <1>2 DEF Idle, Handler

\* Such a handler is sound whatever the lists and the cache are, and loads none.
LEMMA IdleSound == \A pub, c : HandlerSound(Idle, pub, c) /\ \A u : ~Loads(Idle, u)
BY IdleHandler DEF HandlerSound, Complete, Loads

-----------------------------------------------------------------------------
(* What keeps a handler sound.                                             *)

\* Lists that are published anew, entries that go, and new entries of what is published,
\* for a list the handler does not load.
LEMMA WorldMoves ==
    ASSUME NEW h \in Handler,
           NEW pub \in [Url -> Nat], NEW pub1 \in [Url -> Nat],
           NEW c \in [Url -> CacheEntry], NEW c1 \in [Url -> CacheEntry],
           HandlerSound(h, pub, c),
           \A u \in Url : pub[u] <= pub1[u],
           \A u \in Url : c1[u].hit =>
               \/ c[u].hit /\ c1[u].version = c[u].version
               \/ c1[u].version = pub[u] /\ ~Loads(h, u)
    PROVE  HandlerSound(h, pub1, c1)
<1>1. /\ h.lookups \in Lookups /\ h.oldest \in Floors
  BY DEF Handler
<1>2. DOMAIN h.lookups \subseteq Url /\ \A u \in DOMAIN h.lookups : h.lookups[u] \in Lookup
  BY <1>1, LookupsAre
<1>3. \A u \in DOMAIN h.lookups : h.lookups[u].version \in Nat
  BY <1>2 DEF Lookup
<1>4. ASSUME NEW u \in DOMAIN h.lookups PROVE LookupSound(h, u, pub1[u], c1[u])
  <2>1. /\ u \in Url /\ pub[u] \in Nat /\ pub1[u] \in Nat /\ pub[u] <= pub1[u]
        /\ LookupSound(h, u, pub[u], c[u]) /\ h.lookups[u].version \in Nat
    BY <1>2, <1>3 DEF HandlerSound
  <2>2. h.oldest[u] \in 1 .. pub1[u] /\ h.oldest[u] <= pub[u]
    BY <2>1 DEF LookupSound
  <2>3. c1[u].hit => h.oldest[u] <= c1[u].version
    BY <2>1, <2>2 DEF LookupSound
  <2>4. h.lookups[u].pc = "got" => h.lookups[u].version \in h.oldest[u] .. pub1[u]
    BY <2>1, <2>2 DEF LookupSound
  <2>5. h.lookups[u].pc = "load" => ~c1[u].hit
    BY <2>1 DEF LookupSound, Loads
  <2> QED BY <2>1, <2>2, <2>3, <2>4, <2>5 DEF LookupSound
<1>5. Complete(h, pub1)
  <2> SUFFICES ASSUME h.pc = "accepted" PROVE Complete(h, pub1)
    BY DEF Complete
  <2>1. PICK pick \in [DOMAIN h.lookups -> UNION {Versions(u) : u \in Url}] :
          /\ \A u \in DOMAIN h.lookups : pick[u] \in h.oldest[u] .. pub[u]
          /\ Watches(h, pick)
    BY DEF HandlerSound, Complete
  <2>2. \A u \in DOMAIN h.lookups : pick[u] \in h.oldest[u] .. pub1[u]
    <3> SUFFICES ASSUME NEW u \in DOMAIN h.lookups PROVE pick[u] \in h.oldest[u] .. pub1[u]
      OBVIOUS
    <3>1. u \in Url /\ pick[u] \in h.oldest[u] .. pub[u] /\ pub[u] <= pub1[u]
          /\ pub[u] \in Nat /\ pub1[u] \in Nat /\ h.oldest[u] \in 1 .. pub1[u]
      BY <1>2, <1>4, <2>1 DEF LookupSound
    <3> QED BY <3>1
  <2> QED BY <2>1, <2>2 DEF HandlerSound, Complete
<1> QED BY <1>4, <1>5 DEF HandlerSound

\* A handler that resolves its lists changes lookups, each to one that is sound.
LEMMA LookupsMove ==
    ASSUME NEW h \in Handler, NEW k \in Handler,
           NEW pub \in [Url -> Nat], NEW c \in [Url -> CacheEntry],
           k.pc = h.pc, k.custom = h.custom, k.watched = h.watched, k.oldest = h.oldest,
           DOMAIN k.lookups = DOMAIN h.lookups,
           h.losses \subseteq k.losses, k.losses \subseteq DOMAIN h.lookups,
           HandlerSound(h, pub, c),
           \A u \in DOMAIN h.lookups :
               \/ k.lookups[u] = h.lookups[u]
               \/ k.lookups[u].pc = "ask"
               \/ h.pc = "resolve" /\ k.lookups[u].pc = "wait"
               \/ h.pc = "resolve" /\ k.lookups[u].pc = "load" /\ ~c[u].hit
               \/ /\ h.pc = "resolve" /\ k.lookups[u].pc = "got"
                  /\ k.lookups[u].version \in h.oldest[u] .. pub[u]
               \/ /\ h.pc = "resolve" /\ k.lookups[u].pc = "failed"
                  /\ ~ValidateUrl(u) \/ u \in k.losses
    PROVE  HandlerSound(k, pub, c)
<1>1. ASSUME NEW u \in DOMAIN h.lookups PROVE LookupSound(k, u, pub[u], c[u])
  <2>1. LookupSound(h, u, pub[u], c[u])
    BY DEF HandlerSound
  <2> QED BY <2>1 DEF LookupSound
<1>2. Complete(k, pub)
  BY DEF HandlerSound, Complete, Watches
<1> QED BY <1>1, <1>2 DEF HandlerSound

-----------------------------------------------------------------------------
(* The world: Publish, Tick and Evict change no handler.                   *)

\* A counter that stops at a bound.
LEMMA MinOfTwo ==
    ASSUME NEW a \in Nat, NEW b \in Nat
    PROVE  Min({a, b}) \in {a, b} /\ Min({a, b}) <= a /\ Min({a, b}) <= b
<1>1. {a, b} \subseteq Nat /\ {a, b} # {}
  OBVIOUS
<1>2. Min({a, b}) \in {a, b} /\ \A y \in {a, b} : Min({a, b}) <= y
  BY <1>1, MinIsLeast, Zenon
<1> QED BY <1>2

\* What the three steps have in common.
LEMMA WorldStep ==
    ASSUME FetchInv, Shape', UNCHANGED requests,
           \A u \in Url : ListSound(u, published[u], cache[u], replaced[u], loaded[u])',
           \A u \in Url : published[u] <= published'[u],
           \A u \in Url : cache'[u].hit => cache[u].hit /\ cache'[u].version = cache[u].version
    PROVE  FetchInv'
<1>1. Shape /\ Shape' /\ OneLoader /\ \A r \in Request : HandlerSound(requests[r], published, cache)
  BY DEF FetchInv
<1>2. ASSUME NEW r \in Request PROVE HandlerSound(requests'[r], published', cache')
  <2>1. /\ requests'[r] = requests[r] /\ requests[r] \in Handler
        /\ HandlerSound(requests[r], published, cache)
        /\ published \in [Url -> Nat] /\ published' \in [Url -> Nat]
        /\ cache \in [Url -> CacheEntry] /\ cache' \in [Url -> CacheEntry]
    BY <1>1 DEF Shape
  <2> QED BY <2>1, WorldMoves
<1>3. OneLoader'
  BY <1>1 DEF OneLoader
<1> QED BY <1>2, <1>3 DEF FetchInv

\* A list changes: what was served of it stays in the range of its versions.
LEMMA PublishStep ==
    ASSUME FetchInv, NEW u \in Url, Publish(u)
    PROVE  FetchInv'
<1>1. /\ published[u] < Len(List[u]) /\ published' = [published EXCEPT ![u] = @ + 1]
      /\ UNCHANGED <<replaced, cache, loaded, requests>>
  BY DEF Publish
<1>2. Shape /\ \A x \in Url : ListSound(x, published[x], cache[x], replaced[x], loaded[x])
  BY DEF FetchInv
<1>3. Shape'
  BY <1>1, <1>2 DEF Shape
<1>4. \A x \in Url : published[x] \in Nat /\ published'[x] = IF x = u THEN published[x] + 1 ELSE published[x]
  BY <1>1, <1>2 DEF Shape
<1>5. ASSUME NEW x \in Url
      PROVE  ListSound(x, published'[x], cache'[x], replaced'[x], loaded'[x])
  <2>1. ListSound(x, published[x], cache[x], replaced[x], loaded[x]) /\ Len(List[x]) \in Nat
    BY <1>2, VersionsAreNat
  <2>2. CASE x # u
    BY <1>1, <1>4, <2>1, <2>2
  <2>3. CASE x = u
    <3>1. published'[x] = published[x] + 1 /\ published[x] < Len(List[x])
      BY <1>1, <1>4, <2>3
    <3> QED BY <1>1, <1>4, <2>1, <3>1 DEF ListSound, Versions
  <2> QED BY <2>2, <2>3
<1>6. \A x \in Url : published[x] <= published'[x]
  BY <1>4
<1> QED BY <1>1, <1>3, <1>5, <1>6, WorldStep

\* An evicted entry counts as not loaded, so a new load of it is no second one.
LEMMA EvictStep ==
    ASSUME FetchInv, NEW u \in Url, Evict(u)
    PROVE  FetchInv'
<1>1. /\ cache' = [cache EXCEPT ![u] = Miss] /\ loaded' = [loaded EXCEPT ![u] = Ttl]
      /\ UNCHANGED <<published, replaced, requests>>
  BY DEF Evict
<1>2. Shape /\ \A x \in Url : ListSound(x, published[x], cache[x], replaced[x], loaded[x])
  BY DEF FetchInv
<1>3. Miss \in CacheEntry /\ ~Miss.hit /\ Miss.age = 0 /\ Miss.version = 0 /\ Ttl \in Nat /\ Ttl > 0
  BY FetcherAssumption DEF Miss, CacheEntry
<1>4. Shape'
  BY <1>1, <1>2, <1>3 DEF Shape
<1>5. \A x \in Url : /\ cache'[x] = IF x = u THEN Miss ELSE cache[x]
                     /\ loaded'[x] = IF x = u THEN Ttl ELSE loaded[x]
                     /\ published[x] \in Nat
  BY <1>1, <1>2 DEF Shape
<1>6. ASSUME NEW x \in Url
      PROVE  ListSound(x, published'[x], cache'[x], replaced'[x], loaded'[x])
  <2>1. ListSound(x, published[x], cache[x], replaced[x], loaded[x])
    BY <1>2
  <2> QED BY <1>1, <1>3, <1>5, <2>1 DEF ListSound
<1>7. \A x \in Url : /\ published[x] <= published'[x]
                     /\ cache'[x].hit => cache[x].hit /\ cache'[x].version = cache[x].version
  BY <1>1, <1>3, <1>5
<1> QED BY <1>1, <1>4, <1>6, <1>7, WorldStep

\* An entry that survives a tick is a tick older; a version published until now was
\* replaced that tick at the earliest.
LEMMA TickStep ==
    ASSUME FetchInv, Tick
    PROVE  FetchInv'
<1>1. UNCHANGED <<published, requests>>
  BY DEF Tick
<1>2. Shape /\ \A x \in Url : ListSound(x, published[x], cache[x], replaced[x], loaded[x])
  BY DEF FetchInv
<1>3. /\ Miss \in CacheEntry /\ ~Miss.hit /\ Miss.age = 0 /\ Miss.version = 0
      /\ Ttl \in Nat /\ Ttl > 0
  BY FetcherAssumption DEF Miss, CacheEntry
<1>4. ASSUME NEW e \in CacheEntry
      PROVE  /\ Aged(e) \in CacheEntry
             /\ IF e.hit /\ e.age + 1 < Ttl
                THEN Aged(e).hit /\ Aged(e).age = e.age + 1 /\ Aged(e).version = e.version
                ELSE Aged(e) = Miss
  BY <1>3 DEF Aged, CacheEntry
<1>5. ASSUME NEW x \in Url
      PROVE  /\ published[x] \in Nat /\ cache[x] \in CacheEntry /\ loaded[x] \in Nat
             /\ cache'[x] = Aged(cache[x])
             /\ loaded'[x] \in {Ttl, loaded[x] + 1} /\ loaded'[x] <= Ttl
             /\ loaded'[x] <= loaded[x] + 1
  <2>1. published[x] \in Nat /\ cache[x] \in CacheEntry /\ loaded[x] \in Nat
    BY <1>2 DEF Shape
  <2>2. cache'[x] = Aged(cache[x]) /\ loaded'[x] = Min({Ttl, loaded[x] + 1})
    BY DEF Tick
  <2>3. loaded[x] + 1 \in Nat
    BY <2>1
  <2> QED BY <1>3, <2>1, <2>2, <2>3, MinOfTwo
<1>6. Shape'
  <2>1. cache' = [u \in Url |-> Aged(cache[u])] /\ loaded' = [u \in Url |-> Min({Ttl, loaded[u] + 1})]
    BY DEF Tick
  <2>2. \A u \in Url : cache'[u] \in CacheEntry /\ loaded'[u] \in Nat
    BY <1>3, <1>4, <1>5
  <2>3. cache' \in [Url -> CacheEntry] /\ loaded' \in [Url -> Nat]
    BY <2>1, <2>2
  <2> QED BY <1>1, <1>2, <2>3 DEF Shape
<1>7. ASSUME NEW x \in Url
      PROVE  ListSound(x, published'[x], cache'[x], replaced'[x], loaded'[x])
  <2>1. /\ ListSound(x, published[x], cache[x], replaced[x], loaded[x]) /\ Len(List[x]) \in Nat
        /\ \A v \in Versions(x) : v \in Nat
    BY <1>2, VersionsAreNat DEF Versions
  <2>2. replaced'[x] = [v \in Versions(x) |->
                          IF v < published[x] THEN Min({Ttl, replaced[x][v] + 1}) ELSE 0]
    BY DEF Tick
  <2>3. ASSUME NEW v \in Versions(x)
        PROVE  /\ v \in Nat /\ replaced'[x][v] \in 0 .. Ttl
               /\ replaced'[x][v] <= replaced[x][v] + 1
               /\ v >= published[x] => replaced'[x][v] = 0
    <3>1. v \in Nat /\ replaced[x][v] \in Nat /\ replaced[x][v] + 1 \in Nat
      BY <1>3, <2>1 DEF ListSound
    <3>2. replaced'[x][v] = IF v < published[x] THEN Min({Ttl, replaced[x][v] + 1}) ELSE 0
      BY <2>2
    <3> QED BY <1>3, <1>5, <3>1, <3>2, MinOfTwo
  <2>4. replaced'[x] \in [Versions(x) -> 0 .. Ttl]
    BY <2>2, <2>3
  <2>5. /\ cache[x].age \in Nat /\ cache[x].version \in Nat /\ cache[x].hit \in BOOLEAN
        /\ cache'[x].age \in Nat /\ cache'[x].version \in Nat
    BY <1>4, <1>5 DEF CacheEntry
  <2>6. cache'[x].age < Ttl /\ cache'[x].version \in 0 .. published[x]
    BY <1>3, <1>4, <1>5, <2>1, <2>5 DEF ListSound
  <2>7. ASSUME cache'[x].hit
        PROVE  cache'[x].version >= 1 /\ replaced'[x][cache'[x].version] <= cache'[x].age
    <3>1. /\ cache[x].hit /\ cache'[x].age = cache[x].age + 1
          /\ cache'[x].version = cache[x].version
      BY <1>3, <1>4, <1>5, <2>7
    <3> PICK v : v = cache[x].version
      OBVIOUS
    <3>2. /\ v \in Versions(x) /\ v >= 1 /\ replaced[x][v] <= cache[x].age
          /\ replaced[x][v] \in 0 .. Ttl
      BY <1>5, <2>1, <2>5, <3>1 DEF ListSound, Versions
    <3>3. replaced'[x][v] <= replaced[x][v] + 1 /\ replaced'[x][v] \in 0 .. Ttl
      BY <2>3, <3>2
    <3> QED BY <1>3, <2>5, <3>1, <3>2, <3>3
  <2>8. ASSUME loaded'[x] < Ttl PROVE cache'[x].hit /\ cache'[x].age = loaded'[x]
    <3>1. loaded'[x] = loaded[x] + 1 /\ loaded[x] < Ttl
      BY <1>3, <1>5, <2>8
    <3>2. cache[x].hit /\ cache[x].age = loaded[x]
      BY <2>1, <3>1 DEF ListSound
    <3> QED BY <1>4, <1>5, <2>8, <3>1, <3>2
  <2> QED BY <1>1, <1>5, <2>1, <2>3, <2>4, <2>6, <2>7, <2>8 DEF ListSound
<1>8. \A x \in Url : /\ published[x] <= published'[x]
                     /\ cache'[x].hit => cache[x].hit /\ cache'[x].version = cache[x].version
  BY <1>1, <1>3, <1>4, <1>5
<1> QED BY <1>1, <1>6, <1>7, <1>8, WorldStep

-----------------------------------------------------------------------------
(* The handlers.                                                           *)

\* A step of the handlers that leaves the world alone.
LEMMA HandlersStep ==
    ASSUME FetchInv, UNCHANGED <<published, replaced, cache, loaded>>,
           requests' \in [Request -> Handler],
           \A r \in Request : HandlerSound(requests'[r], published, cache),
           OneLoader'
    PROVE  FetchInv'
<1>1. Shape'
  BY DEF FetchInv, Shape
<1>2. \A u \in Url : ListSound(u, published[u], cache[u], replaced[u], loaded[u])'
  BY DEF FetchInv
<1>3. \A r \in Request : HandlerSound(requests[r], published, cache)'
  OBVIOUS
<1> QED BY <1>1, <1>2, <1>3 DEF FetchInv

\* Only what loads before or starts to load now can load afterwards.
LEMMA NoNewLoader ==
    ASSUME OneLoader,
           \A r \in Request, u \in Url : Loads(requests'[r], u) => Loads(requests[r], u)
    PROVE  OneLoader'
BY DEF OneLoader

\* SetLookup, as far as it concerns the records.
LEMMA LookupSet ==
    ASSUME Shape, NEW r \in Request, NEW u \in Urls(r), NEW l \in Lookup,
           requests' = [requests EXCEPT ![r].lookups[u] = l]
    PROVE  /\ requests' \in [Request -> Handler]
           /\ \A o \in Request : o # r => requests'[o] = requests[o]
           /\ requests'[r].pc = requests[r].pc /\ requests'[r].oldest = requests[r].oldest
           /\ requests'[r].losses = requests[r].losses /\ requests'[r].custom = requests[r].custom
           /\ requests'[r].watched = requests[r].watched
           /\ DOMAIN requests'[r].lookups = Urls(r) /\ requests'[r].lookups[u] = l
           /\ \A x \in Urls(r) : x # u => requests'[r].lookups[x] = requests[r].lookups[x]
<1> PICK f : f = [requests[r].lookups EXCEPT ![u] = l]
  OBVIOUS
<1>1. requests \in [Request -> Handler] /\ requests[r] \in Handler
  BY DEF Shape
<1>2. requests[r].lookups \in Lookups
  BY <1>1 DEF Handler
<1>3. /\ DOMAIN requests[r].lookups \subseteq Url
      /\ requests[r].lookups \in [DOMAIN requests[r].lookups -> Lookup]
  BY <1>2, LookupsAre
<1>4. /\ DOMAIN f = Urls(r) /\ f[u] = l /\ f \in [Urls(r) -> Lookup]
      /\ \A x \in Urls(r) : x # u => f[x] = requests[r].lookups[x]
  BY <1>3 DEF Urls
<1>5. f \in Lookups
  BY <1>3, <1>4, LookupsAre DEF Urls
<1>6. requests' = [requests EXCEPT ![r] = [requests[r] EXCEPT !.lookups = f]]
  BY <1>1
<1>7. LET k == [requests[r] EXCEPT !.lookups = f] IN
      /\ k \in Handler /\ k.pc = requests[r].pc /\ k.lookups = f
      /\ k.oldest = requests[r].oldest /\ k.losses = requests[r].losses
      /\ k.custom = requests[r].custom /\ k.watched = requests[r].watched
  BY <1>1, <1>5 DEF Handler
<1> QED BY <1>1, <1>4, <1>6, <1>7

\* One lookup of a handler that resolves its lists moves on.
LEMMA LookupStep ==
    ASSUME FetchInv, NEW r \in Request, NEW u \in Url, NEW l \in Lookup,
           SetLookup(r, u, l), Resolving(r), u \in Urls(r),
           \/ l.pc = "wait"
           \/ /\ l.pc = "load" /\ ~cache[u].hit
              /\ \A o \in Request : Loads(requests[o], u) => o = r
           \/ l.pc = "got" /\ cache[u].hit /\ l.version = cache[u].version
           \/ l.pc = "failed" /\ ~ValidateUrl(u)
    PROVE  FetchInv'
<1>1. /\ UNCHANGED <<published, replaced, cache, loaded>>
      /\ requests' = [requests EXCEPT ![r].lookups[u] = l]
  BY DEF SetLookup
<1>2. Shape /\ OneLoader /\ requests[r] \in Handler /\ requests[r].pc = "resolve"
      /\ HandlerSound(requests[r], published, cache)
      /\ ListSound(u, published[u], cache[u], replaced[u], loaded[u])
      /\ published \in [Url -> Nat] /\ cache \in [Url -> CacheEntry]
  BY DEF FetchInv, Shape, Resolving
<1>3. /\ requests' \in [Request -> Handler]
      /\ \A o \in Request : o # r => requests'[o] = requests[o]
      /\ requests'[r].pc = requests[r].pc /\ requests'[r].oldest = requests[r].oldest
      /\ requests'[r].losses = requests[r].losses /\ requests'[r].custom = requests[r].custom
      /\ requests'[r].watched = requests[r].watched
      /\ DOMAIN requests'[r].lookups = Urls(r) /\ requests'[r].lookups[u] = l
      /\ \A x \in Urls(r) : x # u => requests'[r].lookups[x] = requests[r].lookups[x]
  <2>1. Shape
    BY <1>2
  <2>2. requests' = [requests EXCEPT ![r].lookups[u] = l]
    BY <1>1
  <2> QED BY <2>1, <2>2, LookupSet, ZenonT(60)
<1>4. HandlerSound(requests'[r], published, cache)
  <2>1. l.pc = "got" => l.version \in requests[r].oldest[u] .. published[u]
    <3>1. /\ LookupSound(requests[r], u, published[u], cache[u])
          /\ published[u] \in Nat /\ cache[u].version \in Nat
      BY <1>2 DEF HandlerSound, Urls, CacheEntry
    <3> QED BY <1>2, <3>1 DEF LookupSound, ListSound
  <2>2. /\ requests'[r] \in Handler /\ requests'[r].pc = "resolve"
        /\ DOMAIN requests'[r].lookups = DOMAIN requests[r].lookups
        /\ requests[r].losses \subseteq DOMAIN requests[r].lookups
    BY <1>2, <1>3 DEF Urls, HandlerSound
  <2>3. ASSUME NEW x \in DOMAIN requests[r].lookups
        PROVE  \/ requests'[r].lookups[x] = requests[r].lookups[x]
               \/ requests'[r].lookups[x].pc = "wait"
               \/ requests'[r].lookups[x].pc = "load" /\ ~cache[x].hit
               \/ /\ requests'[r].lookups[x].pc = "got"
                  /\ requests'[r].lookups[x].version \in requests[r].oldest[x] .. published[x]
               \/ /\ requests'[r].lookups[x].pc = "failed"
                  /\ ~ValidateUrl(x) \/ x \in requests'[r].losses
    BY <1>3, <2>1 DEF Urls
  <2> QED BY <1>2, <1>3, <2>2, <2>3, LookupsMove, ZenonT(60)
<1>5. \A o \in Request : HandlerSound(requests'[o], published, cache)
  BY <1>3, <1>4 DEF FetchInv
<1>6. OneLoader'
  <2> SUFFICES ASSUME NEW p \in Request, NEW o \in Request, NEW x \in Url,
                      Loads(requests'[p], x), Loads(requests'[o], x)
               PROVE  p = o
    BY DEF OneLoader
  <2>1. \A q \in Request : Loads(requests'[q], x) =>
            Loads(requests[q], x) \/ (q = r /\ x = u /\ l.pc = "load")
    BY <1>3 DEF Loads, Urls
  <2> QED BY <1>2, <2>1 DEF OneLoader
<1> QED BY <1>1, <1>3, <1>5, <1>6, HandlersStep

\* A lookup at a program counter is one of the request.
LEMMA RequestedLookups ==
    ASSUME NEW r \in Request, NEW u, NEW pc, Shape, At(r, u, pc)
    PROVE  /\ u \in Url /\ u \in Urls(r) /\ requests[r].lookups[u] \in Lookup
           /\ requests[r].lookups[u].pc = pc
<1>1. requests[r].lookups \in Lookups
  BY DEF Shape, Handler
<1> QED BY <1>1, LookupsAre DEF At, Urls

\* The steps of one lookup that no other request takes part in.
LEMMA SingleLookupSteps ==
    ASSUME FetchInv, NEW r \in Request, NEW u \in Url,
           \/ CacheHit(r, u) \/ JoinLoad(r, u) \/ StartLoad(r, u) \/ RejectUrl(r, u)
           \/ LoadRetried(r, u)
    PROVE  FetchInv'
<1>1. Shape
  BY DEF FetchInv
<1>2. CASE CacheHit(r, u)
  <2>1. Resolving(r) /\ u \in Urls(r) /\ cache[u].hit /\ SetLookup(r, u, Got(cache[u].version))
    BY <1>1, <1>2, RequestedLookups DEF CacheHit
  <2>2. cache[u].version \in Nat
    BY <1>1 DEF Shape, CacheEntry
  <2> QED BY <2>1, <2>2, LookupStep, LookupValues
<1>3. CASE JoinLoad(r, u)
  <2>1. Resolving(r) /\ u \in Urls(r) /\ SetLookup(r, u, [Asking EXCEPT !.pc = "wait"])
    BY <1>1, <1>3, RequestedLookups DEF JoinLoad
  <2> QED BY <2>1, LookupStep, LookupValues
<1>4. CASE StartLoad(r, u)
  <2>1. /\ Resolving(r) /\ u \in Urls(r) /\ SetLookup(r, u, [Asking EXCEPT !.pc = "load"])
        /\ ~cache[u].hit /\ \A o \in Request : ~At(o, u, "load")
    BY <1>1, <1>4, RequestedLookups DEF StartLoad
  <2>2. \A o \in Request : ~Loads(requests[o], u)
    BY <2>1 DEF Loads, At, Urls
  <2> QED BY <2>1, <2>2, LookupStep, LookupValues
<1>5. CASE RejectUrl(r, u)
  <2>1. Resolving(r) /\ u \in Urls(r) /\ SetLookup(r, u, FailedLookup) /\ ~ValidateUrl(u)
    BY <1>1, <1>5, RequestedLookups DEF RejectUrl
  <2> QED BY <2>1, LookupStep, LookupValues
<1>6. CASE LoadRetried(r, u)
  <2> PICK l : l = [requests[r].lookups[u] EXCEPT !.tries = @ + 1]
    OBVIOUS
  <2>1. /\ At(r, u, "load") /\ requests[r].lookups[u].tries < MaxRetries
        /\ SetLookup(r, u, l) /\ MaxRetries \in Nat
    BY <1>6, FetcherAssumption DEF LoadRetried
  <2>2. u \in Urls(r) /\ requests[r].lookups[u] \in Lookup /\ requests[r].lookups[u].pc = "load"
    BY <1>1, <2>1, RequestedLookups
  <2>3. l \in Lookup /\ l.pc = "load"
    BY <2>1, <2>2 DEF Lookup
  <2>4. LookupSound(requests[r], u, published[u], cache[u]) /\ Loads(requests[r], u)
    BY <2>2 DEF FetchInv, HandlerSound, Urls, Loads
  <2>5. Resolving(r) /\ ~cache[u].hit
    BY <2>2, <2>4 DEF LookupSound, Resolving
  <2>6. \A o \in Request : Loads(requests[o], u) => o = r
    BY <2>4 DEF FetchInv, OneLoader
  <2> QED BY <2>1, <2>2, <2>3, <2>5, <2>6, LookupStep
<1> QED BY <1>2, <1>3, <1>4, <1>5, <1>6

-----------------------------------------------------------------------------
(* The end of a load.                                                      *)

\* What the end of a load does to each handler: to the one that ran it and to those waiting.
LEMMA SettleGives ==
    ASSUME Shape, NEW u \in Url, NEW outcome \in Lookup, requests' = Settle(u, outcome)
    PROVE  /\ requests' \in [Request -> Handler]
           /\ \A r \in Request :
                 /\ requests'[r].pc = requests[r].pc /\ requests'[r].custom = requests[r].custom
                 /\ requests'[r].watched = requests[r].watched
                 /\ requests'[r].oldest = requests[r].oldest
                 /\ requests'[r].losses =
                      IF outcome.pc = "failed" /\ Resolving(r)
                      THEN requests[r].losses \cup ({u} \cap Urls(r)) ELSE requests[r].losses
                 /\ DOMAIN requests'[r].lookups = Urls(r)
                 /\ \A x \in Urls(r) :
                       requests'[r].lookups[x] =
                         IF x = u /\ requests[r].lookups[u].pc \in {"load", "wait"}
                         THEN outcome ELSE requests[r].lookups[x]
<1>1. ASSUME NEW r \in Request
      PROVE  /\ requests'[r] \in Handler
             /\ requests'[r].pc = requests[r].pc /\ requests'[r].custom = requests[r].custom
             /\ requests'[r].watched = requests[r].watched
             /\ requests'[r].oldest = requests[r].oldest
             /\ requests'[r].losses =
                  IF outcome.pc = "failed" /\ Resolving(r)
                  THEN requests[r].losses \cup ({u} \cap Urls(r)) ELSE requests[r].losses
             /\ DOMAIN requests'[r].lookups = Urls(r)
             /\ \A x \in Urls(r) :
                   requests'[r].lookups[x] =
                     IF x = u /\ requests[r].lookups[u].pc \in {"load", "wait"}
                     THEN outcome ELSE requests[r].lookups[x]
  <2> PICK h : h = requests[r]
    OBVIOUS
  <2> PICK f : f = [x \in Urls(r) |->
                      IF x = u /\ (At(r, u, "load") \/ At(r, u, "wait"))
                      THEN outcome ELSE h.lookups[x]]
    OBVIOUS
  <2> PICK lost : lost = IF outcome.pc = "failed" /\ Resolving(r)
                         THEN h.losses \cup ({u} \cap Urls(r)) ELSE h.losses
    OBVIOUS
  <2>1. h \in Handler /\ h.lookups \in Lookups /\ h.losses \subseteq Url
    BY DEF Shape, Handler
  <2>2. Urls(r) = DOMAIN h.lookups /\ Urls(r) \subseteq Url /\ h.lookups \in [Urls(r) -> Lookup]
    BY <2>1, LookupsAre DEF Urls
  <2>3. f \in Lookups /\ lost \in SUBSET Url
    BY <2>1, <2>2, LookupsAre
  <2>4. requests'[r] = [h EXCEPT !.lookups = f, !.losses = lost]
    BY DEF Settle
  <2>5. \A x \in Urls(r) : f[x] = IF x = u /\ h.lookups[u].pc \in {"load", "wait"}
                                  THEN outcome ELSE h.lookups[x]
    BY <2>2 DEF At
  <2>6. DOMAIN f = Urls(r)
    BY SMTT(60)
  <2>7. LET k == [h EXCEPT !.lookups = f, !.losses = lost] IN
           /\ k \in Handler /\ k.pc = h.pc /\ k.custom = h.custom /\ k.lookups = f
           /\ k.watched = h.watched /\ k.oldest = h.oldest /\ k.losses = lost
    BY <2>1, <2>3 DEF Handler
  <2> QED BY <2>4, <2>5, <2>6, <2>7
<1>2. requests' \in [Request -> Handler]
  <2>1. requests' = [r \in Request |-> requests'[r]]
    BY DEF Settle
  <2> QED BY <1>1, <2>1
<1> QED BY <1>1, <1>2

\* Every handler is sound with its settled lookup, and nobody loads the list any more.
LEMMA SettleSound ==
    ASSUME FetchInv, NEW u \in Url, NEW outcome \in Lookup, requests' = Settle(u, outcome),
           outcome.pc = "failed" \/ (outcome.pc = "got" /\ outcome.version = published[u])
    PROVE  /\ requests' \in [Request -> Handler]
           /\ \A r \in Request : HandlerSound(requests'[r], published, cache)
           /\ \A r \in Request : ~Loads(requests'[r], u)
           /\ OneLoader'
<1>1. /\ Shape /\ OneLoader /\ \A r \in Request : requests[r] \in Handler
      /\ \A r \in Request : HandlerSound(requests[r], published, cache)
      /\ published \in [Url -> Nat] /\ cache \in [Url -> CacheEntry]
  BY DEF FetchInv, Shape
<1>2. /\ requests' \in [Request -> Handler]
      /\ \A r \in Request :
            /\ requests'[r].pc = requests[r].pc /\ requests'[r].custom = requests[r].custom
            /\ requests'[r].watched = requests[r].watched
            /\ requests'[r].oldest = requests[r].oldest
            /\ requests'[r].losses =
                 IF outcome.pc = "failed" /\ Resolving(r)
                 THEN requests[r].losses \cup ({u} \cap Urls(r)) ELSE requests[r].losses
            /\ DOMAIN requests'[r].lookups = Urls(r)
            /\ \A x \in Urls(r) :
                  requests'[r].lookups[x] =
                    IF x = u /\ requests[r].lookups[u].pc \in {"load", "wait"}
                    THEN outcome ELSE requests[r].lookups[x]
  BY <1>1, SettleGives, Zenon
<1>3. ASSUME NEW r \in Request PROVE HandlerSound(requests'[r], published, cache)
  <2> PICK h : h = requests[r]
    OBVIOUS
  <2> PICK k : k = requests'[r]
    OBVIOUS
  <2>1. h \in Handler /\ k \in Handler /\ HandlerSound(h, published, cache)
    BY <1>1, <1>2
  <2>2. /\ k.pc = h.pc /\ k.custom = h.custom /\ k.watched = h.watched /\ k.oldest = h.oldest
        /\ DOMAIN k.lookups = DOMAIN h.lookups
    BY <1>2 DEF Urls
  <2>3. h.losses \subseteq k.losses /\ k.losses \subseteq DOMAIN h.lookups
    BY <1>2, <2>1, ZenonT(60) DEF Urls, HandlerSound
  <2>4. ASSUME NEW x \in DOMAIN h.lookups
        PROVE  \/ k.lookups[x] = h.lookups[x]
               \/ /\ h.pc = "resolve" /\ k.lookups[x].pc = "got"
                  /\ k.lookups[x].version \in h.oldest[x] .. published[x]
               \/ /\ h.pc = "resolve" /\ k.lookups[x].pc = "failed"
                  /\ ~ValidateUrl(x) \/ x \in k.losses
    <3> SUFFICES ASSUME x = u, h.lookups[u].pc \in {"load", "wait"}, k.lookups[x] = outcome
                 PROVE  \/ /\ h.pc = "resolve" /\ k.lookups[x].pc = "got"
                           /\ k.lookups[x].version \in h.oldest[x] .. published[x]
                        \/ /\ h.pc = "resolve" /\ k.lookups[x].pc = "failed"
                           /\ ~ValidateUrl(x) \/ x \in k.losses
      BY <1>2 DEF Urls
    <3>1. LookupSound(h, u, published[u], cache[u])
      BY <2>1 DEF HandlerSound
    <3>2. h.pc = "resolve"
      BY <3>1 DEF LookupSound
    <3>3. CASE outcome.pc = "failed"
      <4>1. u \in k.losses
        BY <1>2, <3>2, <3>3 DEF Resolving, Urls
      <4> QED BY <3>2, <3>3, <4>1
    <3>4. CASE outcome.pc = "got" /\ outcome.version = published[u]
      <4>1. published[u] \in Nat /\ h.oldest[u] \in 1 .. published[u]
        BY <1>1, <3>1 DEF LookupSound
      <4> QED BY <3>2, <3>4, <4>1
    <3> QED BY <3>3, <3>4
  <2> QED BY <1>1, <2>1, <2>2, <2>3, <2>4, LookupsMove, SMTT(60)
<1>4. ASSUME NEW r \in Request, NEW x \in Url, Loads(requests'[r], x)
      PROVE  Loads(requests[r], x) /\ x # u
  <2>1. x \in Urls(r) /\ requests'[r].lookups[x].pc = "load"
    BY <1>2, <1>4 DEF Loads
  <2>2. requests'[r].lookups[x] = IF x = u /\ requests[r].lookups[u].pc \in {"load", "wait"}
                                  THEN outcome ELSE requests[r].lookups[x]
    BY <1>2, <2>1
  <2>3. outcome.pc # "load"
    OBVIOUS
  <2> QED BY <2>1, <2>2, <2>3 DEF Loads, Urls
<1>5. OneLoader'
  BY <1>1, <1>4, NoNewLoader
<1> QED BY <1>2, <1>3, <1>4, <1>5

\* A load that fails is a loss of everyone who ran or joined it.
LEMMA LoadFailsStep ==
    ASSUME FetchInv, NEW r \in Request, NEW u \in Url, LoadFails(r, u)
    PROVE  FetchInv'
<1>1. /\ requests' = Settle(u, FailedLookup) /\ UNCHANGED <<published, replaced, cache, loaded>>
      /\ FailedLookup \in Lookup /\ FailedLookup.pc = "failed"
  BY LookupValues DEF LoadFails
<1>2. /\ requests' \in [Request -> Handler]
      /\ \A o \in Request : HandlerSound(requests'[o], published, cache)
      /\ OneLoader'
  BY <1>1, SettleSound, Zenon
<1> QED BY <1>1, <1>2, HandlersStep

\* A load that succeeds gives its version to the same handlers and to the cache.
LEMMA LoadDoneStep ==
    ASSUME FetchInv, NEW r \in Request, NEW u \in Url, LoadDone(r, u)
    PROVE  FetchInv'
<1>1. /\ requests' = Settle(u, Got(published[u])) /\ cache' = [cache EXCEPT ![u] = Cached(published[u])]
      /\ loaded' = [loaded EXCEPT ![u] = 0] /\ UNCHANGED <<published, replaced>>
  BY DEF LoadDone
<1>2. /\ Shape /\ \A x \in Url : ListSound(x, published[x], cache[x], replaced[x], loaded[x])
      /\ \A x \in Url : published[x] \in Nat
  BY DEF FetchInv, Shape
<1>3. /\ Got(published[u]) \in Lookup /\ Got(published[u]).pc = "got"
      /\ Got(published[u]).version = published[u]
  BY <1>2, LookupValues
<1>4. /\ requests' \in [Request -> Handler]
      /\ \A o \in Request : HandlerSound(requests'[o], published, cache)
      /\ \A o \in Request : ~Loads(requests'[o], u)
      /\ OneLoader'
  BY <1>1, <1>3, SettleSound, Zenon
<1> PICK e : e = Cached(published[u])
  OBVIOUS
<1>5. e \in CacheEntry /\ e.hit /\ e.age = 0 /\ e.version = published[u]
  BY <1>2 DEF Cached, CacheEntry
<1>6. Shape'
  BY <1>1, <1>2, <1>4, <1>5 DEF Shape
<1>7. \A x \in Url : /\ cache'[x] = IF x = u THEN e ELSE cache[x]
                     /\ loaded'[x] = IF x = u THEN 0 ELSE loaded[x]
  BY <1>1, <1>2 DEF Shape
<1>8. ASSUME NEW x \in Url
      PROVE  ListSound(x, published'[x], cache'[x], replaced'[x], loaded'[x])
  <2>1. ListSound(x, published[x], cache[x], replaced[x], loaded[x])
    BY <1>2
  <2>2. CASE x # u
    BY <1>1, <1>7, <2>1, <2>2
  <2>3. CASE x = u
    <3>1. cache'[x] = e /\ loaded'[x] = 0 /\ Ttl \in Nat /\ Ttl > 0 /\ Len(List[x]) \in Nat
      BY <1>7, <2>3, FetcherAssumption, VersionsAreNat
    <3> QED BY <1>1, <1>2, <1>5, <2>1, <2>3, <3>1 DEF ListSound, Versions
  <2> QED BY <2>2, <2>3
<1>9. ASSUME NEW o \in Request PROVE HandlerSound(requests'[o], published', cache')
  <2>1. /\ requests'[o] \in Handler /\ HandlerSound(requests'[o], published, cache)
        /\ published' = published /\ published \in [Url -> Nat]
        /\ cache \in [Url -> CacheEntry] /\ cache' \in [Url -> CacheEntry]
        /\ \A x \in Url : published[x] <= published[x]
    BY <1>1, <1>2, <1>4, <1>6 DEF Shape
  <2>2. \A x \in Url : cache'[x].hit =>
            \/ cache[x].hit /\ cache'[x].version = cache[x].version
            \/ cache'[x].version = published[x] /\ ~Loads(requests'[o], x)
    BY <1>4, <1>5, <1>7
  <2> QED BY <2>1, <2>2, WorldMoves
<1> QED BY <1>4, <1>6, <1>8, <1>9 DEF FetchInv

-----------------------------------------------------------------------------
(* The ends of a request, and its beginning.                               *)

\* One handler ends, its loads with it; those who waited ask again.
LEMMA AbandonStep ==
    ASSUME FetchInv, NEW r \in Request, requests' = Abandon(r, Idle),
           UNCHANGED <<published, replaced, cache, loaded>>
    PROVE  FetchInv'
<1>1. /\ OneLoader /\ requests \in [Request -> Handler]
      /\ \A o \in Request : HandlerSound(requests[o], published, cache)
      /\ published \in [Url -> Nat] /\ cache \in [Url -> CacheEntry]
  BY DEF FetchInv, Shape
<1>2. requests'[r] = Idle
  BY DEF Abandon
<1>3. ASSUME NEW o \in Request, o # r
      PROVE  /\ requests'[o] \in Handler
             /\ HandlerSound(requests'[o], published, cache)
             /\ \A u \in Url : Loads(requests'[o], u) => Loads(requests[o], u)
  <2> PICK h : h = requests[o]
    OBVIOUS
  <2> PICK f : f = [u \in Urls(o) |->
                      IF At(o, u, "wait") /\ At(r, u, "load") THEN Asking ELSE h.lookups[u]]
    OBVIOUS
  <2>1. h \in Handler /\ h.lookups \in Lookups /\ h.losses \in SUBSET Url
    BY <1>1 DEF Handler
  <2>2. Urls(o) = DOMAIN h.lookups /\ Urls(o) \subseteq Url /\ h.lookups \in [Urls(o) -> Lookup]
    BY <2>1, LookupsAre DEF Urls
  <2>3. f \in Lookups /\ DOMAIN f = DOMAIN h.lookups
    BY <2>2, LookupsAre, LookupValues
  <2> PICK k : k = [h EXCEPT !.lookups = f]
    OBVIOUS
  <2>4. requests'[o] = k
    BY <1>3 DEF Abandon
  <2>5. /\ k \in Handler /\ k.pc = h.pc /\ k.custom = h.custom /\ k.lookups = f
        /\ k.watched = h.watched /\ k.oldest = h.oldest /\ k.losses = h.losses
    BY <2>1, <2>3 DEF Handler
  <2>6. /\ HandlerSound(h, published, cache) /\ h.losses \subseteq DOMAIN h.lookups
    BY <1>1 DEF HandlerSound
  <2>7. \A u \in DOMAIN h.lookups : k.lookups[u] = h.lookups[u] \/ k.lookups[u].pc = "ask"
    BY <2>2, <2>5, LookupValues
  <2>8. HandlerSound(k, published, cache)
    BY <1>1, <2>1, <2>3, <2>5, <2>6, <2>7, LookupsMove, ZenonT(60)
  <2>9. \A u \in Url : Loads(k, u) => Loads(h, u)
    BY <2>3, <2>5, <2>7 DEF Loads
  <2> QED BY <2>4, <2>5, <2>8, <2>9
<1>4. requests' \in [Request -> Handler]
  <2>1. requests' = [o \in Request |-> requests'[o]]
    BY DEF Abandon
  <2>2. \A o \in Request : requests'[o] \in Handler
    BY <1>2, <1>3, IdleHandler
  <2> QED BY <2>1, <2>2
<1>5. \A o \in Request : HandlerSound(requests'[o], published, cache)
  BY <1>2, <1>3, IdleSound
<1>6. OneLoader'
  <2>1. \A o \in Request, u \in Url : Loads(requests'[o], u) => Loads(requests[o], u)
    BY <1>2, <1>3, IdleSound
  <2> QED BY <1>1, <2>1, NoNewLoader
<1> QED BY <1>4, <1>5, <1>6, HandlersStep

\* Some version was still published less than Ttl ago: the published one at least.  A
\* cached version is no older than the oldest of them.
LEMMA OldestFreshIs ==
    ASSUME FetchInv, NEW u \in Url
    PROVE  /\ OldestFresh(u) \in 1 .. published[u]
           /\ cache[u].hit => OldestFresh(u) <= cache[u].version
<1>1. /\ published[u] \in Nat /\ cache[u].version \in Nat /\ cache[u].age \in Nat
      /\ ListSound(u, published[u], cache[u], replaced[u], loaded[u])
      /\ Len(List[u]) \in Nat /\ Ttl \in Nat /\ Ttl > 0
  BY FetcherAssumption, VersionsAreNat DEF FetchInv, Shape, CacheEntry
<1> PICK S : S = {v \in 1 .. published[u] : replaced[u][v] < Ttl}
  OBVIOUS
<1>2. published[u] \in S /\ S \subseteq Nat
  BY <1>1 DEF ListSound, Versions
<1>3. cache[u].hit => cache[u].version \in S
  BY <1>1, SMTT(60) DEF ListSound, Versions
<1>4. Min(S) \in S /\ \A v \in S : Min(S) <= v
  BY <1>2, MinIsLeast
<1> QED BY <1>1, <1>2, <1>3, <1>4 DEF OldestFresh

\* A request starts with a floor under each version it may be served.
LEMMA ArriveStep ==
    ASSUME FetchInv, NEW r \in Request, NEW body \in Bodies, RequestArrives(r, body)
    PROVE  FetchInv'
<1> PICK f : f = [u \in body.urls |-> Asking]
  OBVIOUS
<1> PICK g : g = [u \in body.urls |-> OldestFresh(u)]
  OBVIOUS
<1> PICK k : k = [Idle EXCEPT !.pc = "resolve", !.custom = body.custom, !.lookups = f, !.oldest = g]
  OBVIOUS
<1>1. requests' = [requests EXCEPT ![r] = k] /\ UNCHANGED <<published, replaced, cache, loaded>>
  BY DEF RequestArrives
<1>2. /\ OneLoader /\ requests \in [Request -> Handler]
      /\ \A o \in Request : HandlerSound(requests[o], published, cache)
      /\ published \in [Url -> Nat] /\ cache \in [Url -> CacheEntry]
  BY DEF FetchInv, Shape
<1>3. body.urls \subseteq Url /\ body.custom \subseteq Address
  BY FetcherAssumption
<1>4. \A u \in body.urls : /\ OldestFresh(u) \in 1 .. published[u] /\ published[u] \in Nat
                           /\ cache[u].hit => OldestFresh(u) <= cache[u].version
  BY <1>2, <1>3, OldestFreshIs
<1>5. f \in Lookups /\ g \in Floors
  <2>1. \A u \in body.urls : OldestFresh(u) \in Nat
    BY <1>4
  <2> QED BY <1>3, <2>1, LookupsAre, FloorsAre, LookupValues
<1>6. /\ k \in Handler /\ k.pc = "resolve" /\ k.lookups = f /\ k.oldest = g /\ k.losses = {}
  BY <1>3, <1>5, IdleHandler DEF Handler
<1>7. HandlerSound(k, published, cache)
  <2>1. ASSUME NEW u \in body.urls PROVE LookupSound(k, u, published[u], cache[u])
    <3>1. k.lookups[u] = Asking /\ k.oldest[u] = OldestFresh(u) /\ Asking.pc = "ask"
      BY <1>6, LookupValues
    <3> QED BY <1>4, <3>1 DEF LookupSound
  <2>2. DOMAIN k.lookups = body.urls
    BY <1>6
  <2> QED BY <1>6, <2>1, <2>2 DEF HandlerSound, Complete
<1>8. \A u \in Url : ~Loads(k, u)
  BY <1>6, LookupValues DEF Loads
<1>9. /\ requests' \in [Request -> Handler] /\ requests'[r] = k
      /\ \A o \in Request : o # r => requests'[o] = requests[o]
  BY <1>1, <1>2, <1>6
<1>10. \A o \in Request : HandlerSound(requests'[o], published, cache)
  BY <1>2, <1>7, <1>9
<1>11. OneLoader'
  <2>1. \A o \in Request, u \in Url : Loads(requests'[o], u) => Loads(requests[o], u)
    <3> SUFFICES ASSUME NEW o \in Request, NEW u \in Url, Loads(requests'[o], u)
                 PROVE  Loads(requests[o], u)
      OBVIOUS
    <3>1. o # r
      BY <1>8, <1>9
    <3> QED BY <1>9, <3>1
  <2> QED BY <1>2, <2>1, NoNewLoader
<1> QED BY <1>1, <1>9, <1>10, <1>11, HandlersStep

\* A set of addresses that is not above the limit is within it.
LEMMA WithinLimit ==
    ASSUME NEW S, S \subseteq Address, ~(Cardinality(S) > TokenLimit)
    PROVE  Cardinality(S) <= TokenLimit
<1>1. IsFiniteSet(S) /\ TokenLimit \in Nat
  BY FetcherAssumption, FS_Subset
<1>2. Cardinality(S) \in Nat
  BY <1>1, FS_CardinalityType
<1> QED BY <1>1, <1>2

\* A set without two different elements.
LEMMA AtMostOne ==
    ASSUME NEW S, \A x \in S, y \in S : x = y
    PROVE  Cardinality(S) <= 1
<1>1. CASE S = {}
  BY <1>1, FS_EmptySet
<1>2. CASE S # {}
  <2>1. PICK x : S = {x}
    BY <1>2
  <2>2. Cardinality(S) = 1
    BY <2>1, FS_Singleton, Zenon
  <2> QED BY <2>2
<1> QED BY <1>1, <1>2

\* The tokens Resolve comes to, and the handler it makes of h with them.
TokensOf(h) ==
    Extended({FilterByChain(List[u][h.lookups[u].version]) : u \in DOMAIN h.lookups}, h.custom)

Accepted(h, k) ==
    /\ k.pc = "accepted" /\ k.custom = h.custom /\ k.oldest = h.oldest /\ k.losses = {}
    /\ k.lookups = [u \in DOMAIN h.lookups |-> Asking] /\ k.watched = TokensOf(h)

\* The tokens of a request whose lists are all there.
LEMMA ExtendedIs ==
    ASSUME NEW h \in Handler, NEW tokens, tokens = TokensOf(h),
           \A u \in DOMAIN h.lookups : u \in Url /\ h.lookups[u].version \in Versions(u)
    PROVE  tokens = {a \in Address \ {Native} :
                       \/ a = Weth9 \/ a \in h.custom
                       \/ \E u \in DOMAIN h.lookups : \E e \in List[u][h.lookups[u].version] :
                             e.address = a /\ e.onChain /\ e.parses}
<1>1. h.custom \subseteq Address /\ Weth9 \in Address /\ Weth9 # Native
  BY FetcherAssumption DEF Handler
<1>2. ASSUME NEW u \in DOMAIN h.lookups PROVE List[u][h.lookups[u].version] \subseteq Entry
  <2>1. u \in Url /\ h.lookups[u].version \in 1 .. Len(List[u]) /\ List[u] \in Seq(SUBSET Entry)
    BY FetcherAssumption DEF Versions
  <2> QED BY <2>1
<1>3. \A e \in Entry : e.address \in Address
  BY DEF Entry
<1>4. \A a : a \in tokens <=>
         /\ a # Native
         /\ \/ a = Weth9 \/ a \in h.custom
            \/ \E u \in DOMAIN h.lookups : \E e \in List[u][h.lookups[u].version] :
                  e.address = a /\ e.onChain /\ e.parses
  <2>1. \A entries, a : a \in FilterByChain(entries) <=>
            \E e \in entries : e.address = a /\ e.onChain /\ e.parses
    BY Zenon DEF FilterByChain
  <2>2. \A a : a \in tokens <=>
            /\ a # Native
            /\ \/ a = Weth9 \/ a \in h.custom
               \/ \E u \in DOMAIN h.lookups : a \in FilterByChain(List[u][h.lookups[u].version])
    BY DEF TokensOf, Extended
  <2>3. ASSUME NEW a
        PROVE  (\E u \in DOMAIN h.lookups : a \in FilterByChain(List[u][h.lookups[u].version])) <=>
               (\E u \in DOMAIN h.lookups : \E e \in List[u][h.lookups[u].version] :
                   e.address = a /\ e.onChain /\ e.parses)
    <3>1. \A u : a \in FilterByChain(List[u][h.lookups[u].version]) <=>
             \E e \in List[u][h.lookups[u].version] : e.address = a /\ e.onChain /\ e.parses
      BY <2>1, Zenon
    <3> QED BY <3>1, Zenon
  <2> QED BY <2>2, <2>3, Zenon
<1>5. \A a \in tokens : a \in Address
  BY <1>1, <1>2, <1>3, <1>4
<1> QED BY <1>4, <1>5

\* The record of such a handler.
LEMMA AcceptedIs ==
    ASSUME NEW h \in Handler, TokensOf(h) \subseteq Address
    PROVE  \E k \in Handler :
              /\ k = [h EXCEPT !.pc = "accepted", !.watched = TokensOf(h), !.losses = {},
                               !.lookups = [u \in DOMAIN h.lookups |-> Asking]]
              /\ Accepted(h, k)
<1> DEFINE f == [u \in DOMAIN h.lookups |-> Asking]
           k == [h EXCEPT !.pc = "accepted", !.watched = TokensOf(h), !.losses = {}, !.lookups = f]
<1>1. f \in Lookups
  <2>1. h.lookups \in Lookups
    BY DEF Handler
  <2>2. DOMAIN f \subseteq Url /\ f \in [DOMAIN f -> Lookup]
    BY <2>1, LookupsAre, LookupValues
  <2> QED BY <2>2, LookupsAre, Zenon
<1> HIDE DEF f
<1>2. /\ k \in Handler /\ k.pc = "accepted" /\ k.custom = h.custom /\ k.lookups = f
      /\ k.watched = TokensOf(h) /\ k.oldest = h.oldest /\ k.losses = {}
  BY <1>1 DEF Handler
<1>3. /\ k = [h EXCEPT !.pc = "accepted", !.watched = TokensOf(h), !.losses = {},
                        !.lookups = [u \in DOMAIN h.lookups |-> Asking]]
      /\ f = [u \in DOMAIN h.lookups |-> Asking]
  BY Zenon DEF f
<1> HIDE DEF k
<1>4. Accepted(h, k)
  BY <1>2, <1>3, Zenon DEF Accepted
<1> QED BY <1>2, <1>3, <1>4, Zenon

\* What Resolve does to the handler: nothing is left of it when the tokens are too many.
LEMMA ResolveGives ==
    ASSUME Shape, NEW r \in Request, Resolve(r), NEW h \in Handler, h = requests[r],
           TokensOf(h) \subseteq Address
    PROVE  \E k \in Handler :
              /\ requests' = [requests EXCEPT ![r] = k]
              /\ k = Idle \/ (~(Cardinality(TokensOf(h)) > TokenLimit) /\ Accepted(h, k))
<1>1. PICK k \in Handler :
        /\ k = [h EXCEPT !.pc = "accepted", !.watched = TokensOf(h), !.losses = {},
                         !.lookups = [u \in DOMAIN h.lookups |-> Asking]]
        /\ Accepted(h, k)
  BY AcceptedIs
<1>2. requests' = [requests EXCEPT ![r] = IF Cardinality(TokensOf(h)) > TokenLimit THEN Idle ELSE k]
  BY <1>1, Zenon DEF Resolve, Urls, TokensOf
<1>3. CASE Cardinality(TokensOf(h)) > TokenLimit
  <2>1. requests' = [requests EXCEPT ![r] = Idle] /\ Idle \in Handler
    BY <1>2, <1>3, IdleHandler, Zenon
  <2> QED BY <2>1, Zenon
<1>4. CASE ~(Cardinality(TokensOf(h)) > TokenLimit)
  <2>1. requests' = [requests EXCEPT ![r] = k] /\ Accepted(h, k)
    BY <1>1, <1>2, <1>4, Zenon
  <2> QED BY <1>4, <2>1, Zenon
<1> QED BY <1>3, <1>4, Zenon

\* The accepted handler watches what the versions it got name.
LEMMA AcceptedSound ==
    ASSUME NEW h \in Handler, NEW k \in Handler, NEW tokens, tokens = TokensOf(h),
           tokens \subseteq Address, NEW pub \in [Url -> Nat], NEW c \in [Url -> CacheEntry],
           \A u \in DOMAIN h.lookups :
               /\ u \in Url /\ LookupSound(h, u, pub[u], c[u])
               /\ h.lookups[u].version \in h.oldest[u] .. pub[u]
               /\ h.lookups[u].version \in Versions(u),
           tokens = {a \in Address \ {Native} :
                       \/ a = Weth9 \/ a \in h.custom
                       \/ \E u \in DOMAIN h.lookups : \E e \in List[u][h.lookups[u].version] :
                             e.address = a /\ e.onChain /\ e.parses},
           ~(Cardinality(tokens) > TokenLimit), Accepted(h, k)
    PROVE  HandlerSound(k, pub, c)
<1>1. /\ DOMAIN k.lookups = DOMAIN h.lookups /\ Asking.pc = "ask"
      /\ \A u \in DOMAIN h.lookups : k.lookups[u] = Asking
      /\ k.pc = "accepted" /\ k.custom = h.custom /\ k.oldest = h.oldest /\ k.losses = {}
      /\ k.watched = tokens
  BY LookupValues DEF Accepted
<1>2. \A u \in DOMAIN k.lookups : LookupSound(k, u, pub[u], c[u])
  BY <1>1 DEF LookupSound
<1>3. Cardinality(k.watched) <= TokenLimit
  BY <1>1, WithinLimit, Zenon
<1>4. PICK pick : pick = [u \in DOMAIN h.lookups |-> h.lookups[u].version]
  OBVIOUS
<1>5. \A u \in DOMAIN h.lookups : pick[u] = h.lookups[u].version
  BY <1>4
<1>6. /\ pick \in [DOMAIN k.lookups -> UNION {Versions(u) : u \in Url}]
      /\ \A u \in DOMAIN k.lookups : pick[u] \in k.oldest[u] .. pub[u]
  BY <1>1, <1>4
<1>7. tokens = {x \in Address \ {Native} :
                  \/ x = Weth9 \/ x \in h.custom
                  \/ \E u \in DOMAIN h.lookups : \E e \in List[u][pick[u]] :
                        e.address = x /\ e.onChain /\ e.parses}
  <2>1. \A a : (\E u \in DOMAIN h.lookups : \E e \in List[u][pick[u]] :
                   e.address = a /\ e.onChain /\ e.parses) <=>
               (\E u \in DOMAIN h.lookups : \E e \in List[u][h.lookups[u].version] :
                   e.address = a /\ e.onChain /\ e.parses)
    BY <1>5, Zenon
  <2> DEFINE Named(a) == \E u \in DOMAIN h.lookups : \E e \in List[u][h.lookups[u].version] :
                            e.address = a /\ e.onChain /\ e.parses
             Picked(a) == \E u \in DOMAIN h.lookups : \E e \in List[u][pick[u]] :
                             e.address = a /\ e.onChain /\ e.parses
  <2>2. tokens = {x \in Address \ {Native} : x = Weth9 \/ x \in h.custom \/ Named(x)}
    BY Zenon
  <2>3. \A a : Picked(a) <=> Named(a)
    BY <2>1, Zenon
  <2> HIDE DEF Named, Picked
  <2>4. tokens = {x \in Address \ {Native} : x = Weth9 \/ x \in h.custom \/ Picked(x)}
    BY <2>2, <2>3
  <2> QED BY <2>4, Zenon DEF Picked
<1>8. Watches(k, pick)
  BY <1>1, <1>7, Zenon DEF Watches
<1>9. Complete(k, pub)
  BY <1>3, <1>6, <1>8 DEF Complete
<1>10. k.losses \subseteq DOMAIN k.lookups
  BY <1>1
<1> QED BY <1>2, <1>9, <1>10, Zenon DEF HandlerSound

\* Resolve unites the lists, drops the native token and refuses what is over the limit.
LEMMA ResolveStep ==
    ASSUME FetchInv, NEW r \in Request, Resolve(r)
    PROVE  FetchInv'
<1>1. /\ OneLoader /\ Shape /\ requests \in [Request -> Handler]
      /\ \A o \in Request : HandlerSound(requests[o], published, cache)
      /\ published \in [Url -> Nat] /\ cache \in [Url -> CacheEntry]
      /\ \A u \in Url : published[u] \in Versions(u)
  BY DEF FetchInv, Shape, ListSound
<1>2. PICK h \in Handler : h = requests[r]
  BY <1>1
<1>3. PICK tokens : tokens = TokensOf(h)
  OBVIOUS
<1>4. h.pc = "resolve" /\ \A u \in DOMAIN h.lookups : h.lookups[u].pc = "got"
  BY <1>2 DEF Resolve, Resolving, At, Urls
<1>5. ASSUME NEW u \in DOMAIN h.lookups
      PROVE  /\ u \in Url /\ LookupSound(h, u, published[u], cache[u])
             /\ h.lookups[u].version \in h.oldest[u] .. published[u]
             /\ h.lookups[u].version \in Versions(u)
  <2>1. DOMAIN h.lookups \subseteq Url
    BY <1>2, LookupsAre DEF Handler
  <2>2. /\ u \in Url /\ LookupSound(h, u, published[u], cache[u])
        /\ published[u] \in 1 .. Len(List[u]) /\ Len(List[u]) \in Nat
    BY <1>1, <1>2, <2>1, VersionsAreNat DEF HandlerSound, Versions
  <2>3. h.lookups[u].version \in h.oldest[u] .. published[u] /\ h.oldest[u] \in 1 .. published[u]
    BY <1>4, <2>2 DEF LookupSound
  <2> QED BY <2>2, <2>3 DEF Versions
<1>6. tokens = {a \in Address \ {Native} :
                  \/ a = Weth9 \/ a \in h.custom
                  \/ \E u \in DOMAIN h.lookups : \E e \in List[u][h.lookups[u].version] :
                        e.address = a /\ e.onChain /\ e.parses}
  BY <1>2, <1>3, <1>5, ExtendedIs
<1>7. tokens \subseteq Address
  BY <1>6
<1>8. PICK k \in Handler :
        /\ requests' = [requests EXCEPT ![r] = k]
        /\ k = Idle \/ (~(Cardinality(TokensOf(h)) > TokenLimit) /\ Accepted(h, k))
  <2>1. Shape /\ TokensOf(h) \subseteq Address
    BY <1>1, <1>3, <1>7
  <2> QED BY <1>2, <2>1, ResolveGives, Zenon
<1>9. UNCHANGED <<published, replaced, cache, loaded>>
  BY DEF Resolve
<1>10. HandlerSound(k, published, cache) /\ \A u \in Url : ~Loads(k, u)
  <2>1. CASE k = Idle
    BY <2>1, IdleSound, Zenon
  <2>2. CASE k # Idle
    <3>1. HandlerSound(k, published, cache)
      BY <1>1, <1>3, <1>5, <1>6, <1>7, <1>8, <2>2, AcceptedSound, Zenon
    <3>2. \A u \in Url : ~Loads(k, u)
      BY <1>8, <2>2, LookupValues DEF Loads, Accepted
    <3> QED BY <3>1, <3>2
  <2> QED BY <2>1, <2>2
<1>11. /\ requests' \in [Request -> Handler] /\ requests'[r] = k
       /\ \A o \in Request : o # r => requests'[o] = requests[o]
  BY <1>1, <1>8
<1>12. \A o \in Request : HandlerSound(requests'[o], published, cache)
  BY <1>1, <1>10, <1>11, Zenon
<1>13. \A o \in Request, u \in Url : Loads(requests'[o], u) => Loads(requests[o], u)
  BY <1>10, <1>11, Zenon
<1>14. OneLoader'
  BY <1>1, <1>13, NoNewLoader
<1> QED BY <1>9, <1>11, <1>12, <1>14, HandlersStep

-----------------------------------------------------------------------------
(* The theorems.                                                           *)

\* Every cache entry is a miss and every handler idle.
LEMMA FetchInit == Init => FetchInv
<1> SUFFICES ASSUME Init PROVE FetchInv
  OBVIOUS
<1>1. /\ Miss \in CacheEntry /\ ~Miss.hit /\ Miss.age = 0 /\ Miss.version = 0
      /\ Ttl \in Nat /\ Ttl > 0
  BY FetcherAssumption DEF Miss, CacheEntry
<1>2. /\ published = [u \in Url |-> 1] /\ cache = [u \in Url |-> Miss]
      /\ replaced = [u \in Url |-> [v \in Versions(u) |-> 0]]
      /\ loaded = [u \in Url |-> Ttl] /\ requests = [r \in Request |-> Idle]
  BY DEF Init
<1>3. Shape
  BY <1>1, <1>2, IdleHandler DEF Shape
<1>4. ASSUME NEW u \in Url
      PROVE  ListSound(u, published[u], cache[u], replaced[u], loaded[u])
  <2>1. /\ published[u] = 1 /\ cache[u] = Miss /\ loaded[u] = Ttl
        /\ replaced[u] = [v \in Versions(u) |-> 0]
        /\ Len(List[u]) \in Nat /\ Len(List[u]) >= 1
    BY <1>2, VersionsAreNat
  <2> QED BY <1>1, <2>1 DEF ListSound, Versions
<1>5. /\ \A r \in Request : HandlerSound(requests[r], published, cache)
      /\ \A r \in Request, u \in Url : ~Loads(requests[r], u)
  BY <1>2, IdleSound
<1> QED BY <1>3, <1>4, <1>5 DEF FetchInv, OneLoader

\* The invariant is preserved, one action at a time.
LEMMA FetchStep == FetchInv /\ [Next]_vars => FetchInv'
<1> SUFFICES ASSUME FetchInv, [Next]_vars PROVE FetchInv'
  OBVIOUS
<1>1. CASE UNCHANGED vars
  BY <1>1 DEF vars, FetchInv, Shape, OneLoader
<1>2. CASE Tick
  BY <1>2, TickStep
<1>3. ASSUME NEW u \in Url, Publish(u) \/ Evict(u) PROVE FetchInv'
  BY <1>3, PublishStep, EvictStep
<1>4. ASSUME NEW r \in Request, NEW body \in Bodies, RequestArrives(r, body) PROVE FetchInv'
  BY <1>4, ArriveStep
<1>5. ASSUME NEW r \in Request, RequestDropped(r) \/ FailFast(r) PROVE FetchInv'
  <2>1. requests' = Abandon(r, Idle) /\ UNCHANGED <<published, replaced, cache, loaded>>
    BY <1>5 DEF RequestDropped, FailFast
  <2> QED BY <2>1, AbandonStep
<1>6. ASSUME NEW r \in Request, Resolve(r) PROVE FetchInv'
  BY <1>6, ResolveStep
<1>7. ASSUME NEW r \in Request, NEW u \in Url, JoinLoad(r, u) \/ Advance(r, u) PROVE FetchInv'
  <2>1. \/ CacheHit(r, u) \/ JoinLoad(r, u) \/ StartLoad(r, u) \/ RejectUrl(r, u)
        \/ LoadRetried(r, u) \/ LoadDone(r, u) \/ LoadFails(r, u)
    BY <1>7 DEF Advance
  <2> QED BY <2>1, SingleLookupSteps, LoadDoneStep, LoadFailsStep
<1> QED BY <1>1, <1>2, <1>3, <1>4, <1>5, <1>6, <1>7 DEF Next, RequestAdvances

\* The invariant behind the theorems of this module.
LEMMA FetchInvariant == Spec => []FetchInv
BY FetchInit, FetchStep, PTL DEF Spec

\* The shape of the cache and of every request's lookups, the watched addresses included.
THEOREM FetcherTypeCorrect == Spec => []TypeOK
<1>1. FetchInv => TypeOK
  <2> SUFFICES ASSUME FetchInv PROVE TypeOK
    OBVIOUS
  <2>1. /\ Shape /\ \A u \in Url : ListSound(u, published[u], cache[u], replaced[u], loaded[u])
        /\ \A r \in Request : HandlerSound(requests[r], published, cache)
    BY DEF FetchInv
  <2>2. ASSUME NEW u \in Url
        PROVE  /\ published[u] \in Versions(u)
               /\ replaced[u] \in [Versions(u) -> 0 .. Ttl]
               /\ cache[u] \in [hit : BOOLEAN, age : 0 .. Ttl - 1, version : Versions(u) \cup {0}]
               /\ loaded[u] \in 0 .. Ttl
    <3>1. /\ published[u] \in Nat /\ cache[u] \in CacheEntry /\ loaded[u] \in Nat
          /\ ListSound(u, published[u], cache[u], replaced[u], loaded[u])
          /\ Ttl \in Nat /\ Len(List[u]) \in Nat
      BY <2>1, FetcherAssumption, VersionsAreNat DEF Shape
    <3>2. cache[u].age \in 0 .. Ttl - 1 /\ cache[u].version \in Versions(u) \cup {0}
      BY <3>1 DEF ListSound, Versions, CacheEntry
    <3>3. cache[u] \in [hit : BOOLEAN, age : 0 .. Ttl - 1, version : Versions(u) \cup {0}]
      BY <3>1, <3>2 DEF CacheEntry
    <3> QED BY <3>1, <3>3 DEF ListSound
  <2>3. ASSUME NEW r \in Request
        PROVE  /\ requests[r].pc \in {"idle", "resolve", "accepted"}
               /\ Urls(r) \subseteq Url
               /\ requests[r].lookups \in [Urls(r) -> Lookup]
               /\ \A u \in Urls(r) : requests[r].oldest[u] \in Versions(u)
               /\ requests[r].custom \subseteq Address
               /\ requests[r].watched \subseteq Address
               /\ requests[r].losses \subseteq Urls(r)
    <3>1. requests[r] \in Handler /\ HandlerSound(requests[r], published, cache)
      BY <2>1 DEF Shape
    <3>2. requests[r].lookups \in Lookups
      BY <3>1 DEF Handler
    <3>3. Urls(r) \subseteq Url /\ requests[r].lookups \in [Urls(r) -> Lookup]
      BY <3>2, LookupsAre DEF Urls
    <3>4. ASSUME NEW u \in Urls(r) PROVE requests[r].oldest[u] \in Versions(u)
      <4>1. /\ u \in Url /\ LookupSound(requests[r], u, published[u], cache[u])
            /\ Len(List[u]) \in Nat
        BY <3>1, <3>3, VersionsAreNat DEF HandlerSound, Urls
      <4>2. published[u] \in Versions(u)
        BY <2>2, <4>1
      <4> QED BY <4>1, <4>2 DEF LookupSound, Versions
    <3>5. requests[r].losses \subseteq Urls(r)
      BY <3>1 DEF HandlerSound, Urls
    <3> QED BY <3>1, <3>3, <3>4, <3>5 DEF Handler
  <2> QED BY <2>2, <2>3 DEF TypeOK
<1> QED BY <1>1, FetchInvariant, PTL

\* An accepted request watches exactly the tokens of its lists, its custom tokens and
\* WETH9, whoever loaded the lists, within the limit, and from versions that were
\* published no longer than the TTL before it.
THEOREM AcceptedRequestsAreComplete == Spec => []AcceptedIsComplete
<1>1. FetchInv => AcceptedIsComplete
  BY DEF FetchInv, HandlerSound, Complete, Watches, AcceptedIsComplete, Urls
<1> QED BY <1>1, FetchInvariant, PTL

\* A lookup fails for a rejected url or for a load that failed since the request came,
\* never because the request that ran the load went away.
THEOREM NoInheritedFailure == Spec => []FailsForItsOwnLoad
<1>1. FetchInv => FailsForItsOwnLoad
  <2> SUFFICES ASSUME FetchInv, NEW r \in Request, NEW u \in Url, At(r, u, "failed")
               PROVE  ~ValidateUrl(u) \/ u \in requests[r].losses
    BY DEF FailsForItsOwnLoad
  <2>1. LookupSound(requests[r], u, published[u], cache[u])
    BY DEF FetchInv, HandlerSound, At, Urls
  <2> QED BY <2>1 DEF LookupSound, At
<1> QED BY <1>1, FetchInvariant, PTL

\* A list has one load at a time, and none while a loaded one is younger than the TTL
\* and was not evicted.
THEOREM OneLoadPerList == Spec => []LoadedOnce
<1>1. FetchInv => LoadedOnce
  <2> SUFFICES ASSUME FetchInv, NEW u \in Url, NEW loading,
                      loading = {r \in Request : At(r, u, "load")}
               PROVE  /\ Cardinality(loading) <= 1
                      /\ loaded[u] < Ttl => loading = {}
    BY DEF LoadedOnce
  <2>1. \A r \in loading : r \in Request /\ Loads(requests[r], u)
    BY DEF At, Loads, Urls
  <2>2. Cardinality(loading) <= 1
    <3>1. \A r \in loading, o \in loading : r = o
      BY <2>1 DEF FetchInv, OneLoader
    <3> QED BY <3>1, AtMostOne, Zenon
  <2>3. loaded[u] < Ttl => cache[u].hit
    BY DEF FetchInv, ListSound
  <2>4. \A r \in loading : ~cache[u].hit
    <3> SUFFICES ASSUME NEW r \in loading PROVE ~cache[u].hit
      OBVIOUS
    <3>1. LookupSound(requests[r], u, published[u], cache[u])
      BY <2>1 DEF FetchInv, HandlerSound, Loads
    <3> QED BY <2>1, <3>1 DEF LookupSound, Loads
  <2> QED BY <2>2, <2>3, <2>4
<1> QED BY <1>1, FetchInvariant, PTL
=============================================================================
