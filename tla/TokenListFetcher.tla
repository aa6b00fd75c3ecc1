-------------------------- MODULE TokenListFetcher --------------------------
(***************************************************************************)
(* How a POST or PUT gets its watched tokens (session_manager.rs,          *)
(* token_list_fetcher.rs, url_guard.rs): the token lists it names are      *)
(* looked up in a cache shared by all requests, missing ones are loaded,   *)
(* and the union is extended, filtered and checked against the limit.      *)
(*                                                                         *)
(* The cache is moka's try_get_with (external): one request loads a list   *)
(* while the others that want it wait for its answer.  The load belongs to *)
(* the request's own future, so it dies with the request: when the client  *)
(* leaves, or when another list of the same request fails (try_join_all    *)
(* drops the rest).  Then one of those that waited has to load it.         *)
(*                                                                         *)
(* A list is abstracted to its version.  Versions are what freshness is    *)
(* about; what a version contains is the constant List.                    *)
(***************************************************************************)
EXTENDS Naturals, Sequences, FiniteSets, FiniteSetsExt

CONSTANTS
    Request,        \* handlers of POST and PUT, each used again and again
    Url,            \* token list urls
    Parsed,         \* what a url parses to: [ok, scheme, host, private]
    Address,        \* token addresses
    Weth9, Native,  \* weth9_address and native_token_address of the network
    List,           \* the entries of the versions of each list (external)
    Bodies,         \* what requests ask for: records [urls, custom]
    AllowedHosts,       \* ALLOWED_TOKEN_LIST_HOSTS
    AllowPrivateHosts,  \* allow_private_token_lists
    TokenLimit,     \* config.token_limit
    Ttl,            \* TOKEN_LIST_CACHE_TTL in ticks
    Capacity,       \* CACHE_CAPACITY
    MaxRetries      \* TOKEN_LIST_FETCHER_BACKOFFS

Entry == [address : Address, onChain : BOOLEAN, parses : BOOLEAN]

ASSUME FetcherAssumption ==
    /\ IsFiniteSet(Address)     \* 20 bytes
    /\ Weth9 \in Address /\ Native \in Address /\ Weth9 # Native
    /\ \A u \in Url : Parsed[u] \in [ok : BOOLEAN, scheme : STRING, host : STRING, private : BOOLEAN]
    /\ \A u \in Url : List[u] \in Seq(SUBSET Entry) /\ List[u] # <<>>
    /\ Bodies \subseteq [urls : SUBSET Url, custom : SUBSET Address]
    /\ AllowPrivateHosts \in BOOLEAN
    /\ TokenLimit \in Nat /\ Ttl \in Nat \ {0} /\ Capacity \in Nat
    /\ MaxRetries \in Nat

Versions(u) == 1 .. Len(List[u])

VARIABLES
    published,  \* current version of each list (external)
    replaced,   \* history: ticks since a version was replaced, up to Ttl
    cache,      \* age of each cached list and its version
    loaded,     \* history: ticks since a list was last loaded, up to Ttl
    requests    \* each handler: step, body, its lookups, outcome, history

vars == <<published, replaced, cache, loaded, requests>>

\* A lookup of one list by one request: it has to ask the cache, it loads, waits for
\* another's load, has failed, or has got a version.
Lookup == [pc : {"ask", "load", "wait", "failed", "got"}, tries : 0 .. MaxRetries,
           version : Nat]
Asking == [pc |-> "ask", tries |-> 0, version |-> 0]
FailedLookup == [Asking EXCEPT !.pc = "failed"]
Got(version) == [Asking EXCEPT !.pc = "got", !.version = version]

Miss == [hit |-> FALSE, age |-> 0, version |-> 0]
Cached(version) == [hit |-> TRUE, age |-> 0, version |-> version]

NoLookups == [u \in {} |-> Asking]
Idle == [pc |-> "idle", custom |-> {}, lookups |-> NoLookups, watched |-> {},
         oldest |-> [u \in {} |-> 1], losses |-> {}]

\* The lists request r is looking up, or has looked up.
Urls(r) == DOMAIN requests[r].lookups
Resolving(r) == requests[r].pc = "resolve"
At(r, u, pc) == u \in Urls(r) /\ requests[r].lookups[u].pc = pc

\* One type invariant for the module.
TypeOK ==
    /\ \A u \in Url :
          /\ published[u] \in Versions(u)
          /\ replaced[u] \in [Versions(u) -> 0 .. Ttl]
          /\ cache[u] \in [hit : BOOLEAN, age : 0 .. Ttl - 1, version : Versions(u) \cup {0}]
          /\ loaded[u] \in 0 .. Ttl
    /\ \A r \in Request :
          /\ requests[r].pc \in {"idle", "resolve", "accepted"}
          /\ Urls(r) \subseteq Url
          /\ requests[r].lookups \in [Urls(r) -> Lookup]
          /\ \A u \in Urls(r) : requests[r].oldest[u] \in Versions(u)
          /\ requests[r].custom \subseteq Address
          /\ requests[r].watched \subseteq Address
          /\ requests[r].losses \subseteq Urls(r)

Init ==
    /\ published = [u \in Url |-> 1]
    /\ replaced = [u \in Url |-> [v \in Versions(u) |-> 0]]
    /\ cache = [u \in Url |-> Miss]
    /\ loaded = [u \in Url |-> Ttl]
    /\ requests = [r \in Request |-> Idle]

-----------------------------------------------------------------------------
(* The url guard and the filter of a list.                                 *)

\* host_is_allowed: an address literal that is not public, or a host that is not a
\* known source.
HostIsAllowed(url) == ~url.private /\ url.host \in AllowedHosts

\* validate_url.
ValidateUrl(u) ==
    /\ Parsed[u].ok
    /\ Parsed[u].scheme \in {"http", "https"}
    /\ Parsed[u].host # "none"
    /\ AllowPrivateHosts \/ HostIsAllowed(Parsed[u])

\* fetch_list_and_filter_by_chain: entries of this chain whose address parses; the
\* others never fail the list.
FilterByChain(entries) == {e.address : e \in {x \in entries : x.onChain /\ x.parses}}

-----------------------------------------------------------------------------
(* The world: lists change, time passes, moka evicts.                      *)

Publish(u) ==
    /\ published[u] < Len(List[u])
    /\ published' = [published EXCEPT ![u] = @ + 1]
    /\ UNCHANGED <<replaced, cache, loaded, requests>>

\* Mutant: an entry lives one tick longer.
AgedLate(entry) ==
    IF entry.hit /\ entry.age < Ttl THEN [entry EXCEPT !.age = @ + 1] ELSE Miss

\* An entry a tick later: gone when its time to live has passed.
Aged(entry) ==
    IF entry.hit /\ entry.age + 1 < Ttl THEN [entry EXCEPT !.age = @ + 1] ELSE Miss

Tick ==
    /\ cache' = [u \in Url |-> Aged(cache[u])]
    /\ loaded' = [u \in Url |-> Min({Ttl, loaded[u] + 1})]
    /\ replaced' = [u \in Url |-> [v \in Versions(u) |->
                      IF v < published[u] THEN Min({Ttl, replaced[u][v] + 1}) ELSE 0]]
    /\ UNCHANGED <<published, requests>>

\* More lists than the cache holds: one has to go.
Evict(u) ==
    /\ cache[u].hit
    /\ Cardinality({x \in Url : cache[x].hit}) > Capacity
    /\ cache' = [cache EXCEPT ![u] = Miss]
    /\ loaded' = [loaded EXCEPT ![u] = Ttl]
    /\ UNCHANGED <<published, replaced, requests>>

-----------------------------------------------------------------------------
(* get_tokens: the lookups of a request run side by side.                  *)

\* The oldest version of u that was still published less than Ttl ticks ago.
OldestFresh(u) == Min({v \in 1 .. published[u] : replaced[u][v] < Ttl})

\* A POST or PUT with a body that names lists or tokens.
RequestArrives(r, body) ==
    /\ requests[r].pc \in {"idle", "accepted"}
    /\ body.urls # {} \/ body.custom # {}
    /\ requests' = [requests EXCEPT ![r] =
                      [Idle EXCEPT !.pc = "resolve", !.custom = body.custom,
                                   !.lookups = [u \in body.urls |-> Asking],
                                   !.oldest = [u \in body.urls |-> OldestFresh(u)]]]
    /\ UNCHANGED <<published, replaced, cache, loaded>>

SetLookup(r, u, lookup) ==
    /\ requests' = [requests EXCEPT ![r].lookups[u] = lookup]
    /\ UNCHANGED <<published, replaced, cache, loaded>>

\* Mutant: a hit renews the entry.
CacheHitRenews(r, u) ==
    /\ Resolving(r) /\ At(r, u, "ask")
    /\ cache[u].hit
    /\ requests' = [requests EXCEPT ![r].lookups[u] = Got(cache[u].version)]
    /\ cache' = [cache EXCEPT ![u].age = 0]
    /\ UNCHANGED <<published, replaced, loaded>>

\* try_get_with finds the list.
CacheHit(r, u) ==
    /\ Resolving(r) /\ At(r, u, "ask")
    /\ cache[u].hit
    /\ SetLookup(r, u, Got(cache[u].version))

\* Someone loads the list: wait for the outcome.
JoinLoad(r, u) ==
    /\ Resolving(r) /\ At(r, u, "ask")
    /\ ~cache[u].hit
    /\ \E o \in Request : At(o, u, "load")
    /\ SetLookup(r, u, [Asking EXCEPT !.pc = "wait"])

\* Mutant: loads are not shared.
StartOwnLoad(r, u) ==
    /\ Resolving(r) /\ At(r, u, "ask")
    /\ ~cache[u].hit
    /\ SetLookup(r, u, [Asking EXCEPT !.pc = "load"])

\* Nobody does: the load begins, unless the guard rejects the url.
StartLoad(r, u) ==
    /\ Resolving(r) /\ At(r, u, "ask")
    /\ ~cache[u].hit
    /\ \A o \in Request : ~At(o, u, "load")
    /\ ValidateUrl(u)
    /\ SetLookup(r, u, [Asking EXCEPT !.pc = "load"])

RejectUrl(r, u) ==
    /\ Resolving(r) /\ At(r, u, "ask")
    /\ ~ValidateUrl(u)
    /\ SetLookup(r, u, FailedLookup)

\* A transport or status error is tried again after a delay.
LoadRetried(r, u) ==
    /\ At(r, u, "load")
    /\ requests[r].lookups[u].tries < MaxRetries
    /\ SetLookup(r, u, [requests[r].lookups[u] EXCEPT !.tries = @ + 1])

\* The lookups of u after its load ended: the loader's and those that waited.
Settle(u, outcome) ==
    [r \in Request |->
        [requests[r] EXCEPT
            !.lookups = [x \in Urls(r) |->
                IF x = u /\ (At(r, u, "load") \/ At(r, u, "wait")) THEN outcome ELSE @[x]],
            !.losses = IF outcome.pc = "failed" /\ Resolving(r) THEN @ \cup ({u} \cap Urls(r)) ELSE @]]

\* The list is downloaded, parsed and cached.
LoadDone(r, u) ==
    /\ At(r, u, "load")
    /\ requests' = Settle(u, Got(published[u]))
    /\ cache' = [cache EXCEPT ![u] = Cached(published[u])]
    /\ loaded' = [loaded EXCEPT ![u] = 0]
    /\ UNCHANGED <<published, replaced>>

\* The last retry, or at once when the body is too large, breaks off or does not
\* parse.  The error goes to all who waited and is not cached.
LoadFails(r, u) ==
    /\ At(r, u, "load")
    /\ requests' = Settle(u, FailedLookup)
    /\ UNCHANGED <<published, replaced, cache, loaded>>

\* Mutant: those who wait for an abandoned load wait on.
AbandonAndForget(r, end) == [requests EXCEPT ![r] = end]

\* Mutant: those who wait for an abandoned load fail with it.
AbandonFailsWaiters(r, end) ==
    [o \in Request |->
        IF o = r THEN end
        ELSE [requests[o] EXCEPT !.lookups = [u \in Urls(o) |->
                IF At(o, u, "wait") /\ At(r, u, "load") THEN FailedLookup ELSE @[u]]]]

\* The future of request r is dropped with the loads it runs; moka sends those who
\* waited for one back to ask again.
Abandon(r, end) ==
    [o \in Request |->
        IF o = r THEN end
        ELSE [requests[o] EXCEPT !.lookups = [u \in Urls(o) |->
                IF At(o, u, "wait") /\ At(r, u, "load") THEN Asking ELSE @[u]]]]

\* The client is gone.  A request that ended without tokens leaves nothing behind.
RequestDropped(r) ==
    /\ Resolving(r)
    /\ requests' = Abandon(r, Idle)
    /\ UNCHANGED <<published, replaced, cache, loaded>>

\* try_join_all returns the first error and drops the other lookups.
FailFast(r) ==
    /\ Resolving(r)
    /\ \E u \in Urls(r) : At(r, u, "failed")
    /\ requests' = Abandon(r, Idle)
    /\ UNCHANGED <<published, replaced, cache, loaded>>

-----------------------------------------------------------------------------
(* fetch_and_extend_tokens and the limit.                                  *)

\* The lists, the custom tokens and WETH9, without the native token's sentinel.
Extended(lists, custom) == ((UNION lists) \cup custom \cup {Weth9}) \ {Native}

\* Every list is there: extend, check the limit, hand over to the registry.
Resolve(r) ==
    LET lists == {FilterByChain(List[u][requests[r].lookups[u].version]) : u \in Urls(r)}
        tokens == Extended(lists, requests[r].custom)
    IN  /\ Resolving(r)
        /\ \A u \in Urls(r) : At(r, u, "got")
        /\ requests' = [requests EXCEPT ![r] =
             IF Cardinality(tokens) > TokenLimit
             THEN Idle
             ELSE [@ EXCEPT !.pc = "accepted", !.watched = tokens, !.losses = {},
                            !.lookups = [u \in Urls(r) |-> Asking]]]
        /\ UNCHANGED <<published, replaced, cache, loaded>>

-----------------------------------------------------------------------------
\* Steps that bring a lookup further; waiting for another's load does not.
Advance(r, u) ==
    \/ CacheHit(r, u) \/ StartLoad(r, u) \/ RejectUrl(r, u)
    \/ LoadRetried(r, u) \/ LoadDone(r, u) \/ LoadFails(r, u)

RequestAdvances(r) == FailFast(r) \/ Resolve(r) \/ \E u \in Url : Advance(r, u)

Next ==
    \/ Tick
    \/ \E u \in Url : Publish(u) \/ Evict(u)
    \/ \E r \in Request :
          \/ \E body \in Bodies : RequestArrives(r, body)
          \/ RequestDropped(r)
          \/ \E u \in Url : JoinLoad(r, u)
          \/ RequestAdvances(r)

Spec == Init /\ [][Next]_vars

\* A handler is polled, timers fire and an HTTP request ends within its timeout.  Those
\* woken by an abandoned load race with new requests to start it anew: a waiter does
\* not lose that race for ever.
Fairness == \A r \in Request : SF_vars(RequestAdvances(r))

FairSpec == Spec /\ Fairness

-----------------------------------------------------------------------------
(* Properties.                                                             *)

\* "Clients must receive every requested token, otherwise we cannot rely on the
\* reported balances": an accepted request watches exactly WETH9, its custom tokens
\* and this chain's tokens of each list it named, in a version that was published no
\* longer than the TTL before the request, whoever loaded it; never the native token,
\* and never more than the limit.
AcceptedIsComplete ==
    \A r \in Request : requests[r].pc = "accepted" =>
        /\ \E pick \in [Urls(r) -> UNION {Versions(u) : u \in Url}] :
              /\ \A u \in Urls(r) : pick[u] \in requests[r].oldest[u] .. published[u]
              /\ requests[r].watched =
                   {a \in Address \ {Native} :
                       \/ a = Weth9 \/ a \in requests[r].custom
                       \/ \E u \in Urls(r) : \E e \in List[u][pick[u]] :
                             e.address = a /\ e.onChain /\ e.parses}
        /\ Cardinality(requests[r].watched) <= TokenLimit

\* "A failed fetch is not cached, so a subsequent call retries it": a lookup fails only
\* for a url the guard rejects or for a load of that list that failed since the request
\* arrived, never because the request that ran the load went away or because some
\* earlier load failed.
FailsForItsOwnLoad ==
    \A r \in Request, u \in Url :
        At(r, u, "failed") => ~ValidateUrl(u) \/ u \in requests[r].losses

\* "Multiple subscriptions sharing one fetcher never trigger duplicate HTTP calls": a
\* list has one load at a time, and none while one that succeeded is younger than the
\* TTL, unless the cache had to evict it.
LoadedOnce ==
    \A u \in Url :
        LET loading == {r \in Request : At(r, u, "load")} IN
        /\ Cardinality(loading) <= 1
        /\ loaded[u] < Ttl => loading = {}

\* Every request is answered or dropped by its client, although the load it waits for
\* may be abandoned again and again.
RequestEnds == \A r \in Request : Resolving(r) ~> ~Resolving(r)
=============================================================================
