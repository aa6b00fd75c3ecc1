------------------------- MODULE SubscriptionManager -------------------------
(***************************************************************************)
(* The session registry of balances-watcher and everything that touches it *)
(* (src/src/services/subscription_manager.rs, the POST/PUT and SSE halves  *)
(* of session_manager.rs, cleanup_stream.rs):                              *)
(*                                                                         *)
(*   - request handlers that create or update a session (`upsert`),        *)
(*   - SSE handlers that attach to it (`subscribe`), stream, and detach    *)
(*     when their CleanupStream is dropped (`unsubscribe`),                *)
(*   - the cleanup task that reaps idle sessions every SESSION_TTL,        *)
(*   - the per-session watcher tasks ("pipeline") and their cancel token,  *)
(*   - the shutdown signal and `close_sse_connections`.                    *)
(*                                                                         *)
(* Grain of atomicity: one action is what a task does while it holds the   *)
(* registry lock, or between two awaits.  A handler future is dropped at   *)
(* an await when its client disconnects.                                   *)
(*                                                                         *)
(* The service is single-network, so `network` is left out of Session.     *)
(***************************************************************************)
EXTENDS Naturals, FiniteSets

CONSTANTS
    Owner,              \* wallet addresses
    ClientId,           \* device ids (the X-Client-Id uuid)
    Request,            \* slots for concurrent POST/PUT handlers
    Conn,               \* slots for concurrent SSE connections
    SubId,              \* identities of Subscription objects (recycled)
    MaxClientsPerOwner, \* MAX_CLIENTS_PER_OWNER
    SessionTtl,         \* SESSION_TTL, in clock ticks
    MaxLeaks,           \* bound on dropped SSE handshakes per session
    Nil                 \* None

ASSUME FiniteAssumption ==
    /\ IsFiniteSet(Owner) /\ IsFiniteSet(ClientId)
    /\ IsFiniteSet(Conn)
ASSUME BoundAssumption ==
    /\ MaxClientsPerOwner \in Nat
    /\ SessionTtl \in Nat \ {0}
    /\ MaxLeaks \in Nat
ASSUME NilAssumption ==
    /\ Nil \notin SubId
    /\ Nil \notin [owner : Owner, client_id : ClientId]
    /\ Nil \notin Nat

\* domain::Session, the registry key.
Session == [owner : Owner, client_id : ClientId]

VARIABLES
    subscriptions,  \* registry: session -> Subscription, or Nil when absent
    clients,        \* SubWithCounter.clients of each session
    idle_since,     \* ticks since the session went idle, Nil when it has clients
    leaked,         \* history: SSE handlers dropped between subscribe and stream
    cancelled,      \* has the subscription's own CancellationToken been fired?
    pipeline,       \* the subscription's watcher tasks
    watched,        \* whose request last set the subscription's watched tokens
    upserts,        \* POST/PUT handlers in flight
    streams,        \* SSE handlers and streams in flight
    elapsed,        \* ticks since the cleanup interval last fired
    phase           \* process life cycle

registry == <<subscriptions, clients, idle_since, leaked>>
tasks == <<cancelled, pipeline, watched>>
vars == <<registry, tasks, upserts, streams, elapsed, phase>>

UpsertPC == {"idle", "resolve", "write", "replace", "spawn"}
StreamPC == {"idle", "arrived", "connecting", "open", "dropping"}
UpsertHandler == [pc : UpsertPC, session : Session \cup {Nil}, sub : SubId \cup {Nil}]
StreamHandler == [pc : StreamPC, session : Session \cup {Nil}, sub : SubId \cup {Nil}]
IdleUpsert == [pc |-> "idle", session |-> Nil, sub |-> Nil]
IdleStream == [pc |-> "idle", session |-> Nil, sub |-> Nil]

\* Shape of the state.
TypeOK ==
    /\ subscriptions \in [Session -> SubId \cup {Nil}]
    /\ clients \in [Session -> Nat]
    /\ idle_since \in [Session -> Nat \cup {Nil}]
    /\ leaked \in [Session -> 0 .. MaxLeaks]
    /\ cancelled \in [SubId -> BOOLEAN]
    /\ pipeline \in [SubId -> {"none", "running", "stopped"}]
    /\ watched \in [SubId -> Session \cup {Nil}]
    /\ upserts \in [Request -> UpsertHandler]
    /\ streams \in [Conn -> StreamHandler]
    /\ elapsed \in 0 .. SessionTtl
    /\ phase \in {"running", "signalled", "closed"}

Init ==
    /\ subscriptions = [s \in Session |-> Nil]
    /\ clients = [s \in Session |-> 0]
    /\ idle_since = [s \in Session |-> Nil]
    /\ leaked = [s \in Session |-> 0]
    /\ cancelled = [id \in SubId |-> FALSE]
    /\ pipeline = [id \in SubId |-> "none"]
    /\ watched = [id \in SubId |-> Nil]
    /\ upserts = [r \in Request |-> IdleUpsert]
    /\ streams = [c \in Conn |-> IdleStream]
    /\ elapsed = SessionTtl         \* tokio's interval fires at once
    /\ phase = "running"

-----------------------------------------------------------------------------
(* State functions.                                                        *)

Registered(s) == subscriptions[s] # Nil

SessionsOf(o) == {s \in Session : s.owner = o /\ Registered(s)}

\* Mutant: the session token is not a child of the process-wide token.
IsCancelledDetached(id) == cancelled[id]

\* The child token: fired by itself or through the process-wide parent.
IsCancelled(id) == cancelled[id] \/ phase # "running"

\* Some Arc<Subscription>, hence a broadcast sender, still exists: the map's,
\* a POST/PUT handler's, an SSE handshake's, or the watcher tasks'.  Those that
\* owned_queues_watching takes for one event of the listener are left out: they
\* are gone before the listener waits for a queue.
SenderAlive(id) ==
    \/ \E s \in Session : subscriptions[s] = id
    \/ \E r \in Request : upserts[r].sub = id
    \/ \E c \in Conn : streams[c].pc = "connecting" /\ streams[c].sub = id
    \/ pipeline[id] = "running"

\* An identity nothing refers to any more may name a new Subscription.
Unused(id) == ~SenderAlive(id) /\ \A c \in Conn : streams[c].sub # id

\* SSE connections counted in the session's `clients`.
Attached(s) ==
    {c \in Conn : streams[c].session = s
                  /\ streams[c].pc \in {"connecting", "open", "dropping"}}

-----------------------------------------------------------------------------
(* POST /session and PUT /session.                                         *)

\* Both methods run the same handler; requests are accepted until the signal.
RequestArrives(r, s) ==
    /\ phase = "running"
    /\ upserts[r].pc = "idle"
    /\ upserts' = [upserts EXCEPT ![r] = [pc |-> "resolve", session |-> s, sub |-> Nil]]
    /\ UNCHANGED <<registry, tasks, streams, elapsed, phase>>

\* A token list cannot be loaded or is not allowed, or the list is too long.
TokensRejected(r) ==
    /\ upserts[r].pc = "resolve"
    /\ upserts' = [upserts EXCEPT ![r] = IdleUpsert]
    /\ UNCHANGED <<registry, tasks, streams, elapsed, phase>>

\* The client disconnects while its handler is suspended at an await.  Between
\* `create_session_locked` and `spawn_watchers` there is none that can suspend.
RequestDropped(r) ==
    /\ upserts[r].pc \in {"resolve", "write", "replace"}
    /\ upserts' = [upserts EXCEPT ![r] = IdleUpsert]
    /\ UNCHANGED <<registry, tasks, streams, elapsed, phase>>

\* Mutant: the lookup ignores client_id.
UpsertReadByOwner(r) ==
    /\ upserts[r].pc = "resolve"
    /\ LET mine == SessionsOf(upserts[r].session.owner)
       IN IF mine = {}
          THEN upserts' = [upserts EXCEPT ![r].pc = "write"]
          ELSE \E s \in mine : upserts' = [upserts EXCEPT ![r].pc = "replace",
                                                          ![r].sub = subscriptions[s]]
    /\ UNCHANGED <<registry, tasks, streams, elapsed, phase>>

\* Fast path of `upsert`: look the session up under the read lock.
UpsertRead(r) ==
    /\ upserts[r].pc = "resolve"
    /\ LET s == upserts[r].session IN
       \/ /\ Registered(s)
          /\ upserts' = [upserts EXCEPT ![r].pc = "replace",
                                        ![r].sub = subscriptions[s]]
       \/ /\ ~Registered(s)
          /\ upserts' = [upserts EXCEPT ![r].pc = "write"]
    /\ UNCHANGED <<registry, tasks, streams, elapsed, phase>>

\* Mutant: the loser of the create race is also told to spawn the watchers.
UpsertExistingSpawns(r) ==
    /\ upserts[r].pc = "write"
    /\ Registered(upserts[r].session)
    /\ upserts' = [upserts EXCEPT
                     ![r].pc = "spawn",
                     ![r].sub = subscriptions[upserts[r].session]]
    /\ UNCHANGED <<registry, tasks, streams, elapsed, phase>>

\* Write path, the session is there after all: lost the create race.
UpsertExisting(r) ==
    /\ upserts[r].pc = "write"
    /\ Registered(upserts[r].session)
    /\ upserts' = [upserts EXCEPT
                     ![r].pc = "replace",
                     ![r].sub = subscriptions[upserts[r].session]]
    /\ UNCHANGED <<registry, tasks, streams, elapsed, phase>>

\* Mutant: off by one at the cap.
AtOwnerCapLate(s) == Cardinality(SessionsOf(s.owner)) > MaxClientsPerOwner

AtOwnerCap(s) == Cardinality(SessionsOf(s.owner)) >= MaxClientsPerOwner

\* `create_session_locked` refuses: OwnerClientLimitExceeded (429).
UpsertRefused(r) ==
    /\ upserts[r].pc = "write"
    /\ ~Registered(upserts[r].session)
    /\ AtOwnerCap(upserts[r].session)
    /\ upserts' = [upserts EXCEPT ![r] = IdleUpsert]
    /\ UNCHANGED <<registry, tasks, streams, elapsed, phase>>

\* `create_session_locked` inserts a fresh Subscription with a fresh child token.
CreateSession(r, id) ==
    LET s == upserts[r].session IN
    /\ upserts[r].pc = "write"
    /\ ~Registered(s)
    /\ ~AtOwnerCap(s)
    /\ Unused(id)
    /\ subscriptions' = [subscriptions EXCEPT ![s] = id]
    /\ clients' = [clients EXCEPT ![s] = 0]
    /\ idle_since' = [idle_since EXCEPT ![s] = 0]
    /\ leaked' = [leaked EXCEPT ![s] = 0]
    /\ cancelled' = [cancelled EXCEPT ![id] = FALSE]
    /\ pipeline' = [pipeline EXCEPT ![id] = "none"]
    /\ watched' = [watched EXCEPT ![id] = s]
    /\ upserts' = [upserts EXCEPT ![r].pc = "spawn", ![r].sub = id]
    /\ UNCHANGED <<streams, elapsed, phase>>

\* `replace_watched_tokens` on the Arc obtained earlier, registered or not.
ReplaceWatchedTokens(r) ==
    /\ upserts[r].pc = "replace"
    /\ watched' = [watched EXCEPT ![upserts[r].sub] = upserts[r].session]
    /\ upserts' = [upserts EXCEPT ![r] = IdleUpsert]
    /\ UNCHANGED <<registry, cancelled, pipeline, streams, elapsed, phase>>

\* The creator starts the snapshot updater and the queue result receiver.
SpawnWatchers(r) ==
    /\ upserts[r].pc = "spawn"
    /\ pipeline' = [pipeline EXCEPT ![upserts[r].sub] = "running"]
    /\ upserts' = [upserts EXCEPT ![r] = IdleUpsert]
    /\ UNCHANGED <<registry, cancelled, watched, streams, elapsed, phase>>

-----------------------------------------------------------------------------
(* GET /sse: subscribe, stream, detach.                                    *)

StreamArrives(c, s) ==
    /\ phase = "running"
    /\ streams[c].pc = "idle"
    /\ streams' = [streams EXCEPT ![c] =
                     [pc |-> "arrived", session |-> s, sub |-> Nil]]
    /\ UNCHANGED <<registry, tasks, upserts, elapsed, phase>>

\* `subscribe` finds no entry: SessionNotRegistered, a 404.
SubscribeRefused(c) ==
    /\ streams[c].pc = "arrived"
    /\ ~Registered(streams[c].session)
    /\ streams' = [streams EXCEPT ![c] = IdleStream]
    /\ UNCHANGED <<registry, tasks, upserts, elapsed, phase>>

\* `subscribe` counts the client and revives an idle session.
Subscribe(c) ==
    LET s == streams[c].session IN
    /\ streams[c].pc = "arrived"
    /\ Registered(s)
    /\ clients' = [clients EXCEPT ![s] = @ + 1]
    /\ idle_since' = [idle_since EXCEPT ![s] = Nil]
    /\ streams' = [streams EXCEPT ![c].pc = "connecting",
                                  ![c].sub = subscriptions[s]]
    /\ UNCHANGED <<subscriptions, leaked, tasks, upserts, elapsed, phase>>

\* `current_snapshot` returns; the CleanupStream is built and handed to axum.
OpenStream(c) ==
    /\ streams[c].pc = "connecting"
    /\ streams' = [streams EXCEPT ![c].pc = "open"]
    /\ UNCHANGED <<registry, tasks, upserts, elapsed, phase>>

\* The client disconnects before `subscribe` has taken the registry lock.
ArrivalDropped(c) ==
    /\ streams[c].pc = "arrived"
    /\ streams' = [streams EXCEPT ![c] = IdleStream]
    /\ UNCHANGED <<registry, tasks, upserts, elapsed, phase>>

\* The client disconnects while the handler awaits `current_snapshot`: it is
\* counted, and no CleanupStream exists yet that would uncount it.
HandshakeDropped(c) ==
    LET s == streams[c].session IN
    /\ streams[c].pc = "connecting"
    /\ leaked[s] < MaxLeaks
    /\ leaked' = IF subscriptions[s] = streams[c].sub
                 THEN [leaked EXCEPT ![s] = @ + 1] ELSE leaked
    /\ streams' = [streams EXCEPT ![c] = IdleStream]
    /\ UNCHANGED <<subscriptions, clients, idle_since, tasks, upserts, elapsed, phase>>

\* The body is dropped: the client went away, or the stream closed itself after
\* the receiver lagged.
StreamDropped(c) ==
    /\ streams[c].pc = "open"
    /\ streams' = [streams EXCEPT ![c].pc = "dropping"]
    /\ UNCHANGED <<registry, tasks, upserts, elapsed, phase>>

\* The broadcast sender is gone: the stream yields None and its body is dropped.
StreamEnds(c) ==
    /\ streams[c].pc = "open"
    /\ ~SenderAlive(streams[c].sub)
    /\ streams' = [streams EXCEPT ![c].pc = "dropping"]
    /\ UNCHANGED <<registry, tasks, upserts, elapsed, phase>>

\* Mutant: off by one in the checked subtraction.
UnsubscribeKeepsOne(c) ==
    LET s == streams[c].session
        counted == Registered(s) /\ clients[s] > 1
    IN
    /\ streams[c].pc = "dropping"
    /\ clients' = IF counted THEN [clients EXCEPT ![s] = @ - 1] ELSE clients
    /\ idle_since' = idle_since
    /\ streams' = [streams EXCEPT ![c] = IdleStream]
    /\ UNCHANGED <<subscriptions, leaked, tasks, upserts, elapsed, phase>>

\* Mutant: the last client leaves and `idle_since` is not stamped.
UnsubscribeUnstamped(c) ==
    LET s == streams[c].session
        counted == Registered(s) /\ clients[s] > 0
    IN
    /\ streams[c].pc = "dropping"
    /\ clients' = IF counted THEN [clients EXCEPT ![s] = @ - 1] ELSE clients
    /\ idle_since' = idle_since
    /\ streams' = [streams EXCEPT ![c] = IdleStream]
    /\ UNCHANGED <<subscriptions, leaked, tasks, upserts, elapsed, phase>>

\* The task spawned by CleanupStream::drop runs `unsubscribe`, by session key.
Unsubscribe(c) ==
    LET s == streams[c].session
        counted == Registered(s) /\ clients[s] > 0   \* else SessionNotRegistered
    IN
    /\ streams[c].pc = "dropping"
    /\ clients' = IF counted THEN [clients EXCEPT ![s] = @ - 1] ELSE clients
    /\ idle_since' = IF counted /\ clients[s] = 1
                     THEN [idle_since EXCEPT ![s] = 0] ELSE idle_since
    /\ streams' = [streams EXCEPT ![c] = IdleStream]
    /\ UNCHANGED <<subscriptions, leaked, tasks, upserts, elapsed, phase>>

-----------------------------------------------------------------------------
(* Background tasks.                                                       *)

\* Mutant: the interval misses its deadline.
TickLate ==
    /\ phase # "closed"
    /\ elapsed <= SessionTtl
    /\ elapsed' = elapsed + 1
    /\ idle_since' = [s \in Session |->
                        IF idle_since[s] = Nil THEN Nil ELSE idle_since[s] + 1]
    /\ UNCHANGED <<subscriptions, clients, leaked, tasks, upserts, streams, phase>>

\* Time passes; the sweep is assumed to run within the tick in which it is due.
Tick ==
    /\ phase # "closed"
    /\ elapsed < SessionTtl
    /\ elapsed' = elapsed + 1
    /\ idle_since' = [s \in Session |->
                        IF idle_since[s] = Nil THEN Nil ELSE idle_since[s] + 1]
    /\ UNCHANGED <<subscriptions, clients, leaked, tasks, upserts, streams, phase>>

\* Mutant: `None` counts as idle for ever.
ExpiredWithoutStamp(s) ==
    Registered(s) /\ ~(idle_since[s] # Nil /\ idle_since[s] <= SessionTtl)

\* Mutant: one tick too patient.
ExpiredLate(s) ==
    /\ Registered(s)
    /\ clients[s] = 0
    /\ idle_since[s] # Nil
    /\ idle_since[s] > SessionTtl + 1

Expired(s) ==
    /\ Registered(s)
    /\ clients[s] = 0
    /\ idle_since[s] # Nil
    /\ idle_since[s] > SessionTtl

\* Mutant: the entry is removed and its token is not cancelled.
CleanupSubsUncancelled ==
    /\ phase # "closed"
    /\ elapsed = SessionTtl
    /\ elapsed' = 0
    /\ subscriptions' = [s \in Session |-> IF Expired(s) THEN Nil ELSE subscriptions[s]]
    /\ idle_since' = [s \in Session |-> IF Expired(s) THEN Nil ELSE idle_since[s]]
    /\ leaked' = [s \in Session |-> IF Expired(s) THEN 0 ELSE leaked[s]]
    /\ UNCHANGED <<clients, tasks, upserts, streams, phase>>

\* `cleanup_subs`: cancel and remove every expired session.
CleanupSubs ==
    /\ phase # "closed"
    /\ elapsed = SessionTtl
    /\ elapsed' = 0
    /\ cancelled' = [id \in SubId |->
                       cancelled[id] \/ \E s \in Session :
                                          Expired(s) /\ subscriptions[s] = id]
    /\ subscriptions' = [s \in Session |-> IF Expired(s) THEN Nil ELSE subscriptions[s]]
    /\ idle_since' = [s \in Session |-> IF Expired(s) THEN Nil ELSE idle_since[s]]
    /\ leaked' = [s \in Session |-> IF Expired(s) THEN 0 ELSE leaked[s]]
    /\ UNCHANGED <<clients, pipeline, watched, upserts, streams, phase>>

\* The queue result receiver got an Err: it tells the clients, cancels the
\* session's token and exits.  The registry is not told.
QueueError(id) ==
    /\ pipeline[id] = "running"
    /\ ~IsCancelled(id)
    /\ cancelled' = [cancelled EXCEPT ![id] = TRUE]
    /\ UNCHANGED <<registry, pipeline, watched, upserts, streams, elapsed, phase>>

\* Both watcher tasks have seen the token and returned.
PipelineStops(id) ==
    /\ pipeline[id] = "running"
    /\ IsCancelled(id)
    /\ pipeline' = [pipeline EXCEPT ![id] = "stopped"]
    /\ UNCHANGED <<registry, cancelled, watched, upserts, streams, elapsed, phase>>

\* SIGTERM: LifeCycle's token is cancelled, and with it every child token.
ShutdownSignal ==
    /\ phase = "running"
    /\ phase' = "signalled"
    /\ UNCHANGED <<registry, tasks, upserts, streams, elapsed>>

\* `close_sse_connections`: 503 to everybody, clear the map; the task exits.
CloseSseConnections ==
    /\ phase = "signalled"
    /\ phase' = "closed"
    /\ subscriptions' = [s \in Session |-> Nil]
    /\ clients' = [s \in Session |-> 0]
    /\ idle_since' = [s \in Session |-> Nil]
    /\ leaked' = [s \in Session |-> 0]
    /\ UNCHANGED <<tasks, upserts, streams, elapsed>>

\* Nothing is left to do after the shutdown.
Drained ==
    /\ phase = "closed"
    /\ \A r \in Request : upserts[r].pc = "idle"
    /\ \A c \in Conn : streams[c].pc = "idle"
    /\ UNCHANGED vars

-----------------------------------------------------------------------------
UpsertStep(r) ==
    \/ UpsertRead(r)
    \/ UpsertExisting(r)
    \/ UpsertRefused(r)
    \/ \E id \in SubId : CreateSession(r, id)
    \/ ReplaceWatchedTokens(r)
    \/ SpawnWatchers(r)

StreamStep(c) ==
    \/ SubscribeRefused(c)
    \/ Subscribe(c)
    \/ OpenStream(c)
    \/ StreamEnds(c)
    \/ Unsubscribe(c)

Next ==
    \/ \E r \in Request : \/ UpsertStep(r)
                          \/ \E s \in Session : RequestArrives(r, s)
                          \/ TokensRejected(r)
                          \/ RequestDropped(r)
    \/ \E c \in Conn : \/ StreamStep(c)
                       \/ \E s \in Session : StreamArrives(c, s)
                       \/ ArrivalDropped(c)
                       \/ HandshakeDropped(c)
                       \/ StreamDropped(c)
    \/ Tick
    \/ CleanupSubs
    \/ \E id \in SubId : QueueError(id) \/ PipelineStops(id)
    \/ ShutdownSignal
    \/ CloseSseConnections
    \/ Drained

Spec == Init /\ [][Next]_vars

\* The runtime keeps polling every ready task and the clock advances; nothing
\* is assumed of clients, of RPC failures or of the operator.
Fairness ==
    /\ \A r \in Request : WF_vars(UpsertStep(r))
    /\ \A c \in Conn : WF_vars(StreamStep(c))
    /\ WF_vars(Tick)
    /\ WF_vars(CleanupSubs)
    /\ \A id \in SubId : WF_vars(PipelineStops(id))
    /\ WF_vars(CloseSseConnections)

FairSpec == Spec /\ Fairness

-----------------------------------------------------------------------------
(* Safety.                                                                 *)

\* The re-check, the cap check and the insert of `upsert` share one write lock,
\* so concurrent creates never push an owner past MAX_CLIENTS_PER_OWNER.
OwnerCap == \A o \in Owner : Cardinality(SessionsOf(o)) <= MaxClientsPerOwner

\* Until the map is cleared, `clients` is exactly the number of attached SSE
\* connections plus the handshakes that were dropped before their
\* CleanupStream existed: no interleaving of subscribe, unsubscribe, reap and
\* re-create loses or double-counts a client.
ClientsAccounted ==
    phase # "closed" =>
        \A s \in Session :
            Registered(s) => clients[s] = Cardinality(Attached(s)) + leaked[s]

\* The cleanup sweep never takes a session away from an attached connection,
\* so the key-based `unsubscribe` always meets the very Subscription that the
\* connection was attached to, never a later session under the same key.
AttachedStaysRegistered ==
    phase # "closed" =>
        \A c \in Conn :
            streams[c].pc \in {"connecting", "open", "dropping"} =>
                subscriptions[streams[c].session] = streams[c].sub

\* A session is either idle with a running idle clock or has clients; an idle
\* session without a clock would never be reaped.
IdleStamped ==
    \A s \in Session : Registered(s) => (idle_since[s] = Nil <=> clients[s] > 0)

\* An idle session is gone within two sweep periods of its last client.
IdleBound ==
    \A s \in Session :
        Registered(s) /\ idle_since[s] # Nil => idle_since[s] <= 2 * SessionTtl

\* The hazard spelled out in `upsert`: running watchers whose cancellation token
\* is no longer reachable from the map.  Every running pipeline is registered
\* or already told to stop.
NoLeakedWatchers ==
    \A id \in SubId :
        pipeline[id] = "running" =>
            IsCancelled(id) \/ \E s \in Session : subscriptions[s] = id

\* `spawn_watchers` is called exactly once per Subscription: one handler holds
\* the queue receiver, and the watchers have not been started before.
SpawnedOnce ==
    \A r1 \in Request :
        upserts[r1].pc = "spawn" =>
            /\ pipeline[upserts[r1].sub] = "none"
            /\ \A r2 \in Request \ {r1} :
                  upserts[r2].pc = "spawn" => upserts[r2].sub # upserts[r1].sub

\* A POST or PUT of one client_id never touches the watched list of another
\* (domain/session.rs): every Subscription a session, a handler or a stream
\* refers to was last written by a request of that same session.
DeviceIsolation ==
    /\ \A s \in Session : Registered(s) => watched[subscriptions[s]] = s
    /\ \A r \in Request :
          upserts[r].sub # Nil => watched[upserts[r].sub] = upserts[r].session
    /\ \A c \in Conn :
          streams[c].sub # Nil => watched[streams[c].sub] = streams[c].session

-----------------------------------------------------------------------------
(* Liveness, under FairSpec.                                               *)

\* A session whose client counter is zero is reaped or revived.
IdleSessionReaped ==
    \A s \in Session :
        (phase = "running" /\ Registered(s) /\ clients[s] = 0) ~>
            (phase # "running" \/ ~Registered(s) \/ clients[s] > 0)

\* A stream whose Subscription has left the registry ends: the watcher tasks
\* see the cancelled token, the last sender is dropped, `next()` is None.
OrphanedStreamEnds ==
    \A c \in Conn :
        (streams[c].pc = "open" /\ \A s \in Session : subscriptions[s] # streams[c].sub)
            ~> streams[c].pc # "open"

-----------------------------------------------------------------------------
(* The registry implements the abstract session store.                     *)

Store == INSTANCE SessionStore WITH
            live <- {s \in Session : Registered(s)},
            attached <- [s \in Session |-> Attached(s)],
            down <- phase = "closed"

\* Every registry step is a step of the store: sessions appear one at a time
\* and under the owner's cap, connections attach to live sessions only, and a
\* session disappears only unattached or in the shutdown.
ImplementsStore == Store!Spec

=============================================================================
