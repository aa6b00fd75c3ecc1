# balances-watcher in TLA+

A verification development for `balances-watcher`, the Rust service that streams
the ERC-20 balances of a wallet to its clients over Server-Sent Events. The modules
here are translated from `src/src/**` (the crate's own `src` directory); paths
below are relative to the repository root `src/`.

TLC checks every module on small instances. TLAPS proves the safety properties of every
component for all values of the constants; liveness is model-checked.

## 1. The system

A client creates a *session* with `POST /{chain}/sessions/{owner}` (device id in
`X-Client-Id`), opens the SSE stream `GET /sse/...`, and may replace its token list
with `PUT`. For every session two watcher tasks read balances by multicall, merge
them into a cached snapshot and broadcast the differences. A process-wide pipeline
follows the chain: block heads arrive over a WebSocket, transfer logs are fetched for
each head, and each transfer triggers a targeted refresh in the sessions watching it.

```
 WebSocket ─► BlockWatcher ─► EventDispatcher ─► TransferListener ─► BalanceRefreshQueue ┐
                  (heads)         (transfers)        (router)             (per session)   │
 POST/PUT ─► SessionManager ─► SubscriptionManager ─► Subscription ◄── SnapshotUpdater ◄──┘
 GET /sse ─►      │                (registry)          (snapshot)        (multicall)
                  └────────── CleanupStream ◄──── broadcast ◄───────────────┘
```

### Inventory

| Component | State | Operations | Interaction and hard behaviour | What makes it correct |
|---|---|---|---|---|
| Session registry (`services/subscription_manager.rs`) | map session → (Subscription, client count, idle stamp) under one `RwLock` | `upsert`, `subscribe`, `unsubscribe`, `cleanup_subs`, `close_sse_connections`, `owned_queues_watching` | called by all handlers, the cleanup timer and the shutdown; read-then-write locking in `upsert`; identity is by key, not by object | cap per owner, exact counters, no session reaped under a client, no watcher left without a reachable token, devices do not mix |
| SSE connection (`services/session_manager.rs`, `services/cleanup_stream.rs`) | receiver, seed snapshot, drop hook | handshake, stream, lag close, drop → `unsubscribe` in a spawned task | the handler may be dropped at any await; the unsubscribe races reaping and re-creation | each attach has one detach; lag is never silent; streams end when the session does |
| Session API (`api/*.rs`) | handler futures | create, update, stream | dropped at awaits when the client leaves | a PUT is not a create, errors are the documented ones |
| Subscription (`services/subscription.rs`) | watched tokens, snapshot with block numbers, broadcast sender, cancellation token, refresh notifier | `set_watched_tokens`, `update_balances_and_take_diff`, `get_sub_snapshot` | two producers, PUTs and seeding share it; the two locks are taken in order | entries are true at their block, never go back, evicted tokens leave, clients converge |
| Snapshot updater (`services/snapshot_updater.rs`) | interval, connection gate, queue result receiver | read, merge, broadcast, report errors | merge and broadcast are separate; per-chunk errors; stops at cancel | no change lost, freshness |
| Multicall (`services/rpc_client.rs`, `evm/*`) | permits, retries | chunked reads | nodes answer behind the head; subcalls fail singly | no failed subcall becomes a balance |
| Refresh queue (`services/balance_refresh_queue.rs`) | pending tokens, pinned block, bounded channel | enqueue, debounce, fetch | coalescing, backpressure | each transfer leads to a read at or after its block |
| Block watcher (`services/block_watcher.rs`) | stream, latest block, bounded head channel | subscribe, consume, stall check, resubscribe | silently dead streams, full channel, reorged heads | a dead stream is replaced, a live one is kept on an idle chain |
| Event dispatcher (`services/event_dispatcher.rs`) | cursor, current plan, two log sources, bisect stack | drain heads, plan, fetch, bisect, send on | missed heads, provider limits, bounded transfer channel, shutdown while blocked | no silent gap, no double fetch, block order, catches up |
| Transfer listener (`services/session_manager.rs`) | none of its own | route to queues | backpressure from one session | every watching session is told |
| Token list fetcher (`services/token_list_fetcher.rs`) | cache | fetch, merge lists | coalesced loads | one load per list, errors are not cached |
| Health, shutdown, wiring (`main.rs`, `graceful_shutdown/mod.rs`, `services/health.rs`) | process-wide token, task tracker | signal, drain | new sessions during the drain | every task returns, all streams close |
| URL guard (`services/url_guard.rs`) | none | `validate_url`, `host_is_allowed` | checked once per load, not per cached hit | no list is loaded from a host that is not allowed |
| Network table (`domain/evm_network.rs`) | none | `block_time`, `max_block_lag`, `backfill_chunk_blocks` | eleven hand-kept rows in three tables | the rows fit each other and the dispatcher's assumptions |
| Extractors, errors, config, bindings, metrics | none | pure | – | – |

The concrete hazards, each at its line, are in `PROJECT.json` under `hazards`.

## 2. Modules

| Module | Models |
|---|---|
| `SubscriptionManager` | the registry with its POST/PUT handlers, SSE handlers, cleanup timer, watcher life cycle and shutdown |
| `SessionStore` | what the registry promises, without locks, counters, clocks or tasks |
| `SubscriptionManagerProofs` | theorems about the registry's counters, clocks, watchers and devices |
| `SessionStoreProofs` | the cap, and that the registry implements `SessionStore` |
| `BalanceSnapshot` | pure operators: retain, block-guarded merge, diff, a client's overlay |
| `BalanceFeed` | one session's data path: chain → producers → snapshot → broadcast → clients, with PUTs |
| `BalanceFeedProofs` | theorems about `BalanceFeed` |
| `BlockWatcher` | the head stream, its stall check and the head channel |
| `EventDispatcher` | extends `BlockWatcher` with the dispatcher, its two log sources, the transfer channel and the listener |
| `LogCursor` | what the dispatcher promises about logs, without heads, channels, plans, chunks or bisection |
| `EventDispatcherProofs` | theorems about the cursor and the bisection, and that the dispatcher implements `LogCursor` |
| `EvmNetwork` | the per-chain numbers; an assumption that they fit each other and `EventDispatcher` |
| `Subscription` | the state and life cycle the tasks of a session share, with the multicall semaphore |
| `BalanceRefreshQueue` | extends `Subscription` with the transfer listener, the queue workers and the result receivers |
| `BalanceRefreshQueueProofs` | theorems about the way of a transfer |
| `SnapshotUpdater` | extends `Subscription` with the updater's connection gate, interval, notifier and chunked reads |
| `SessionPipeline` | composes the last two over one `Subscription` |
| `SessionPipelineProofs` | theorems about queue and updater side by side |
| `TokenListFetcher` | token resolution of POST and PUT: shared list cache, coalesced loads, URL guard, token limit |
| `TokenListFetcherProofs` | theorems about `TokenListFetcher` |
| `Extrema` | what the proofs need of `Min`, `Max` and induction |
| `MC*` | constants and symmetry for TLC |

`BalanceFeed` and `SessionPipeline` look at the same session from two sides. The feed
keeps amounts, diffs and clients and lets its producers read at any time; the pipeline
keeps what makes them read, and reduces a balance to the block it was read at.

Operators named after a bug (`TickLate`, `DiffNewOnly`, `FetchFromCursor`, ...) stand
beside the definition they distort. Nothing in the specifications uses them; they
exist to show that each property can fail.

### SubscriptionManager

An action is what a task does under one hold of the registry lock, or between two
awaits. Handlers are records with a program counter.

* POST/PUT (`upserts`): `RequestArrives` → token resolution (`TokensRejected` on
  failure) → `UpsertRead` (first look under the read lock) → `UpsertExisting`,
  `UpsertRefused` or `CreateSession` (re-check, cap and insert under the write lock) →
  `ReplaceWatchedTokens` or `SpawnWatchers`. `RequestDropped` may happen wherever the
  code awaits without being shielded.
* SSE (`streams`): `StreamArrives` → `SubscribeRefused` or `Subscribe` → `OpenStream` →
  `StreamEnds` or `StreamDropped` → `Unsubscribe`, the task spawned by `CleanupStream`.
  `HandshakeDropped` is the drop between `subscribe` and the stream's construction; it
  is counted in `leaked`.
* Background: `Tick`, `CleanupSubs`, `QueueError` (a permanent RPC error cancels the
  session token), `PipelineStops`, `ShutdownSignal`, `CloseSseConnections`.

`network` is left out of the key (a process serves one chain). Balances are in
`BalanceFeed`; here a subscription's token list is represented by the session whose
request last wrote it, which is what device isolation speaks about. Subscription
identities are recycled once no `Arc` refers to them (`Unused`).

Time: `idle_since` counts ticks since the session became idle and `elapsed` ticks
since the last sweep. `Tick` does not run past a due sweep, so a sweep is late by less
than a tick.

### BalanceFeed

`chain` and `view` are external: the true balances by block, and what a client believes
after overlaying everything it received. A producer runs `StartRead` → `Fetch` per
chunk → `MergeAnswer` → `SendDiff`; a fetch answers from a block up to `MaxLag` behind
the head and any subset of the chunk's tokens may fail (at the cost of a fault).
`ChunkFails` and `QueueFails` are the exhausted retries and their error events.
`SetWatchedTokens`/`EvictUnwatched` are the two lock scopes of a PUT; `PutDropped` is a
handler dropped between them. A client subscribes *before* it is seeded, as the code
does, and its receiver holds at most `Capacity` events: one more sets `lagged`, and
`LagClose` then ends the stream.

### BlockWatcher and EventDispatcher

The watcher's stream may deliver heads late, skip heads by dying, repeat numbers in a
reorg or stop silently. `RecordConnected` applies a head and uses `try_send`: a full
channel drops it (`dropped`). `StallTimeout`, `ChainIdle`, `ConfirmStall` and
`StallUnconfirmed` are the stall check with its HTTP call, which may lag.

`ReceiveHeads` takes all queued heads at once and plans from cursor + 1, at most
`MaxBlockLag` back; `RangeFetched`, `RangeRejected` (bisect) and `BlockLost` act on the
stack of the two sources; `SendTransfer` blocks on a full channel; `ChunkDone` waits for
both sources and moves the cursor. The log content is abstracted to the set of blocks
that have logs worth sending on, chosen freely per answer.

### Subscription, BalanceRefreshQueue, SnapshotUpdater, SessionPipeline

`Subscription` has the part of a session that its tasks share: watched set, snapshot,
notifier permit, cancellation (a child of the process-wide token) and the holders of
the multicall semaphore. All sessions belong to one owner, since a transfer only
reaches the sessions of its owner. Its actions are creation, a PUT in two lock scopes
(`SetWatchedTokens`, `EvictAndNotify`, or `PutDropped` between them), expiry, the
shutdown signal and the one sweep that clears the map. Two history variables serve the
properties: `due` is the block of the newest transfer the listener found watched,
`excused` the head when a refresh was last lost to a fault.

`BalanceRefreshQueue` follows a transfer. `NewBlock` puts an event on the listener's
channel; `TakeTransfer` → `AskWatched` per session → `Enqueue` per watching session →
`FanoutDone` is one round of the listener, which takes no other event before every
queue has taken this one (`join_all`). A worker does `Collect` → `Flush` (debounce timer
or `MAX_QUEUE_SIZE`, coalesced by token) → `AcquirePermit` → `CallAnswers`,
`CallRetried` or `CallExhausted` → `SendResult`; it ends when its handle is dropped
(`WorkerEnds`) or when nobody reads its result. The receiver merges an answer or cancels
the session on an error. A batch is read at the highest block of its requests, or at
latest when one of them has none (`Unpinned`).

`SnapshotUpdater` has the outer loop (`CheckGate`, `Unpark`, `ParkedCancelled`) and the
inner one (`TickFires`, `Notified`, `SeeConnection`, `LoopCancelled`), and a read of the
watched tokens in chunks, each under a permit. The connection is a watch channel: the
value and a `changed` flag per reader, so that a down and up between two looks is one
change with the same value.

`SessionPipeline` runs both over one session, so PUTs, fan-outs and full reads
interleave at every lock.

### TokenListFetcher

A request holds one lookup per list: `CacheHit`, `JoinLoad` (another request is loading
it), `StartLoad` or `RejectUrl`; a load is retried, done or fails. `FailFast` is
`try_join_all` dropping the other lookups on the first error, `RequestDropped` the
client leaving; both abandon the loads they ran, and the cache then sends the waiters
back to ask (`Abandon`). `Resolve` unites the lists, the custom tokens and WETH9 without
the native sentinel and applies the limit. `Publish`, `Tick` and `Evict` are the world:
a list changes, time passes, the cache is over capacity. The content of a list is taken
when its load completes.

## 3. Runs

| Run | Shows | Bounds |
|---|---|---|
| `registry` | cap, exact counters, no reaping under a client, idle clock always set and bounded, no unreachable watchers, one spawn per subscription, device isolation, and that the registry implements `SessionStore` | 2 devices for 1 slot, 2 handlers, 2 connections, 3 subscription identities, 1 leak |
| `registry_live` | idle sessions are reaped or revived; orphaned streams end | 1 session, 1 handler, 2 connections |
| `feed` | cached balances true and never older; no diff lost | both producers, 2 tokens, 2 blocks, lag 1, ring of 1, 1 fault |
| `feed_live` | a caught-up client holds the cached balances; a connected client ends up fresh | updater alone, ring of 1, 1 fault |
| `dispatcher` | no silent gap, no double fetch, block order, caught up when idle; the network table | 1 source, 6 blocks, cap 4, chunks of 3, 1 reorg |
| `dispatcher_live` | lag heals, dead streams are replaced, shutdown drains | 2 sources on a channel of 1, 4 blocks, cap 1 |
| `queue` | no transfer lost between listener and snapshot; only cancelled sessions lose their worker | 2 sessions, 2 tokens, 1 watch list, 3 blocks, channels of 1, 1 permit, 1 fault, 1 retry |
| `queue_live` | every fan-out ends; a removed session leaves no task behind | 1 session, 4 blocks, channels of 1, 1 fault, 1 retry |
| `pipeline` | without the interval, every watched token is up to date or a refresh of it is under way; permits are held by running calls only | 1 session, 2 tokens, 2 watch lists, 2 blocks, 1 retry, 1 flap, chunks of 1, no faults |
| `updater` | a newly watched token is read soon; a cancelled updater stops wherever it waits | 1 session, 2 tokens, 3 flaps, chunks of 1, 1 fault |
| `tokens` | an accepted request watches all it asked for, fails for its own lists only; one load per list; every request ends | 2 handlers, 3 URLs, TTL of 2 ticks, cache of 1 list, 1 retry, limit of 2 tokens |
| `feed_race` | a violation, see section 6 | the smallest that shows it |

Why the bounds suffice. The registry's races are between two handlers of one key, a
handler and the sweep, or two connections of one session: two of each, plus a third
subscription identity so that a reaped session can be re-created while streams of the
old one still run. A cap of one with two devices makes every create race for the slot;
sessions of two devices side by side are covered by the proofs, which leave the cap
open. With a TTL of one tick a sweep meets sessions idle for zero, one and two ticks,
and only the last is expired. In the feed, two tokens distinguish an evicted from a
kept one, two amounts a changed from a stale one, two blocks an old from a new answer;
a ring of one makes lag frequent, and one fault is a failed subcall, a failed chunk, a
failed batch or a dropped PUT. In the dispatcher six blocks with a cap of four and
chunks of three give a skipped prefix, a full chunk, a partial chunk, and ranges that
bisect unevenly.

Sessions meet in the listener and in the semaphore, and nowhere else: two sessions with
one permit and channels of one message let each block the other at every stage, and
three blocks fill inbox, worker and listener at once. A fourth block in `queue_live`
does so while a result is still waiting. In the pipeline two watch lists make a PUT
drop, add and bring back a token; one block after the first is enough for a transfer
before, between and after the PUT's steps. Three flaps are up, down and up again, which
the watch channel may show as one change. In `tokens` a cache of one list evicts the
other, a TTL of two ticks tells an aged entry from an expired one, and a list that
changes tells an old version from a new one.

What the bounds leave out is named here. `queue` has one watch list, so that PUTs are left
to `pipeline`; all its calls are pinned, so that the node's lag makes no difference there.
`pipeline` has no faults, which would make it several times larger: failed calls and a
dropped PUT are in the theorem `NothingIsForgotten`, which has no such bound. `updater` has
one session, so that its wait for a permit always ends at once there; contention for
permits is in `queue`, and between queue and updater in `pipeline`.
`registry_live` has no leaked handshake: with one a session is never reaped (section 6).

Symmetry is used for safety runs only.

Deadlock is checked in the registry, feed, dispatcher and tokens runs: `Drained` and
`Terminated` let a fully shut-down system stutter and nothing else does. It is off in
`queue`, `queue_live`, `pipeline` and `updater`, where every session can be gone and the
bounded chain at its end; that no task is stuck there is what `FanoutEnds`,
`RemovedDrains` and `CancelledStops` say.

### Assumptions about the environment

* The block number a multicall returns is the block its balances were read at.
* A call pinned to a block answers at that block or not at all; a call at latest answers
  up to `MaxLag` blocks behind the head.
* `NothingForgotten` and `TransferReflected` cover events without a block number for a node
  that does not lag (`MaxLag = 0` in `pipeline`): such an event says nothing about which
  block to read.
* An answer of `eth_getLogs` is in block order: the dispatcher sends logs on in the order
  of the answer, and `OldestFirst` is about the order of the ranges, not about sorting.
* In the queue modules a transfer is in the listener's channel in the step that adds its
  block. The wait for room in that channel is the dispatcher's (`SendTransfer`).
* A block has at most one transfer of the owner in the queue modules; several in one
  block are several events with the same number, which the channel treats alike.
* A list has the content it had when its load completed.

### Fairness

* Weak fairness on steps of a polled task, a timer that is due, and an RPC that must
  end (its retries and timeouts are bounded).
* Strong fairness on the cancellation branches of `select!` in the watcher, dispatcher
  and listener: the macro picks at random among ready branches, so a token that stays
  cancelled is eventually seen even though another branch keeps becoming ready.
* Strong fairness on the next step of a queue worker, the listener in the queue module,
  an updater and a token request, because other tasks may take the lock, permit or
  channel slot they wait for: tokio's locks and semaphore are first come first served. For
  a request that waits for an abandoned load it means that it does not lose the race to
  start it anew for ever. The cancellation branches of receiver, listener and updater
  have their own, as above.
* The updater's interval is not assumed to tick: `WatchedIsRead` holds without it.
* None on clients (arriving, leaving), on faults, new blocks, PUTs or the signal.
* `feed_live` assumes a node that does not lag (`MaxLag = 0`): with a permanently
  lagging one freshness is up to the node. The bounded chain means "once heads stop".
  It has the updater alone: the race of `feed_race` refutes freshness with both until
  the balance changes again.

## 4. Proofs

TLAPS proves every safety invariant and every action property that a passing run
checks, for every value of the constants: any number of owners, devices, handlers,
connections, sessions, tokens, lists and log sources, any capacity, chunk size, cap,
TTL, lag, chain length and number of faults, retries and reorgs.

| Theorem | Property | Module |
|---|---|---|
| `TypeCorrect` | `TypeOK` | `SubscriptionManagerProofs` |
| `CountersExact` | `ClientsAccounted` | |
| `AttachedNeverReaped` | `AttachedStaysRegistered` | |
| `IdleAlwaysStamped` | `IdleStamped` | |
| `IdleBounded` | `IdleBound` | |
| `WatchersNeverLeak` | `NoLeakedWatchers` | |
| `WatchersSpawnedOnce` | `SpawnedOnce` | |
| `DevicesIsolated` | `DeviceIsolation` | |
| `CapNeverExceeded` | `OwnerCap` | `SessionStoreProofs` |
| `RegistryImplementsStore` | `ImplementsStore` | |
| `FeedTypeCorrect` | `TypeOK` | `BalanceFeedProofs` |
| `SnapshotIsTrue` | `SnapshotTrue` | |
| `LateAnswersLose` | `StaleNeverOverwrites` | |
| `NoDiffLost` | `EveryChangeTold` | |
| `CaughtUpClientsAgree` | `Converged`, for one producer | |
| `ClientsSeeRealAmounts` | `ViewsReal` (stated with its proof) | |
| `RaceCostsOnlyTheOrder` | `OutOfOrderAtWorst` (stated with its proof) | |
| `DispatcherTypeCorrect` | `TypeOK` | `EventDispatcherProofs` |
| `CursorLeavesNoGap` | `NoSilentGap` | |
| `NoBlockTwice` | `NothingRefetched` | |
| `LogOrderPreserved` | `OldestFirst` | |
| `IdleMeansCaughtUp` | `CaughtUpWhenIdle` | |
| `DispatcherImplementsCursor` | `Cursor!Spec` (stated with its proof) | |
| `FetcherTypeCorrect` | `TypeOK` | `TokenListFetcherProofs` |
| `AcceptedRequestsAreComplete` | `AcceptedIsComplete` | |
| `NoInheritedFailure` | `FailsForItsOwnLoad` | |
| `OneLoadPerList` | `LoadedOnce` | |
| `WorkersOutliveSessions` | `WorkerOutlivesSession` | `BalanceRefreshQueueProofs` |
| `TransfersReachTheSnapshot` | `TransferReflected`, if `NodeKeepsUp` | |
| `PipelineTypeCorrect` | `TypeOK` | `SessionPipelineProofs` |
| `PermitsNeverLeak` | `PermitsAccounted` | |
| `NothingIsForgotten` | `NothingForgotten`, if `NodeKeepsUp` | |

### Assumptions

The named `ASSUME`s of the modules, which TLC evaluates on every instance: bounds are
natural numbers and capacities, chunks and TTLs positive; `Owner`, `ClientId` and
`Conn` finite, because connections and sessions are counted; `Address` finite, because
a token list's size is; at least one `Token`; `Nil` and the like distinct from real
values.

Three theorems need a hypothesis that is not about the model's bounds, and are false
without it:

* `CaughtUpClientsAgree` assumes `LoneProducer`. With both watcher tasks `feed_race`
  shows the counterexample. `NoDiffLost` needs no such hypothesis: no diff is lost, the
  two may only arrive in the wrong order.
* `TransfersReachTheSnapshot` and `NothingIsForgotten` assume `NodeKeepsUp`: the node
  never omits the block number of a log, or does not answer behind its own head. One
  request without a block number makes the whole batch read at latest, and on a lagging
  node that is before the block another request of the batch was pinned to (section 6).

### The registry, in layers

1. `ShapeInv`: types, and which fields of a handler are set at which program counter.
   `TypeOK` alone is not inductive: `subscriptions[streams[c].session]` only makes
   sense when an attached stream has a session.
2. `CountInv`: `ClientsAccounted`, `AttachedStaysRegistered` and `IdleStamped` hold only
   together. A sweep spares attached connections because a stamp means a count of zero
   (`IdleStamped`), and a count of zero means nobody attached (`ClientsAccounted`); the
   key-based decrement is right because the key still names the same object
   (`AttachedStaysRegistered`). `AbsentIsBlank` says that an absent session carries no
   count, so that a re-created one starts clean. The cardinality steps are
   `SubscribeAttaches` and `DetachOne`.
3. `IdleClock`: `IdleBound` is not inductive because a clock of `2 * SessionTtl` could
   still tick. The invariant bounds the clock against the time since the last sweep,
   `idle_since <= SessionTtl + elapsed`: whatever a sweep leaves is at most a TTL old.
4. `IsolationInv`: `WatcherInv` (`NoLeakedWatchers`, `SpawnedOnce` and
   `SpawnIsReachable`: a handler about to spawn holds a subscription that is registered
   or cancelled) with `DeviceIsolation`, because recycling an identity is safe only
   when nothing refers to it.
5. `OwnerCap` is inductive, as only `CreateSession` registers anything and it counts
   under the same lock (`OnlyCreateRegisters`, `CreateAddsOne`). The refinement maps
   registered sessions and attached connections; its steps use layers 1 and 2, since a
   sweep is an `Expire` of unattached sessions only by `CountInv`.

### The feed

`FeedInv` adds to the types that answers under way are true at their block (`AnswersTrue`)
and that no label is of a future block: `SnapshotTrue` is about what was merged and says
nothing of an answer still held. The lemmas
`MergeWrites`, `DiffSays` and `DiffIsTheChange` relate the merge to its diff, and
`EveryChangeTold` follows step by step. For `Converged` this is not enough, as a client
may have been told the right amount and then an older one. `LastWordIsTrue` speaks of
the last event in the receiver that names a token, and `DiffsCurrent` says that a diff
not yet sent still agrees with the snapshot; the latter is what a second producer breaks.

What both producers together still promise needs no hypothesis. `RealInv` follows an
amount from the merge through diff and receiver to the client: whoever holds it, the owner
had it at some block (`ViewsReal`), and a client never drops a token it was told. With
`EveryChangeTold` this gives `OutOfOrderAtWorst`: a client that has received all that was
sent has been told each cached amount, and if it now holds another, that is an older true
one. The race of `feed_race` is therefore the only way in which `Converged` fails.

### The dispatcher

`CursorInv` describes the bisect stack of each source (ascending ranges without gap or
overlap that end with the chunk, `StackInv`) and its `Frontier`: the lowest block not
settled yet. Every block from the first head up to the frontier is settled and none
beyond it is (`FrontierInv`); between chunks the frontier is the cursor's successor.
`NoSilentGap` and `NothingRefetched` are the two halves of that statement, `OldestFirst`
needs that nothing sent on lies at or beyond the frontier (`TransferInv`), and
`CaughtUpWhenIdle` that a head not dropped is behind the cursor, in the plan or in the
channel (`HeadInv`). `StackPop` and `HalvesPartition` are the
facts about `fetch_range_with_bisect`, `FetchFromBounds` and `ChunkBounds` those about
`plan_fetch`.

`LogCursor` is the same said as behaviour: a source reads on from its next block or gives
that block up, blocks are passed over only for all sources at once and between two
advances, and the cursor follows to where all sources are. The refinement maps a source's
next block to its `Frontier`. Receiving heads is a `Begin`, a `Skip` or, when the plan
starts right after the cursor, a stutter; a bisection stutters because it leaves the
frontier where it was (`RejectedStays`); `ChunkDone` is an `Advance`. That nothing is ever
settled twice, which `NothingRefetched` says of the stacks, is then visible in the steps.

### The token lists

`FetchInv` is stated per list (`ListSound`: how old an entry may be compared with when its
version was replaced) and per handler (`LookupSound`: each version it got lies between the
oldest one fresh when it came and the one published now). It is needed because
`AcceptedIsComplete` speaks of the end of a request only. A load never coexists with a
hit of the same list, and a list has one loader (`OneLoader`), which is why an abandoned
load can be handed on without a second one.

### The session's tasks

`QueueInv` says what each task may hold at each step: requests are genuine (for a block
that exists), the batch a worker calls with is not empty, the listener's handles are in
one place, and who leaves, leaves a cancelled session. `AllReflected` restates
`TransferReflected` as a relay: the block is in the snapshot, excused, or with one
of listener, channel, worker, result channel and receiver (`Way`). Each action is then
shown to hand it on. The step that coalesces requests rests on `CoalesceServes`: whatever
the buffer, every request is answered by a batch entry at its block or later, or at
latest.

`PipelineInv` adds the updater. `NothingForgotten` asks for the higher of two blocks: the
transfer that is due, which `AllReflected` covers, and the one a full read would reach,
which `AllPromised` covers. The latter is stronger than the property in one place. Only
the tokens a PUT *adds* may rely on its notification: the PUT's handler can be dropped
between its two locks, and what was watched before must then still be promised by
somebody else.

### Recursion

The library's induction theorems take an operator and cannot be used. Instead
`Extrema` derives from the well-foundedness of `<` that every non-empty set of naturals
has a least element. An induction is then a proof about the least counterexample:
`Min` and `Max` choose something (`MinIsLeast`, `MaxIsGreatest`), the recursive function of
`coalesce_by_token` exists (`FoldingExists`) and serves all its requests.

### Model-checked only

Liveness, because fairness and ENABLED are outside the prover: `IdleSessionReaped`,
`OrphanedStreamEnds`, `EventuallyFresh`, `LagHeals`, `StalledStreamReplaced`,
`ShutdownDrains`, `FanoutEnds`, `RemovedDrains`, `WatchedIsRead`, `CancelledStops` and
`RequestEnds`. The table of `EvmNetwork` is an assumption about literals that TLC evaluates.

## 5. Not modelled

* Classifying addresses, DNS and redirects in the URL guard: they decide whether a load
  succeeds, and `TokenListFetcher` lets every load fail. HTTP and JSON are an outcome too.
* Extractors and error bodies: stateless parsing and formatting.
* Retry delays, jitter and the classification of RPC errors: a call is answered, in part
  or whole, is retried a bounded number of times, or fails for good.
* The wall-clock lengths of debounce and interval: a timer may fire at any time.
* Reorgs in `BalanceFeed`: the merge guard orders by block number alone, so a balance
  of a dropped block stays until a higher block is read.
* The 10 s limit on draining; metrics, tracing, configuration, generated bindings.

## 6. Where the code and its documentation disagree

One is a run that TLC refutes; `PROJECT.json` quotes the lines.

* `feed_race`: the snapshot lock is released before the broadcast, so two producers can
  broadcast in the other order than they merged, and a client ends with the older
  balance.

Further divergences met on the way, without a run:

* An SSE handler dropped while it awaits the seed snapshot has already been counted and
  is never discounted, so its session is never reaped. `ClientsAccounted` makes room
  for it with `leaked`.
* After a terminal RPC error the cancelled session stays registered, and the
  reconnecting client is attached to it without watchers.
* An answer in flight during a PUT brings an evicted token back into the snapshot.
* The cursor passes a block whose logs were lost; no later head fetches it again, where
  the dispatcher's comments promise that the gap is backfilled.
* `subscription.rs:55-58` and `snapshot_updater.rs:111-112` say that the notifier fires
  when the BlockWatcher reconnects. It is emitted by `set_watched_tokens` alone, and a
  down and up that the updater sees as one change with the value true causes no read;
  balances missed meanwhile wait for the backfill or the interval.
* `session_manager.rs:275` says that a slow queue must not delay the others. It does not
  within one event, but `join_all` keeps the listener from the next one.
* `balance_refresh_queue.rs:156-157` argues that latest is at least as recent as any
  pinned block; on a lagging node it is not.
* PUT calls the same `upsert` as POST and creates a missing session, where
  `api/update_session.rs:41` documents a 404. This is why the model has one request
  handler for both methods.
* A session created by a request in flight after `close_sse_connections` has cleared the
  map is not told of the shutdown; its stream stays open until the process exits.
* A PUT handler dropped between the two locks of `set_watched_tokens` swaps the set
  without evicting (`PutDropped`), and the same PUT again returns early.
* Chunks are described as running in parallel over `FuturesUnordered` and are read one
  after another.
* An error event of code 500 is documented as terminal and the stream goes on.
* Heads drained together with the very first one are not backfilled before it (`first`
  marks where the guarantee of `NoSilentGap` starts).

## 7. Plan

Done: `SubscriptionManager` with its abstract store, `BalanceFeed`, `BlockWatcher`,
`EventDispatcher`, the session's task pipeline (`Subscription`, `BalanceRefreshQueue`,
`SnapshotUpdater`, `SessionPipeline`) and `TokenListFetcher`; the safety properties of
all of them as theorems, with what two producers still promise a client and the abstract
cursor that the dispatcher implements.

Every theorem is listed in section 4. What remains model-checked only is liveness.

Modelling left aside: reorgs in the feed and the 10 s limit of the drain.
