--------------------------- MODULE EventDispatcher ---------------------------
(***************************************************************************)
(* The event dispatcher (src/src/services/event_dispatcher.rs) fed by the  *)
(* BlockWatcher and feeding the transfer listener.  For each batch of      *)
(* queued heads it plans one span of blocks, fetches it chunk by chunk for *)
(* two log sources in parallel, bisects what a provider rejects, and moves *)
(* its cursor.                                                             *)
(*                                                                         *)
(* The plan's ranges are contiguous and end at the head, so the ones left  *)
(* are given by the next block to fetch and the head.  A log stands for    *)
(* all logs of its block and source that pass the handlers' filters.       *)
(***************************************************************************)
EXTENDS BlockWatcher, FiniteSetsExt, SequencesExt

CONSTANTS
    Source,             \* the log sources, a subset of {"erc20", "weth9"}
    MaxBlockLag,        \* EvmNetwork::max_block_lag, also the backfill cap
    ChunkBlocks,        \* EvmNetwork::backfill_chunk_blocks
    TransferCap         \* capacity of the transfer channel

ASSUME DispatcherAssumption ==
    /\ Source \subseteq {"erc20", "weth9"}
    /\ MaxBlockLag \in Nat \ {0}
    /\ ChunkBlocks \in 1 .. MaxBlockLag
    /\ TransferCap \in Nat \ {0}

VARIABLES
    dispatcher,             \* where `run` is
    is_active,
    latest_processed_block, \* the cursor, 0 before the first head
    plan,                   \* [next, head]: the ranges still to fetch
    pending,                \* per source: the stack of fetch_range_with_bisect
    batch,                  \* per source: blocks with logs still to be sent on
    transfers,              \* the channel to the transfer listener
    listener,               \* the listener's end of that channel
    first,                  \* history: the first head processed, 0 before
    handled,                \* history, per source: blocks whose logs were fetched
    lost,                   \* history, per source: blocks given up
    skipped                 \* history: blocks beyond the backfill cap

work == <<plan, pending, batch>>
history == <<first, handled, lost, skipped>>
dispatcherVars == <<dispatcher, is_active, latest_processed_block, work, transfers,
                    listener, history>>
vars == <<chainVars, watcherVars, shutdown, dispatcherVars>>

Block == 1 .. MaxBlock
NoPlan == [next |-> 0, head |-> 0]
Interval == [from : Block, to : Block]
Blocks(r) == r.from .. r.to

\* Shape of the state; both channels keep to their capacity.
TypeOK ==
    /\ WatcherTypeOK
    /\ dispatcher \in {"starting", "idle", "fetch", "exited"}
    /\ is_active \in BOOLEAN
    /\ latest_processed_block \in 0 .. MaxBlock
    /\ plan \in [next : 0 .. MaxBlock, head : 0 .. MaxBlock]
    /\ pending \in [Source -> Seq(Interval)]
    /\ batch \in [Source -> SUBSET Block]
    /\ transfers \in Seq([source : Source, block : Block])
    /\ Len(transfers) <= TransferCap
    /\ listener \in {"running", "gone"}
    /\ first \in 0 .. MaxBlock
    /\ handled \in [Source -> SUBSET Block]
    /\ lost \in [Source -> SUBSET Block]
    /\ skipped \subseteq Block

Init ==
    /\ WatcherInit
    /\ dispatcher = "starting"
    /\ is_active = FALSE
    /\ latest_processed_block = 0
    /\ plan = NoPlan
    /\ pending = [src \in Source |-> <<>>]
    /\ batch = [src \in Source |-> {}]
    /\ transfers = <<>>
    /\ listener = "running"
    /\ first = 0
    /\ handled = [src \in Source |-> {}]
    /\ lost = [src \in Source |-> {}]
    /\ skipped = {}

-----------------------------------------------------------------------------
(* plan_fetch and drain_queued_heads.                                      *)

\* u64::saturating_sub
SaturatingSub(a, b) == IF a >= b THEN a - b ELSE 0

IsStale(incoming) == latest_processed_block # 0 /\ incoming <= latest_processed_block

\* Mutant: the span starts at the cursor, not after it.
FetchFromCursor(incoming) ==
    IF latest_processed_block = 0
    THEN incoming
    ELSE Max({latest_processed_block, SaturatingSub(incoming, MaxBlockLag) + 1})

\* The first block of the plan: after the cursor, at most max_backfill blocks back.
FetchFrom(incoming) ==
    IF latest_processed_block = 0
    THEN incoming
    ELSE Max({latest_processed_block + 1, SaturatingSub(incoming, MaxBlockLag) + 1})

\* skipped_blocks, by name rather than by number.
SkippedBlocks(incoming) ==
    IF latest_processed_block = 0
    THEN {}
    ELSE latest_processed_block + 1 .. FetchFrom(incoming) - 1

\* The chunk of the plan that starts at `from`.
Chunk(from, head) == [from |-> from, to |-> Min({head, from + ChunkBlocks - 1})]

\* Mutant: the drained heads are forgotten.
NewestHeadFirst == Head(blocks)

\* drain_queued_heads: everything queued folds into the newest head.
NewestHead == Max(ToSet(blocks))

StartChunk(from, head) ==
    /\ plan' = [next |-> from, head |-> head]
    /\ pending' = [src \in Source |-> <<Chunk(from, head)>>]

-----------------------------------------------------------------------------
(* run.                                                                    *)

Start ==
    /\ dispatcher = "starting"
    /\ dispatcher' = "idle"
    /\ is_active' = TRUE
    /\ UNCHANGED <<chainVars, watcherVars, shutdown, latest_processed_block, work,
                   transfers, listener, history>>

\* A head is received and the channel drained; a stale head is dropped.
ReceiveHeads ==
    LET incoming == NewestHead IN
    /\ dispatcher = "idle"
    /\ blocks # <<>>
    /\ blocks' = <<>>
    /\ \/ IsStale(incoming) /\ UNCHANGED <<dispatcher, plan, pending, first, skipped>>
       \/ /\ ~IsStale(incoming)
          /\ dispatcher' = "fetch"
          /\ StartChunk(FetchFrom(incoming), incoming)
          /\ skipped' = skipped \cup SkippedBlocks(incoming)
          /\ first' = IF first = 0 THEN incoming ELSE first
    /\ UNCHANGED <<chainVars, wire, ws, connected, on_connect, latest_block, dropped,
                   shutdown, is_active, latest_processed_block, batch, transfers,
                   listener, handled, lost>>

\* Mutant: a chunk with a loss ends the cycle and leaves the cursor where it was.
ChunkDoneStopsAtLoss ==
    LET chunk == Chunk(plan.next, plan.head)
        clean == \A src \in Source : Blocks(chunk) \cap lost[src] = {}
    IN
    /\ dispatcher = "fetch"
    /\ \A src \in Source : pending[src] = <<>> /\ batch[src] = {}
    /\ latest_processed_block' = IF clean THEN chunk.to ELSE latest_processed_block
    /\ \/ clean /\ chunk.to < plan.head /\ StartChunk(chunk.to + 1, plan.head)
          /\ UNCHANGED dispatcher
       \/ ~(clean /\ chunk.to < plan.head) /\ plan' = NoPlan /\ dispatcher' = "idle"
          /\ UNCHANGED pending
    /\ UNCHANGED <<chainVars, watcherVars, shutdown, is_active, batch, transfers, listener,
                   history>>

\* Both sources are through with the chunk: the cursor moves, whatever was lost.
ChunkDone ==
    LET to == Chunk(plan.next, plan.head).to IN
    /\ dispatcher = "fetch"
    /\ \A src \in Source : pending[src] = <<>> /\ batch[src] = {}
    /\ latest_processed_block' = to
    /\ \/ to < plan.head /\ StartChunk(to + 1, plan.head) /\ UNCHANGED dispatcher
       \/ to = plan.head /\ plan' = NoPlan /\ dispatcher' = "idle" /\ UNCHANGED pending
    /\ UNCHANGED <<chainVars, watcherVars, shutdown, is_active, batch, transfers, listener,
                   history>>

\* The token is only looked at between two cycles.
DispatcherCancelled ==
    /\ shutdown
    /\ dispatcher = "idle"
    /\ dispatcher' = "exited"
    /\ is_active' = FALSE
    /\ UNCHANGED <<chainVars, watcherVars, shutdown, latest_processed_block, work,
                   transfers, listener, history>>

-----------------------------------------------------------------------------
(* fetch_range_with_bisect, for one source.                                *)

\* No range is fetched before the logs of the one before it have been sent on.
Fetching(src) == pending[src] # <<>> /\ batch[src] = {}

\* eth_getLogs answers; some of the blocks have logs worth sending on.
RangeFetched(src) ==
    LET range == Head(pending[src]) IN
    /\ Fetching(src)
    /\ pending' = [pending EXCEPT ![src] = Tail(@)]
    /\ handled' = [handled EXCEPT ![src] = @ \cup Blocks(range)]
    /\ \E logs \in SUBSET Blocks(range) : batch' = [batch EXCEPT ![src] = logs]
    /\ UNCHANGED <<chainVars, watcherVars, shutdown, dispatcher, is_active,
                   latest_processed_block, plan, transfers, listener, first, lost, skipped>>

\* Mutant: the newer half comes first.
HalvesNewestFirst(range) ==
    LET mid == range.from + (range.to - range.from) \div 2 IN
    <<[from |-> mid + 1, to |-> range.to], [from |-> range.from, to |-> mid]>>

\* Mutant: the block in the middle falls between the halves.
HalvesWithoutMiddle(range) ==
    LET mid == range.from + (range.to - range.from) \div 2 IN
    <<[from |-> range.from, to |-> Max({range.from, mid - 1})],
      [from |-> mid + 1, to |-> range.to]>>

\* A rejected range is split; the older half is on top of the stack.
Halves(range) ==
    LET mid == range.from + (range.to - range.from) \div 2 IN
    <<[from |-> range.from, to |-> mid], [from |-> mid + 1, to |-> range.to]>>

RangeRejected(src) ==
    LET range == Head(pending[src]) IN
    /\ Fetching(src)
    /\ range.from < range.to
    /\ pending' = [pending EXCEPT ![src] = Halves(range) \o Tail(@)]
    /\ UNCHANGED <<chainVars, watcherVars, shutdown, dispatcher, is_active,
                   latest_processed_block, plan, batch, transfers, listener, history>>

\* A single block fails after all retries: its logs are lost.
BlockLost(src) ==
    LET range == Head(pending[src]) IN
    /\ Fetching(src)
    /\ range.from = range.to
    /\ pending' = [pending EXCEPT ![src] = Tail(@)]
    /\ lost' = [lost EXCEPT ![src] = @ \cup {range.from}]
    /\ UNCHANGED <<chainVars, watcherVars, shutdown, dispatcher, is_active,
                   latest_processed_block, plan, batch, transfers, listener, first,
                   handled, skipped>>

\* on_erc20_log, on_weth9_log: wait for room; a dropped receiver fails the send,
\* which is ignored.  Logs leave in the order of the answer, and an answer of
\* eth_getLogs is taken to be in block order.
SendTransfer(src) ==
    /\ batch[src] # {}
    /\ LET block == Min(batch[src]) IN
       /\ batch' = [batch EXCEPT ![src] = @ \ {block}]
       /\ \/ /\ listener = "running" /\ Len(transfers) < TransferCap
             /\ transfers' = Append(transfers, [source |-> src, block |-> block])
          \/ listener = "gone" /\ UNCHANGED transfers
    /\ UNCHANGED <<chainVars, watcherVars, shutdown, dispatcher, is_active,
                   latest_processed_block, plan, pending, listener, history>>

-----------------------------------------------------------------------------
(* The other end, and the end of the process.                              *)

\* The transfer listener takes the next event and routes it.
TakeTransfer ==
    /\ listener = "running" /\ transfers # <<>>
    /\ transfers' = Tail(transfers)
    /\ UNCHANGED <<chainVars, watcherVars, shutdown, dispatcher, is_active,
                   latest_processed_block, work, listener, history>>

\* The listener's task ends and drops the receiver with what is in it.
ListenerCancelled ==
    /\ shutdown
    /\ listener = "running"
    /\ listener' = "gone"
    /\ transfers' = <<>>
    /\ UNCHANGED <<chainVars, watcherVars, shutdown, dispatcher, is_active,
                   latest_processed_block, work, history>>

ShutdownSignal ==
    /\ ~shutdown
    /\ shutdown' = TRUE
    /\ UNCHANGED <<chainVars, watcherVars, dispatcherVars>>

Drained == dispatcher = "exited" /\ ws = "exited" /\ listener = "gone"

Terminated == Drained /\ UNCHANGED vars

-----------------------------------------------------------------------------
SourceStep(src) ==
    RangeFetched(src) \/ RangeRejected(src) \/ BlockLost(src) \/ SendTransfer(src)

Next ==
    \/ WatcherNext /\ UNCHANGED dispatcherVars
    \/ Start
    \/ ReceiveHeads
    \/ \E src \in Source : SourceStep(src)
    \/ ChunkDone
    \/ DispatcherCancelled
    \/ TakeTransfer
    \/ ListenerCancelled
    \/ ShutdownSignal
    \/ Terminated

Spec == Init /\ [][Next]_vars

\* Every ready task is polled, every RPC ends (the client's retries are bounded).
\* The token races other branches of a select!, which picks at random among the
\* ready ones: strong fairness.
Fairness ==
    /\ WF_vars(SubscribeBlocks /\ UNCHANGED dispatcherVars)
    /\ WF_vars((RecordConnected \/ StallTimeout) /\ UNCHANGED dispatcherVars)
    /\ WF_vars(ConfirmStall /\ UNCHANGED dispatcherVars)
    /\ WF_vars(Resubscribe /\ UNCHANGED dispatcherVars)
    /\ SF_vars(WatcherCancelled /\ UNCHANGED dispatcherVars)
    /\ WF_vars(Start)
    /\ WF_vars(ReceiveHeads)
    /\ WF_vars(ChunkDone)
    /\ SF_vars(DispatcherCancelled)
    /\ \A src \in Source : WF_vars(SourceStep(src))
    /\ WF_vars(TakeTransfer)
    /\ SF_vars(ListenerCancelled)

FairSpec == Spec /\ Fairness

-----------------------------------------------------------------------------
(* Safety.                                                                 *)

\* No block goes missing unnoticed: from the first head on, every block up to the
\* cursor was fetched, given up after a failed single-block fetch, or skipped
\* beyond the cap, for every source, whatever heads were missed, reordered,
\* dropped by the channel or reorged.
NoSilentGap ==
    first # 0 =>
        \A src \in Source :
            first .. latest_processed_block \subseteq handled[src] \cup lost[src] \cup skipped

\* No block is fetched twice: what waits on a bisect stack has not been resolved.
NothingRefetched ==
    \A src \in Source : \A range \in ToSet(pending[src]) :
        Blocks(range) \cap (handled[src] \cup lost[src] \cup skipped) = {}

\* "preserving the pre-bisect log order": the events of one source leave in block
\* order, through bisects, chunks and successive plans.
OldestFirst ==
    \A i, j \in DOMAIN transfers :
        i < j /\ transfers[i].source = transfers[j].source =>
            transfers[i].block < transfers[j].block

\* With nothing queued and nothing in flight the cursor is at the watcher's head,
\* unless the channel overflowed: an idle dispatcher is never the cause of lag.
CaughtUpWhenIdle ==
    dispatcher = "idle" /\ blocks = <<>> /\ ~dropped =>
        latest_block <= latest_processed_block

-----------------------------------------------------------------------------
(* Liveness, under FairSpec.                                               *)

\* Erc20TransferEventDispatcher::health_status.
DispatcherHealthy ==
    /\ is_active
    /\ \/ latest_block = 0
       \/ latest_processed_block = 0
       \/ SaturatingSub(latest_block, latest_processed_block) <= MaxBlockLag

\* Lag heals: with heads no longer coming faster than cycles end, a lagging
\* dispatcher becomes healthy again unless the newest head was dropped.
LagHeals == ~DispatcherHealthy ~> (DispatcherHealthy \/ dropped \/ shutdown)

\* A stream that silently stopped is replaced while the chain is ahead of it.
StalledStreamReplaced ==
    (ws = "streaming" /\ wire = <<>> /\ latest_block # 0 /\ tip > latest_block) ~>
        (ws \in {"down", "exited"} \/ wire # <<>> \/ tip <= latest_block)

\* Shutdown drains: after the signal all three tasks return, even if the listener
\* is gone before the dispatcher has sent its last event.
ShutdownDrains == shutdown ~> Drained

=============================================================================
