---------------------------- MODULE BlockWatcher ----------------------------
(***************************************************************************)
(* The newHeads consumer (src/src/services/block_watcher.rs) and the       *)
(* reconnecting socket under it (src/src/ws_connection/mod.rs).            *)
(*                                                                         *)
(* A head the chain announces may never reach the socket.  When no header  *)
(* arrives in time, the watcher asks an HTTP node, which may lag, whether  *)
(* the chain is idle or the stream is dead.  Accepted headers go into a    *)
(* bounded channel for the event dispatcher.                               *)
(***************************************************************************)
EXTENDS Naturals, Sequences

CONSTANTS
    MaxBlock,           \* bound on the chain's height
    MaxReorgs,          \* bound on one-block reorgs
    MaxHttpLag,         \* how far behind the head the HTTP node may answer
    BlockChannelCap     \* BLOCK_CHANNEL_CAP

ASSUME WatcherAssumption ==
    /\ MaxBlock \in Nat \ {0} /\ MaxReorgs \in Nat /\ MaxHttpLag \in Nat
    /\ BlockChannelCap \in Nat \ {0}

VARIABLES
    tip,            \* the chain's head (external)
    reorgs,         \* reorgs so far (external)
    wire,           \* headers on the socket, not read yet (external)
    ws,             \* where the watcher's task is
    connected,      \* the health canary
    on_connect,     \* the value of the reconnect watch channel
    latest_block,   \* newest header accepted, 0 before the first
    blocks,         \* the channel to the dispatcher
    dropped,        \* history: the newest accepted header overflowed the channel
    shutdown        \* the process-wide cancellation token

chainVars == <<tip, reorgs>>
watcherVars == <<wire, ws, connected, on_connect, latest_block, blocks, dropped>>

\* Shape of the watcher's part of the state.
WatcherTypeOK ==
    /\ tip \in 1 .. MaxBlock
    /\ reorgs \in 0 .. MaxReorgs
    /\ wire \in Seq(1 .. MaxBlock)
    /\ ws \in {"connecting", "streaming", "checking", "down", "exited"}
    /\ {connected, on_connect, dropped, shutdown} \subseteq BOOLEAN
    /\ latest_block \in 0 .. MaxBlock
    /\ blocks \in Seq(1 .. MaxBlock) /\ Len(blocks) <= BlockChannelCap

WatcherInit ==
    /\ tip = 1 /\ reorgs = 0
    /\ wire = <<>> /\ blocks = <<>>
    /\ ws = "connecting"
    /\ connected = FALSE /\ on_connect = FALSE
    /\ latest_block = 0
    /\ dropped = FALSE
    /\ shutdown = FALSE

-----------------------------------------------------------------------------
\* A new canonical head, one higher or, after a reorg, no higher than before.
\* The node may fail to announce it to the subscriber.
NewHead ==
    /\ \/ tip < MaxBlock /\ tip' = tip + 1 /\ UNCHANGED reorgs
       \/ /\ reorgs < MaxReorgs /\ reorgs' = reorgs + 1
          /\ tip' \in {n \in 1 .. tip : n + 1 >= tip}
    /\ \/ ws \in {"streaming", "checking"} /\ wire' = Append(wire, tip')
       \/ UNCHANGED wire
    /\ UNCHANGED <<ws, connected, on_connect, latest_block, blocks, dropped, shutdown>>

\* subscribe_blocks succeeds, after however many attempts.
SubscribeBlocks ==
    /\ ws = "connecting"
    /\ ws' = "streaming"
    /\ on_connect' = TRUE
    /\ UNCHANGED <<chainVars, wire, connected, latest_block, blocks, dropped, shutdown>>

\* Mutant: the channel has no limit.
RecordConnectedUnbounded ==
    /\ ws = "streaming" /\ wire # <<>>
    /\ wire' = Tail(wire)
    /\ connected' = TRUE
    /\ latest_block' = Head(wire)
    /\ blocks' = Append(blocks, Head(wire))
    /\ UNCHANGED <<chainVars, ws, on_connect, dropped, shutdown>>

\* record_connected: `try_send` drops the header when the channel is full.
RecordConnected ==
    /\ ws = "streaming" /\ wire # <<>>
    /\ wire' = Tail(wire)
    /\ connected' = TRUE
    /\ latest_block' = Head(wire)
    /\ dropped' = (Len(blocks) = BlockChannelCap)
    /\ blocks' = IF dropped' THEN blocks ELSE Append(blocks, Head(wire))
    /\ UNCHANGED <<chainVars, ws, on_connect, shutdown>>

\* consume_until_disconnect returned; the socket goes with its subscription.
Disconnect(next) ==
    /\ ws' = next
    /\ connected' = FALSE
    /\ on_connect' = FALSE
    /\ wire' = <<>>
    /\ UNCHANGED <<chainVars, latest_block, blocks, dropped, shutdown>>

\* The server closes the subscription.
StreamTerminated == ws = "streaming" /\ Disconnect("down")

\* No header within stall_timeout.  Without a baseline there is nothing to check.
StallTimeout ==
    /\ ws = "streaming" /\ wire = <<>>
    /\ \/ latest_block = 0 /\ Disconnect("down")
       \/ /\ latest_block # 0
          /\ ws' = "checking"
          /\ UNCHANGED <<chainVars, wire, connected, on_connect, latest_block, blocks,
                         dropped, shutdown>>

ChainIdle ==
    /\ ws' = "streaming"
    /\ connected' = TRUE
    /\ UNCHANGED <<chainVars, wire, on_connect, latest_block, blocks, dropped, shutdown>>

\* Mutant: any answer of the HTTP node counts as proof of life.
ConfirmStallAlwaysIdle ==
    /\ ws = "checking"
    /\ ChainIdle

\* confirm_stall and its verdict; the check is not interrupted by the token.
ConfirmStall ==
    /\ ws = "checking"
    /\ \E http_head \in {h \in 1 .. tip : h + MaxHttpLag >= tip} :
          \/ http_head <= latest_block /\ ChainIdle
          \/ http_head > latest_block /\ Disconnect("down")

\* The check fails or times out.
StallUnconfirmed == ws = "checking" /\ Disconnect("down")

\* POST_DISCONNECT_DELAY is over.
Resubscribe ==
    /\ ws = "down" /\ ~shutdown
    /\ ws' = "connecting"
    /\ UNCHANGED <<chainVars, wire, connected, on_connect, latest_block, blocks, dropped,
                   shutdown>>

\* Mutant: the consume loop does not look at the token.
WatcherCancelledOutside ==
    /\ shutdown
    /\ ws \in {"connecting", "down"}
    /\ Disconnect("exited")

\* The token is seen while connecting, reading or sleeping.
WatcherCancelled ==
    /\ shutdown
    /\ ws \in {"connecting", "streaming", "down"}
    /\ Disconnect("exited")

WatcherNext ==
    \/ NewHead
    \/ SubscribeBlocks
    \/ RecordConnected
    \/ StreamTerminated
    \/ StallTimeout
    \/ ConfirmStall
    \/ StallUnconfirmed
    \/ Resubscribe
    \/ WatcherCancelled
=============================================================================
