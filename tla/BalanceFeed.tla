----------------------------- MODULE BalanceFeed -----------------------------
(***************************************************************************)
(* How balances travel from the chain to the SSE clients of one session:   *)
(*                                                                         *)
(*   - the snapshot updater ("snapshot") and the refresh-queue receiver    *)
(*     ("queue") read balances by multicall, merge them into the shared    *)
(*     snapshot and broadcast the diff (snapshot_updater.rs);              *)
(*   - POST/PUT replaces the watched tokens and evicts (subscription.rs);  *)
(*   - clients subscribe, are seeded with the snapshot, then apply diffs;  *)
(*     a client that lags behind the broadcast ring is closed              *)
(*     (session_manager.rs).                                               *)
(*                                                                         *)
(* Merging and broadcasting are separate steps: the snapshot lock is       *)
(* released in between.  When the two producers read, and how the queue    *)
(* picks its tokens, is left open here; the queue has one batch in flight, *)
(* from the multicall to the broadcast.  The chain has no reorgs.          *)
(***************************************************************************)
EXTENDS BalanceSnapshot, Sequences, FiniteSets

CONSTANTS
    Token,          \* token contracts
    WatchList,      \* the watched sets requests may ask for
    Amount,         \* balances
    Producer,       \* the watcher tasks in play, a subset of {"snapshot", "queue"}
    Client,         \* SSE connections
    ChunkSize,      \* MULTICALL_CHUNK_SIZE
    Capacity,       \* BROADCAST_CHANNEL_CAPACITY
    MaxBlock,       \* bound on the chain's length
    MaxLag,         \* how many blocks behind the head a node may answer
    MaxFaults       \* bound on failed calls and dropped PUT handlers

ASSUME FeedAssumption ==
    /\ WatchList \subseteq SUBSET Token
    /\ Producer \subseteq {"snapshot", "queue"}
    /\ ChunkSize \in Nat \ {0} /\ Capacity \in Nat \ {0}
    /\ MaxBlock \in Nat \ {0} /\ MaxLag \in Nat /\ MaxFaults \in Nat

VARIABLES
    chain,      \* balances of the owner at each block (external)
    watched,    \* Subscription.tokens
    snapshot,   \* Subscription.balances_snapshot
    put,        \* "evicting" while set_watched_tokens holds the tokens lock
    cancelled,  \* the session's cancellation token
    task,       \* each producer: step, tokens left to read, last answer, diff
    client,     \* each connection: step, broadcast receiver, lagged flag
    view,       \* what each client has been told last, per token (external)
    told,       \* history: every (token, amount) told since it was seeded
    faults      \* faults so far

feed == <<watched, snapshot, put, cancelled>>
vars == <<chain, feed, task, client, view, told, faults>>

Empty == [t \in {} |-> 0]
Update(balances) == [kind |-> "update", balances |-> balances]
Error == [kind |-> "error", balances |-> Empty]

PartialMap(S, T) == UNION {[D -> T] : D \in SUBSET S}
Balances == PartialMap(Token, Amount)
Event == [kind : {"update", "error"}, balances : Balances]

IdleTask == [pc |-> "idle", todo |-> {}, answer |-> Empty, block |-> 0, diff |-> Empty]
Offline == [pc |-> "off", rx |-> <<>>, lagged |-> FALSE]

head == Len(chain)

\* Shape of the state.
TypeOK ==
    /\ chain \in Seq([Token -> Amount]) /\ head \in 1 .. MaxBlock
    /\ watched \in WatchList
    /\ snapshot \in PartialMap(Token, [amount : Amount, block_number : 1 .. MaxBlock])
    /\ put \in {"idle", "evicting"}
    /\ cancelled \in BOOLEAN
    /\ task \in [Producer -> [pc : {"idle", "fetch", "merge", "send", "stopped"},
                              todo : SUBSET Token, answer : Balances,
                              block : 0 .. MaxBlock, diff : Balances]]
    /\ client \in [Client -> [pc : {"off", "subscribed", "streaming", "closed"},
                              rx : Seq(Event), lagged : BOOLEAN]]
    /\ \A c \in Client : Len(client[c].rx) <= Capacity
    /\ view \in [Client -> Balances]
    /\ told \in [Client -> SUBSET (Token \X Amount)]
    /\ faults \in 0 .. MaxFaults

Init ==
    /\ \E b \in [Token -> Amount] : chain = <<b>>
    /\ watched \in WatchList
    /\ snapshot = Empty
    /\ put = "idle"
    /\ cancelled = FALSE
    /\ task = [p \in Producer |-> IdleTask]
    /\ client = [c \in Client |-> Offline]
    /\ view = [c \in Client |-> Empty]
    /\ told = [c \in Client |-> {}]
    /\ faults = 0

\* A new block; any subset of the owner's balances may change in it.
NewBlock ==
    /\ head < MaxBlock
    /\ \E b \in [Token -> Amount] : chain' = Append(chain, b)
    /\ UNCHANGED <<feed, task, client, view, told, faults>>

Fault == faults < MaxFaults /\ faults' = faults + 1

-----------------------------------------------------------------------------
(* Subscription::set_watched_tokens and send_event.                        *)

\* The tokens lock is taken and the set swapped.  An equal set returns early and
\* changes nothing.
SetWatchedTokens(new) ==
    /\ put = "idle"
    /\ watched # new
    /\ watched' = new
    /\ put' = "evicting"
    /\ UNCHANGED <<chain, snapshot, cancelled, task, client, view, told, faults>>

\* The snapshot lock is taken, dropped tokens are evicted, both locks released.
EvictUnwatched ==
    /\ put = "evicting"
    /\ snapshot' = Retain(snapshot, watched)
    /\ put' = "idle"
    /\ UNCHANGED <<chain, watched, cancelled, task, client, view, told, faults>>

\* The client of the PUT disconnects while it waits for the snapshot lock.
PutDropped ==
    /\ put = "evicting"
    /\ Fault
    /\ put' = "idle"
    /\ UNCHANGED <<chain, watched, snapshot, cancelled, task, client, view, told>>

Receiving(c) == client[c].pc \in {"subscribed", "streaming"}

\* Mutant: the ring has no limit.
BroadcastUnbounded(event) ==
    client' = [c \in Client |->
        IF Receiving(c) THEN [client[c] EXCEPT !.rx = Append(@, event)] ELSE client[c]]

\* Mutant: the oldest event is overwritten and nobody is told.
BroadcastSilentLag(event) ==
    client' = [c \in Client |->
        IF ~Receiving(c) THEN client[c]
        ELSE IF Len(client[c].rx) < Capacity
             THEN [client[c] EXCEPT !.rx = Append(@, event)]
             ELSE [client[c] EXCEPT !.rx = Append(Tail(@), event)]]

\* `sender.send`: a full receiver loses its oldest event and is marked lagged.
Broadcast(event) ==
    client' = [c \in Client |->
        IF ~Receiving(c) THEN client[c]
        ELSE IF Len(client[c].rx) < Capacity
             THEN [client[c] EXCEPT !.rx = Append(@, event)]
             ELSE [client[c] EXCEPT !.rx = Append(Tail(@), event), !.lagged = TRUE]]

-----------------------------------------------------------------------------
(* The producers: read a chunk, merge it, broadcast the diff.              *)

\* The updater copies the watched set; the queue's tokens were watched when the
\* transfer was enqueued.  Both read `tokens` under its lock.
StartRead(p) ==
    /\ task[p].pc = "idle"
    /\ put = "idle"
    /\ \E tokens \in (IF p = "snapshot" THEN {watched} ELSE SUBSET watched) \ {{}} :
          task' = [task EXCEPT ![p] = [IdleTask EXCEPT !.pc = "fetch", !.todo = tokens]]
    /\ UNCHANGED <<chain, feed, client, view, told, faults>>

\* The updater reads chunk by chunk (in address order, any order here), the queue
\* its whole batch.
Chunks(p) ==
    LET todo == task[p].todo IN
    IF p = "queue" \/ Cardinality(todo) <= ChunkSize
    THEN {todo}
    ELSE {c \in SUBSET todo : Cardinality(c) = ChunkSize}

AfterChunk(todo) == IF todo = {} THEN "idle" ELSE "fetch"

\* Mutant: the answer is labelled with the head, not with the block it was read at.
FetchAtHead(p) ==
    /\ task[p].pc = "fetch"
    /\ \E chunk \in Chunks(p), block \in {b \in 1 .. head : b + MaxLag >= head} :
          task' = [task EXCEPT ![p] =
                     [task[p] EXCEPT !.pc = "merge", !.todo = @ \ chunk, !.block = head,
                                     !.answer = [t \in chunk |-> chain[block][t]]]]
    /\ UNCHANGED <<chain, feed, client, view, told, faults>>

\* A multicall answers for one block, possibly behind the head; a token whose
\* subcall fails is left out.
Fetch(p) ==
    /\ task[p].pc = "fetch"
    /\ \E chunk \in Chunks(p), block \in {b \in 1 .. head : b + MaxLag >= head} :
       \E answered \in SUBSET chunk :
          /\ IF answered = chunk THEN UNCHANGED faults ELSE Fault
          /\ task' = [task EXCEPT ![p] =
                        [task[p] EXCEPT !.pc = "merge", !.todo = @ \ chunk, !.block = block,
                                        !.answer = [t \in answered |-> chain[block][t]]]]
    /\ UNCHANGED <<chain, feed, client, view, told>>

\* The updater's chunk is lost: it broadcasts Error 500 and goes on.
ChunkFails ==
    /\ "snapshot" \in Producer
    /\ task["snapshot"].pc = "fetch"
    /\ Fault
    /\ \E chunk \in Chunks("snapshot") :
          LET left == task["snapshot"].todo \ chunk IN
          task' = [task EXCEPT !["snapshot"] = [IdleTask EXCEPT !.pc = AfterChunk(left),
                                                               !.todo = left]]
    /\ Broadcast(Error)
    /\ UNCHANGED <<chain, feed, view, told>>

\* The queue's batch is lost: its receiver broadcasts Error 503 and cancels the
\* session.
QueueFails ==
    /\ "queue" \in Producer
    /\ task["queue"].pc = "fetch"
    /\ Fault
    /\ task' = [task EXCEPT !["queue"] = [IdleTask EXCEPT !.pc = "stopped"]]
    /\ cancelled' = TRUE
    /\ Broadcast(Error)
    /\ UNCHANGED <<chain, watched, snapshot, put, view, told>>

\* update_balances_and_take_diff, under the snapshot lock.  An empty answer
\* returns early; an empty diff is not broadcast.
MergeAnswer(p) ==
    LET diff == Diff(snapshot, task[p].answer, task[p].block) IN
    /\ task[p].pc = "merge"
    /\ snapshot' = Merge(snapshot, task[p].answer, task[p].block)
    /\ task' = [task EXCEPT ![p] =
                  IF DOMAIN diff = {}
                  THEN [IdleTask EXCEPT !.pc = AfterChunk(task[p].todo), !.todo = task[p].todo]
                  ELSE [@ EXCEPT !.pc = "send", !.answer = Empty, !.block = 0, !.diff = diff]]
    /\ UNCHANGED <<chain, watched, put, cancelled, client, view, told, faults>>

SendDiff(p) ==
    /\ task[p].pc = "send"
    /\ Broadcast(Update(task[p].diff))
    /\ task' = [task EXCEPT ![p] = [IdleTask EXCEPT !.pc = AfterChunk(task[p].todo),
                                                    !.todo = task[p].todo]]
    /\ UNCHANGED <<chain, feed, view, told, faults>>

\* A task that waits in a select! sees the cancelled token and returns.
StopProducer(p) ==
    /\ cancelled
    /\ task[p].pc \in {"idle", "fetch"}
    /\ task' = [task EXCEPT ![p] = [IdleTask EXCEPT !.pc = "stopped"]]
    /\ UNCHANGED <<chain, feed, client, view, told, faults>>

-----------------------------------------------------------------------------
(* SSE clients.                                                            *)

\* create_sse_connection: the receiver exists before the snapshot is read.
SubscribeClient(c) ==
    /\ client[c].pc = "off"
    /\ client' = [client EXCEPT ![c] = [Offline EXCEPT !.pc = "subscribed"]]
    /\ UNCHANGED <<chain, feed, task, view, told, faults>>

TellAll(c, balances) ==
    /\ view' = [view EXCEPT ![c] = Overlay(view[c], balances)]
    /\ told' = [told EXCEPT ![c] = @ \cup {<<t, balances[t]>> : t \in DOMAIN balances}]

\* The current snapshot is the first event of the stream.
SeedClient(c) ==
    /\ client[c].pc = "subscribed"
    /\ client' = [client EXCEPT ![c].pc = "streaming"]
    /\ TellAll(c, Amounts(snapshot))
    /\ UNCHANGED <<chain, feed, task, faults>>

\* The next broadcast event reaches the client.
Deliver(c) ==
    /\ client[c].pc = "streaming"
    /\ ~client[c].lagged
    /\ client[c].rx # <<>>
    /\ client' = [client EXCEPT ![c].rx = Tail(@)]
    /\ TellAll(c, Head(client[c].rx).balances)
    /\ UNCHANGED <<chain, feed, task, faults>>

\* The receiver reports Lagged: one 503 event, then the stream ends.
LagClose(c) ==
    /\ client[c].pc = "streaming"
    /\ client[c].lagged
    /\ client' = [client EXCEPT ![c] = [Offline EXCEPT !.pc = "closed"]]
    /\ UNCHANGED <<chain, feed, task, view, told, faults>>

\* The connection is gone; its next attempt starts from nothing.
Disconnect(c) ==
    /\ client[c].pc # "off"
    /\ client' = [client EXCEPT ![c] = Offline]
    /\ view' = [view EXCEPT ![c] = Empty]
    /\ told' = [told EXCEPT ![c] = {}]
    /\ UNCHANGED <<chain, feed, task, faults>>

-----------------------------------------------------------------------------
Next ==
    \/ NewBlock
    \/ \E new \in WatchList : SetWatchedTokens(new)
    \/ EvictUnwatched
    \/ PutDropped
    \/ \E p \in Producer : \/ StartRead(p)
                           \/ Fetch(p)
                           \/ MergeAnswer(p)
                           \/ SendDiff(p)
                           \/ StopProducer(p)
    \/ ChunkFails
    \/ QueueFails
    \/ \E c \in Client : \/ SubscribeClient(c)
                         \/ SeedClient(c)
                         \/ Deliver(c)
                         \/ LagClose(c)
                         \/ Disconnect(c)

Spec == Init /\ [][Next]_vars

\* The runtime polls every ready task; the updater's interval keeps ticking.
Fairness ==
    /\ WF_vars(EvictUnwatched)
    /\ \A p \in Producer \cap {"snapshot"} : WF_vars(StartRead(p))
    /\ \A p \in Producer : WF_vars(Fetch(p) \/ MergeAnswer(p) \/ SendDiff(p))
    /\ \A c \in Client : WF_vars(SeedClient(c) \/ Deliver(c) \/ LagClose(c))

FairSpec == Spec /\ Fairness

-----------------------------------------------------------------------------
(* Safety.                                                                 *)

\* Every cached balance is the chain's at the block it is labelled with: answers
\* held across other merges, evictions and new blocks are never mislabelled.
SnapshotTrue ==
    \A t \in DOMAIN snapshot : snapshot[t].amount = chain[snapshot[t].block_number][t]

\* "an in-flight stale snapshot" never overwrites "fresher per-event updates":
\* the block of a cached token never goes back while it stays cached.
StaleNeverOverwrites ==
    [][\A t \in DOMAIN snapshot \cap DOMAIN snapshot' :
         snapshot'[t].block_number >= snapshot[t].block_number]_vars

\* What a client should believe about t, and does.
Agrees(c, t) == t \in DOMAIN view[c] /\ view[c][t] = snapshot[t].amount

\* Nothing is on its way to the client.
CaughtUp(c) ==
    /\ client[c].pc = "streaming" /\ ~client[c].lagged /\ client[c].rx = <<>>
    /\ \A p \in Producer : task[p].pc # "send"

\* Snapshot-then-diffs: a client that has received everything sent to it holds
\* exactly the cached balances, whenever it subscribed, was seeded or a token
\* was evicted and re-added.
Converged ==
    \A c \in Client : CaughtUp(c) => \A t \in DOMAIN snapshot : Agrees(c, t)

\* No diff is lost on the way: the cached amount of a token has been told to every
\* client that is not lagged, or waits in its receiver, or in a producer.
EveryChangeTold ==
    \A c \in Client :
        client[c].pc = "streaming" /\ ~client[c].lagged =>
            \A t \in DOMAIN snapshot :
                \/ <<t, snapshot[t].amount>> \in told[c]
                \/ \E i \in DOMAIN client[c].rx :
                      /\ t \in DOMAIN client[c].rx[i].balances
                      /\ client[c].rx[i].balances[t] = snapshot[t].amount
                \/ \E p \in Producer :
                      /\ task[p].pc = "send" /\ t \in DOMAIN task[p].diff
                      /\ task[p].diff[t] = snapshot[t].amount

-----------------------------------------------------------------------------
(* Liveness, under FairSpec.                                               *)

Fresh(c) ==
    \A t \in watched : t \in DOMAIN view[c] /\ view[c][t] = chain[head][t]

\* A client that stays connected ends up with the balances of the newest block for
\* every watched token once the chain, the watched set and the faults are quiet.
EventuallyFresh ==
    \A c \in Client :
        (/\ <>[][UNCHANGED <<chain, watched, faults>>]_vars
         /\ <>[](client[c].pc = "streaming"))
            => <>[]Fresh(c)

=============================================================================
