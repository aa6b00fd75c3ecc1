------------------------- MODULE BalanceRefreshQueue -------------------------
(***************************************************************************)
(* From a transfer on the chain to a fresh balance in the snapshot of every*)
(* session that watches the token:                                         *)
(*                                                                         *)
(*   - the transfer listener (session_manager.rs) takes one event at a     *)
(*     time, asks each session of the owner whether it watches the token   *)
(*     and waits until every such session's queue has taken it;            *)
(*   - the worker of a session (balance_refresh_queue.rs) collects events  *)
(*     for a debounce window, coalesces them by token and reads the batch  *)
(*     with one multicall at the highest block of the batch;               *)
(*   - the result receiver (snapshot_updater.rs) merges the answer, or     *)
(*     cancels the session when the call failed for good.                  *)
(*                                                                         *)
(* All channels are bounded, so each stage can block the one before it.    *)
(***************************************************************************)
EXTENDS Subscription, Sequences, SequencesExt

CONSTANTS
    InCap,          \* capacity of tx_in
    OutCap,         \* capacity of tx_out
    MaxQueueSize,   \* MAX_QUEUE_SIZE, requests per batch
    MaxRetries,     \* with_max_times of RpcClient::backoff
    Unpinned        \* whether the node may leave the block number out of a log

ASSUME QueueAssumption ==
    /\ InCap \in Nat \ {0} /\ OutCap \in Nat \ {0} /\ MaxQueueSize \in Nat \ {0}
    /\ MaxRetries \in Nat /\ Unpinned \in BOOLEAN

VARIABLES
    transfers,  \* events the dispatcher has sent to the listener
    listener,   \* step, event, candidates to ask, queues to feed, queues fed
    inbox,      \* tx_in of each session
    worker,     \* each worker: step, requests collected, batch, retries, result
    outbox,     \* tx_out of each session
    receiver    \* each result receiver: step and the answer it merges

queues == <<transfers, listener, inbox, worker, outbox, receiver>>

None == 0       \* Option::None for a block; blocks start at 1
Latest == 0     \* BlockId::latest

Empty == [t \in {} |-> None]
Request == [token : Token, block : Block]
Failed == [ok |-> FALSE, answered |-> {}, block |-> 0]
Answer(answered, block) == [ok |-> TRUE, answered |-> answered, block |-> block]
Result == [ok : BOOLEAN, answered : SUBSET Token, block : Block]

NoEvent == [token |-> CHOOSE t \in Token : TRUE, block |-> None]
Receiving == [pc |-> "recv", event |-> NoEvent, todo |-> {}, queues |-> {}, sent |-> {}]
Collecting == [pc |-> "collect", buf |-> <<>>, batch |-> Empty, tries |-> 0, result |-> Failed]
Waiting == [pc |-> "wait", result |-> Failed]

QueueTypeOK ==
    /\ transfers \in Seq(Request)
    /\ listener \in [pc : {"recv", "fanout", "stopped"}, event : Request,
                     todo : SUBSET Session, queues : SUBSET Session, sent : SUBSET Session]
    /\ inbox \in [Session -> Seq(Request)] /\ \A s \in Session : Len(inbox[s]) <= InCap
    /\ worker \in [Session -> [pc : {"collect", "acquire", "call", "send", "gone"},
                               buf : Seq(Request), batch : UNION {[D -> Block] : D \in SUBSET Token},
                               tries : 0 .. MaxRetries, result : Result]]
    /\ outbox \in [Session -> Seq(Result)] /\ \A s \in Session : Len(outbox[s]) <= OutCap
    /\ receiver \in [Session -> [pc : {"unborn", "wait", "merge", "stopped"}, result : Result]]

QueueInit ==
    /\ SubscriptionInit
    /\ transfers = <<>>
    /\ listener = Receiving
    /\ inbox = [s \in Session |-> <<>>]
    /\ worker = [s \in Session |-> Collecting]
    /\ outbox = [s \in Session |-> <<>>]
    /\ receiver = [s \in Session |-> [Waiting EXCEPT !.pc = "unborn"]]

\* A block with a transfer of t from or to the owner, as the dispatcher sends it on.
\* What the dispatcher takes for it, and its wait for room in the transfer channel,
\* are in EventDispatcher; here the event is in the channel at once.
NewBlock(t) ==
    /\ head < MaxBlock
    /\ head' = head + 1
    /\ moved' = [moved EXCEPT ![t] = head']
    /\ IF listener.pc = "stopped"
       THEN UNCHANGED transfers
       ELSE \E block \in {head'} \cup (IF Unpinned THEN {None} ELSE {}) :
               transfers' = Append(transfers, [token |-> t, block |-> block])
    /\ UNCHANGED <<lifecycle, tokens, snapshot, notify, calls, history,
                   listener, inbox, worker, outbox, receiver>>

-----------------------------------------------------------------------------
(* The transfer listener.                                                  *)

\* The next event; phase one of owned_queues_watching clones, under the map lock,
\* the handles of the owner's sessions.
TakeTransfer ==
    /\ listener.pc = "recv"
    /\ transfers # <<>>
    /\ transfers' = Tail(transfers)
    /\ listener' = [Receiving EXCEPT !.pc = "fanout", !.event = Head(transfers),
                                     !.todo = {s \in Session : Registered(s)}]
    /\ UNCHANGED <<subscription, inbox, worker, outbox, receiver>>

\* Phase two, one candidate: is_watched_token waits for the tokens lock.
AskWatched(s) ==
    /\ listener.pc = "fanout"
    /\ s \in listener.todo
    /\ put[s].pc = "idle"
    /\ LET e == listener.event
           watching == e.token \in watched[s]
       IN  /\ listener' = [listener EXCEPT !.todo = @ \ {s},
                                           !.queues = IF watching THEN @ \cup {s} ELSE @]
           /\ due' = IF watching
                     THEN [due EXCEPT ![s][e.token] = Max({@, e.block})]
                     ELSE due
    /\ UNCHANGED <<chain, lifecycle, tokens, snapshot, notify, calls, excused, faults,
                   transfers, inbox, worker, outbox, receiver>>

Pending == listener.queues \ listener.sent

\* Mutant: a closed channel is tried again for ever.
EnqueueInsists(s) ==
    /\ listener.pc = "fanout" /\ listener.todo = {}
    /\ s \in Pending
    /\ worker[s].pc # "gone"
    /\ Len(inbox[s]) < InCap
    /\ inbox' = [inbox EXCEPT ![s] = Append(@, listener.event)]
    /\ listener' = [listener EXCEPT !.sent = @ \cup {s}]
    /\ UNCHANGED <<subscription, transfers, worker, outbox, receiver>>

\* enqueue, one of the sends that join_all drives: it waits for room in the channel,
\* or fails when the worker has dropped the receiving end.
Enqueue(s) ==
    /\ listener.pc = "fanout" /\ listener.todo = {}
    /\ s \in Pending
    /\ \/ /\ worker[s].pc = "gone"
          /\ UNCHANGED inbox
       \/ /\ worker[s].pc # "gone"
          /\ Len(inbox[s]) < InCap
          /\ inbox' = [inbox EXCEPT ![s] = Append(@, listener.event)]
    /\ listener' = [listener EXCEPT !.sent = @ \cup {s}]
    /\ UNCHANGED <<subscription, transfers, worker, outbox, receiver>>

\* Every send is through; the handles are dropped.
FanoutDone ==
    /\ listener.pc = "fanout" /\ listener.todo = {}
    /\ Pending = {}
    /\ listener' = Receiving
    /\ UNCHANGED <<subscription, transfers, inbox, worker, outbox, receiver>>

\* The select! between two events sees the shutdown; the channel is dropped.
ListenerStops ==
    /\ listener.pc = "recv"
    /\ shutdown
    /\ listener' = [Receiving EXCEPT !.pc = "stopped"]
    /\ transfers' = <<>>
    /\ UNCHANGED <<subscription, inbox, worker, outbox, receiver>>

-----------------------------------------------------------------------------
(* The worker of a session.                                                *)

\* The sending end of tx_in: the handle in the map and the listener's clones.
HandleAlive(s) == Registered(s) \/ s \in listener.todo \cup listener.queues

\* chunks_timeout takes a request into the window.
Collect(s) ==
    /\ worker[s].pc = "collect"
    /\ inbox[s] # <<>>
    /\ Len(worker[s].buf) < MaxQueueSize
    /\ inbox' = [inbox EXCEPT ![s] = Tail(@)]
    /\ worker' = [worker EXCEPT ![s].buf = Append(@, Head(inbox[s]))]
    /\ UNCHANGED <<subscription, transfers, listener, outbox, receiver>>

\* One step of coalesce_by_token: the highest block of a token, None once any
\* request of it is unpinned.
CoalesceOne(acc, r) ==
    [t \in DOMAIN acc \cup {r.token} |->
        IF t # r.token THEN acc[t]
        ELSE IF t \notin DOMAIN acc THEN r.block
        ELSE IF acc[t] = None \/ r.block = None THEN None
        ELSE Max({acc[t], r.block})]

\* The requests of a window, one after the other.
CoalesceByToken(requests) ==
    LET coalesced[n \in 0 .. Len(requests)] ==
            IF n = 0 THEN Empty ELSE CoalesceOne(coalesced[n - 1], requests[n])
    IN  coalesced[Len(requests)]

\* The window is over (the delay has passed, the batch is full or the channel is
\* closed): the batch waits for a permit.
Flush(s) ==
    /\ worker[s].pc = "collect"
    /\ worker[s].buf # <<>>
    /\ worker' = [worker EXCEPT ![s] = [Collecting EXCEPT
                     !.pc = "acquire", !.batch = CoalesceByToken(worker[s].buf)]]
    /\ UNCHANGED <<subscription, transfers, listener, inbox, outbox, receiver>>

\* The stream ends when every handle is gone and the channel is empty.
WorkerEnds(s) ==
    /\ entry[s] # "none"
    /\ worker[s].pc = "collect"
    /\ worker[s].buf = <<>> /\ inbox[s] = <<>> /\ ~HandleAlive(s)
    /\ worker' = [worker EXCEPT ![s].pc = "gone"]
    /\ UNCHANGED <<subscription, transfers, listener, inbox, outbox, receiver>>

AcquirePermit(s) ==
    /\ worker[s].pc = "acquire"
    /\ Acquire(<<"queue", s>>)
    /\ worker' = [worker EXCEPT ![s].pc = "call"]
    /\ UNCHANGED <<chain, lifecycle, tokens, snapshot, notify, history,
                   transfers, listener, inbox, outbox, receiver>>

\* Mutant: the batch is read at its lowest block.
ResolveLowest(batch) ==
    LET blocks == {batch[t] : t \in DOMAIN batch} IN
    IF None \in blocks THEN Latest ELSE Min(blocks)

\* Latest when a request is unpinned, the highest block of the batch otherwise.
ResolveBlockId(batch) ==
    LET blocks == {batch[t] : t \in DOMAIN batch} IN
    IF None \in blocks THEN Latest ELSE Max(blocks)

CallEnds(s, result) ==
    /\ Release(<<"queue", s>>)
    /\ worker' = [worker EXCEPT ![s] = [Collecting EXCEPT !.pc = "send", !.result = result]]

\* The multicall answers for the pinned block, or for a block near the head; tokens
\* whose subcall failed are dropped from the answer.
CallAnswers(s) ==
    LET batch == worker[s].batch
        pinned == ResolveBlockId(batch)
    IN  /\ worker[s].pc = "call"
        /\ \E block \in (IF pinned = Latest THEN LatestBlocks ELSE {pinned}),
              answered \in SUBSET DOMAIN batch :
              /\ CallEnds(s, Answer(answered, block))
              /\ IF answered = DOMAIN batch
                 THEN UNCHANGED history
                 ELSE Fault /\ Excuse(s, DOMAIN batch \ answered) /\ UNCHANGED due
        /\ UNCHANGED <<chain, lifecycle, tokens, snapshot, notify,
                       transfers, listener, inbox, outbox, receiver>>

\* A transient error is retried after a delay, with the permit still held.
CallRetried(s) ==
    /\ worker[s].pc = "call"
    /\ worker[s].tries < MaxRetries
    /\ worker' = [worker EXCEPT ![s].tries = @ + 1]
    /\ UNCHANGED <<subscription, transfers, listener, inbox, outbox, receiver>>

\* A permanent error, the pinned block unknown to the node, or the last retry.
CallExhausted(s) ==
    /\ worker[s].pc = "call"
    /\ Fault
    /\ CallEnds(s, Failed)
    /\ UNCHANGED <<chain, lifecycle, tokens, snapshot, notify, due, excused,
                   transfers, listener, inbox, outbox, receiver>>

\* Mutant: the worker waits for room in a channel nobody reads.
SendResultBlindly(s) ==
    /\ worker[s].pc = "send"
    /\ Len(outbox[s]) < OutCap
    /\ outbox' = [outbox EXCEPT ![s] = Append(@, worker[s].result)]
    /\ worker' = [worker EXCEPT ![s] = Collecting]
    /\ UNCHANGED <<subscription, transfers, listener, inbox, receiver>>

\* tx_out.send: waits for room; when the receiver is gone the worker leaves, and
\* drops its channel with whatever is in it.
SendResult(s) ==
    /\ worker[s].pc = "send"
    /\ \/ /\ receiver[s].pc = "stopped"
          /\ worker' = [worker EXCEPT ![s] = [Collecting EXCEPT !.pc = "gone"]]
          /\ inbox' = [inbox EXCEPT ![s] = <<>>]
          /\ UNCHANGED outbox
       \/ /\ receiver[s].pc # "stopped"
          /\ Len(outbox[s]) < OutCap
          /\ outbox' = [outbox EXCEPT ![s] = Append(@, worker[s].result)]
          /\ worker' = [worker EXCEPT ![s] = Collecting]
          /\ UNCHANGED inbox
    /\ UNCHANGED <<subscription, transfers, listener, receiver>>

-----------------------------------------------------------------------------
(* The result receiver of a session.                                       *)

\* spawn_queue_result_receiver, by the handler that created the session.
SpawnReceiver(s) ==
    /\ entry[s] # "none"
    /\ receiver[s].pc = "unborn"
    /\ receiver' = [receiver EXCEPT ![s] = Waiting]
    /\ UNCHANGED <<subscription, transfers, listener, inbox, worker, outbox>>

\* An answer waits for the snapshot lock; an error broadcasts 503, cancels the
\* session and ends the task, which drops the channel.
Receive(s) ==
    LET result == Head(outbox[s]) IN
    /\ receiver[s].pc = "wait"
    /\ outbox[s] # <<>>
    /\ \/ /\ result.ok
          /\ receiver' = [receiver EXCEPT ![s] = [pc |-> "merge", result |-> result]]
          /\ outbox' = [outbox EXCEPT ![s] = Tail(@)]
          /\ UNCHANGED cancelled
       \/ /\ ~result.ok
          /\ receiver' = [receiver EXCEPT ![s] = [Waiting EXCEPT !.pc = "stopped"]]
          /\ outbox' = [outbox EXCEPT ![s] = <<>>]
          /\ cancelled' = [cancelled EXCEPT ![s] = TRUE]
    /\ UNCHANGED <<chain, entry, shutdown, closed, tokens, snapshot, notify, calls, history,
                   transfers, listener, inbox, worker>>

\* update_balances_and_send_event; what the clients are sent is BalanceFeed's.
MergeResult(s) ==
    /\ receiver[s].pc = "merge"
    /\ snapshot' = Merged(s, receiver[s].result.answered, receiver[s].result.block)
    /\ receiver' = [receiver EXCEPT ![s] = Waiting]
    /\ UNCHANGED <<chain, lifecycle, tokens, notify, calls, history,
                   transfers, listener, inbox, worker, outbox>>

\* The select! sees the cancelled token.
ReceiverStops(s) ==
    /\ receiver[s].pc = "wait"
    /\ Cancelled(s)
    /\ receiver' = [receiver EXCEPT ![s] = [Waiting EXCEPT !.pc = "stopped"]]
    /\ outbox' = [outbox EXCEPT ![s] = <<>>]
    /\ UNCHANGED <<subscription, transfers, listener, inbox, worker>>

-----------------------------------------------------------------------------
WorkerStep(s) ==
    \/ Collect(s) \/ Flush(s) \/ WorkerEnds(s)
    \/ AcquirePermit(s) \/ CallAnswers(s) \/ CallRetried(s) \/ CallExhausted(s)
    \/ SendResult(s)

ReceiverStep(s) == SpawnReceiver(s) \/ Receive(s) \/ MergeResult(s) \/ ReceiverStops(s)

ListenerStep ==
    \/ TakeTransfer \/ FanoutDone \/ ListenerStops
    \/ \E s \in Session : AskWatched(s) \/ Enqueue(s)

QueueNext ==
    \/ \E t \in Token : NewBlock(t)
    \/ ListenerStep
    \/ \E s \in Session : WorkerStep(s) \/ ReceiverStep(s)

queueVars == <<subscription, queues>>

QueueSpec ==
    /\ QueueInit
    /\ [][QueueNext \/ (LifecycleNext /\ UNCHANGED queues)]_queueVars

\* A task takes its next step if it can again and again: it is polled, locks and the
\* semaphore are first come first served, the debounce timer fires and a call ends.
\* select! picks among its ready branches at random, so a cancellation is seen.
QueueFairness ==
    /\ WF_queueVars(CloseSseConnections /\ UNCHANGED queues)
    /\ SF_queueVars(ListenerStep) /\ SF_queueVars(ListenerStops)
    /\ \A s \in Session :
          /\ WF_queueVars(EvictAndNotify(s) /\ UNCHANGED queues)
          /\ SF_queueVars(WorkerStep(s))
          /\ WF_queueVars(ReceiverStep(s)) /\ SF_queueVars(ReceiverStops(s))

FairQueueSpec == QueueSpec /\ QueueFairness

-----------------------------------------------------------------------------
(* Safety.                                                                 *)

\* The result will bring a balance of t at or after block b, or end the session.
Brings(result, t, b) == result.ok => t \in result.answered /\ result.block >= b

\* A request at this block will be read at b or later.
Serves(block, b) == block = None \/ block >= b

\* A refresh of t at or after block b is between the listener and the snapshot of s.
Underway(s, t, b) ==
    \/ /\ s \in Pending
       /\ listener.event.token = t /\ Serves(listener.event.block, b)
    \/ \E r \in Range(inbox[s]) \cup Range(worker[s].buf) : r.token = t /\ Serves(r.block, b)
    \/ /\ worker[s].pc \in {"acquire", "call"}
       /\ t \in DOMAIN worker[s].batch
       /\ Serves(worker[s].batch[t], b)
    \/ worker[s].pc = "send" /\ Brings(worker[s].result, t, b)
    \/ \E r \in Range(outbox[s]) : Brings(r, t, b)
    \/ receiver[s].pc = "merge" /\ Brings(receiver[s].result, t, b)

\* No transfer is lost between the listener and the snapshot: once the listener has
\* found the token watched, the session's balance is read at that block or later
\* unless the read failed, through every full channel, batch and retry and whatever
\* PUT, expiry or shutdown happens meanwhile.
TransferReflected ==
    \A s \in Session : Live(s) =>
        \A t \in watched[s] :
            \/ due[s][t] <= Max({snapshot[s][t], excused[s][t]})
            \/ Underway(s, t, due[s][t])

\* The worker of a session that is served never leaves: `enqueue` fails, and the
\* receiver's `recv` returns None over and over, only for cancelled sessions.
WorkerOutlivesSession ==
    \A s \in Session : worker[s].pc = "gone" => Cancelled(s)

-----------------------------------------------------------------------------
(* Liveness, under FairQueueSpec.                                          *)

\* Backpressure always clears: a fan-out blocked by a full queue ends, although the
\* worker may be waiting for the semaphore, a retry, a full result channel or a
\* receiver that has already left.
FanoutEnds == listener.pc = "fanout" ~> listener.pc # "fanout"

\* A session that leaves the map, by expiry or shutdown, leaves no task behind.
RemovedDrains ==
    \A s \in Session :
        entry[s] = "removed" ~> worker[s].pc = "gone" /\ receiver[s].pc = "stopped"
=============================================================================
