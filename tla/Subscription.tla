---------------------------- MODULE Subscription ----------------------------
(***************************************************************************)
(* The state the tasks of a session share (subscription.rs) and the steps  *)
(* of its life that the refresh queue and the snapshot updater depend on:  *)
(* creation, PUT, expiry and shutdown.  All sessions have the same owner.  *)
(*                                                                         *)
(* A cached balance is abstracted to the block it was read at: what the    *)
(* tasks of a session must not lose is that a newer block has to be read.  *)
(* The owner's chain, the node's lag and the semaphore that caps multicalls*)
(* (rpc_client.rs) are here because both producers use them.               *)
(***************************************************************************)
EXTENDS Naturals, FiniteSets, FiniteSetsExt

CONSTANTS
    Session,        \* sessions of one owner, each created at most once
    Token,          \* token contracts
    WatchList,      \* the watched sets requests may ask for
    Permits,        \* MULTICALL_PERMITS_COUNT
    MaxBlock,       \* bound on the chain's length
    MaxLag,         \* how many blocks behind the head "latest" may be
    MaxFaults       \* bound on failed calls and dropped PUT handlers

ASSUME SubscriptionAssumption ==
    /\ Token # {} /\ WatchList \subseteq SUBSET Token
    /\ Permits \in Nat \ {0}
    /\ MaxBlock \in Nat \ {0} /\ MaxLag \in Nat /\ MaxFaults \in Nat

VARIABLES
    head,       \* newest block (external)
    moved,      \* block of the owner's last transfer of each token (external)
    entry,      \* the session in SubscriptionManager's map
    cancelled,  \* Subscription.cancellation_token, without the parent's
    shutdown,   \* lifecycle.cancel_token, the parent of every session's token
    closed,     \* the cleanup task has cleared the map and left
    watched,    \* Subscription.tokens
    snapshot,   \* Subscription.balances_snapshot: block of each balance, 0 for none
    notify,     \* the permit of Subscription.snapshot_refresh_notify
    put,        \* the PUT that holds the tokens lock: step and tokens it added
    calls,      \* holders of a permit of request_semaphore
    due,        \* history: highest block of a transfer the listener found watched
    excused,    \* history: head when a refresh of the token was last lost to a fault
    faults      \* faults so far

chain == <<head, moved>>
lifecycle == <<entry, cancelled, shutdown, closed>>
tokens == <<watched, put>>
history == <<due, excused, faults>>
subscription == <<chain, lifecycle, tokens, snapshot, notify, calls, history>>

NoPut == [pc |-> "idle", added |-> {}]
Block == 0 .. MaxBlock

SubscriptionTypeOK ==
    /\ head \in 1 .. MaxBlock
    /\ moved \in [Token -> Block]
    /\ entry \in [Session -> {"none", "registered", "removed"}]
    /\ cancelled \in [Session -> BOOLEAN]
    /\ shutdown \in BOOLEAN /\ closed \in BOOLEAN
    /\ watched \in [Session -> SUBSET Token]
    /\ snapshot \in [Session -> [Token -> Block]]
    /\ notify \in [Session -> BOOLEAN]
    /\ put \in [Session -> [pc : {"idle", "evicting"}, added : SUBSET Token]]
    /\ calls \subseteq {"queue", "updater"} \X Session
    /\ Cardinality(calls) <= Permits
    /\ due \in [Session -> [Token -> Block]]
    /\ excused \in [Session -> [Token -> Block]]
    /\ faults \in 0 .. MaxFaults

SubscriptionInit ==
    /\ head = 1
    /\ moved = [t \in Token |-> 0]
    /\ entry = [s \in Session |-> "none"]
    /\ cancelled = [s \in Session |-> FALSE]
    /\ shutdown = FALSE /\ closed = FALSE
    /\ watched = [s \in Session |-> {}]
    /\ snapshot = [s \in Session |-> [t \in Token |-> 0]]
    /\ notify = [s \in Session |-> FALSE]
    /\ put = [s \in Session |-> NoPut]
    /\ calls = {}
    /\ due = [s \in Session |-> [t \in Token |-> 0]]
    /\ excused = [s \in Session |-> [t \in Token |-> 0]]
    /\ faults = 0

Registered(s) == entry[s] = "registered"

\* A child token is cancelled with its parent.
Cancelled(s) == cancelled[s] \/ shutdown

\* A session that was created and has to be served.
Live(s) == Registered(s) /\ ~Cancelled(s)

-----------------------------------------------------------------------------
(* Creation, PUT, expiry, shutdown.                                        *)

\* create_session_locked: the entry with its token list, its queue and the child
\* token; the watcher tasks are spawned by the handler afterwards.
CreateSession(s, list) ==
    /\ entry[s] = "none"
    /\ entry' = [entry EXCEPT ![s] = "registered"]
    /\ watched' = [watched EXCEPT ![s] = list]
    /\ UNCHANGED <<chain, cancelled, shutdown, closed, snapshot, notify, put, calls, history>>

\* set_watched_tokens: the tokens lock is taken and the set swapped.  An equal set
\* returns early and changes nothing.
SetWatchedTokens(s, list) ==
    /\ Registered(s)
    /\ put[s].pc = "idle"
    /\ watched[s] # list
    /\ watched' = [watched EXCEPT ![s] = list]
    /\ put' = [put EXCEPT ![s] = [pc |-> "evicting", added |-> list \ watched[s]]]
    /\ due' = [due EXCEPT ![s] = [t \in Token |-> IF t \in list THEN @[t] ELSE 0]]
    /\ UNCHANGED <<chain, lifecycle, snapshot, notify, calls, excused, faults>>

\* Mutant: the refresh is not requested.
EvictSilently(s) ==
    /\ put[s].pc = "evicting"
    /\ snapshot' = [snapshot EXCEPT ![s] =
                      [t \in Token |-> IF t \in watched[s] THEN @[t] ELSE 0]]
    /\ put' = [put EXCEPT ![s] = NoPut]
    /\ UNCHANGED <<chain, lifecycle, watched, notify, calls, history>>

\* The snapshot lock is taken, dropped tokens are evicted and the updater notified;
\* there is no await between the eviction and notify_one.
EvictAndNotify(s) ==
    /\ put[s].pc = "evicting"
    /\ snapshot' = [snapshot EXCEPT ![s] =
                      [t \in Token |-> IF t \in watched[s] THEN @[t] ELSE 0]]
    /\ put' = [put EXCEPT ![s] = NoPut]
    /\ notify' = [notify EXCEPT ![s] = TRUE]
    /\ UNCHANGED <<chain, lifecycle, watched, calls, history>>

Fault == faults < MaxFaults /\ faults' = faults + 1

\* The refresh of these tokens is lost; what the chain holds by now is excused.
Excuse(s, lost) ==
    excused' = [excused EXCEPT ![s] = [t \in Token |-> IF t \in lost THEN head ELSE @[t]]]

\* The client of the PUT disconnects while it waits for the snapshot lock: the set
\* is swapped, nothing is evicted and nobody is notified.
PutDropped(s) ==
    /\ put[s].pc = "evicting"
    /\ Fault
    /\ Excuse(s, put[s].added)
    /\ put' = [put EXCEPT ![s] = NoPut]
    /\ UNCHANGED <<chain, lifecycle, watched, snapshot, notify, calls, due>>

\* Mutant: the entry is removed and its tasks are left alone.
ExpireUncancelled(s) ==
    /\ Registered(s) /\ ~closed
    /\ entry' = [entry EXCEPT ![s] = "removed"]
    /\ UNCHANGED <<chain, cancelled, shutdown, closed, tokens, snapshot, notify, calls, history>>

\* cleanup_subs reaps the session: its token is cancelled and the entry, with the
\* queue handle in it, dropped.
ExpireSession(s) ==
    /\ Registered(s) /\ ~closed
    /\ entry' = [entry EXCEPT ![s] = "removed"]
    /\ cancelled' = [cancelled EXCEPT ![s] = TRUE]
    /\ UNCHANGED <<chain, shutdown, closed, tokens, snapshot, notify, calls, history>>

ShutdownSignal ==
    /\ ~shutdown
    /\ shutdown' = TRUE
    /\ UNCHANGED <<chain, entry, cancelled, closed, tokens, snapshot, notify, calls, history>>

\* close_sse_connections, once: the map is drained and the cleanup task ends.
CloseSseConnections ==
    /\ shutdown /\ ~closed
    /\ closed' = TRUE
    /\ entry' = [s \in Session |-> IF Registered(s) THEN "removed" ELSE entry[s]]
    /\ UNCHANGED <<chain, cancelled, shutdown, tokens, snapshot, notify, calls, history>>

LifecycleNext ==
    \/ \E s \in Session, list \in WatchList : CreateSession(s, list) \/ SetWatchedTokens(s, list)
    \/ \E s \in Session : EvictAndNotify(s) \/ PutDropped(s) \/ ExpireSession(s)
    \/ ShutdownSignal
    \/ CloseSseConnections

-----------------------------------------------------------------------------
(* What both producers do with a multicall.                                *)

\* The snapshot of s after update_balances_and_take_diff: block-guarded per token.
Merged(s, answered, block) ==
    [snapshot EXCEPT ![s] =
        [t \in Token |-> IF t \in answered /\ @[t] < block THEN block ELSE @[t]]]

\* Mutant: a call starts without waiting for a permit.
AcquireFreely(caller) == calls' = calls \cup {caller}

\* request_semaphore.acquire; the permit is held until the call has answered or failed.
Acquire(caller) ==
    /\ Cardinality(calls) < Permits
    /\ calls' = calls \cup {caller}

Release(caller) == calls' = calls \ {caller}

\* The blocks a call at `BlockId::latest` may answer for (external).
LatestBlocks == {b \in 1 .. head : b + MaxLag >= head}
=============================================================================
