--------------------------- MODULE SessionPipeline ---------------------------
(***************************************************************************)
(* The refresh queue and the snapshot updater of a session side by side:   *)
(* they share the watched tokens, the snapshot, the cancellation token and *)
(* the multicall semaphore.  Neither alone keeps a session's balances up   *)
(* to date: the queue learns of transfers of tokens that were watched when *)
(* they happened, the updater reads the rest when a PUT asks for it.       *)
(***************************************************************************)
EXTENDS BalanceRefreshQueue, SnapshotUpdater

vars == <<subscription, queues, updaters>>

Init == QueueInit /\ UpdaterInit

Next ==
    \/ LifecycleNext /\ UNCHANGED <<queues, updaters>>
    \/ QueueNext /\ UNCHANGED updaters
    \/ UpdaterNext /\ UNCHANGED queues

Spec == Init /\ [][Next]_vars

-----------------------------------------------------------------------------
(* Safety.                                                                 *)

\* The type invariant of Subscription and of the two modules composed here; no more
\* calls run at a time than there are permits, whichever task made them.
TypeOK == SubscriptionTypeOK /\ QueueTypeOK /\ UpdaterTypeOK

\* The block the cached balance of a watched token must not be behind: any block at
\* all, every transfer fanned out to the session, and the chain's last transfer up to
\* the lag a node may have.
Needed(s, t) == Max({1, due[s][t], IF moved[t] > MaxLag THEN moved[t] - MaxLag ELSE 0})

\* A refresh of t at or after block b is on its way to the snapshot of s: as an event
\* not yet asked about, in the queue, in a PUT about to notify, or in the updater.
Owed(s, t, b) ==
    \/ \E r \in Range(transfers) : r.token = t /\ Serves(r.block, b)
    \/ s \in listener.todo /\ listener.event.token = t /\ Serves(listener.event.block, b)
    \/ Underway(s, t, b)
    \/ put[s].pc = "evicting"
    \/ WillRead(s, t)
    \/ updater[s].pc = "merge" /\ t \in updater[s].answered /\ updater[s].block >= b

\* The interval is only a safety net: without waiting for it, every watched token of
\* a session that is served is cached at the block it has to be, or a refresh that
\* brings it there is on its way, unless that refresh was lost to a failed call or a
\* dropped PUT.  The listener asks before or after a PUT swaps the set, the updater
\* copies the set before or after the listener asks: no interleaving falls between
\* the two.
NothingForgotten ==
    \A s \in Session : Live(s) =>
        \A t \in watched[s] :
            \/ Needed(s, t) <= Max({snapshot[s][t], excused[s][t]})
            \/ Owed(s, t, Needed(s, t))

\* Permits of the semaphore are held by running calls only, also when a call failed
\* or its stream was dropped by a cancellation.
PermitsAccounted ==
    calls = {<<"queue", s>> : s \in {o \in Session : worker[o].pc = "call"}}
       \cup {<<"updater", s>> : s \in {o \in Session : updater[o].pc = "call"}}
=============================================================================
