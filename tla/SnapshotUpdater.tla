--------------------------- MODULE SnapshotUpdater ---------------------------
(***************************************************************************)
(* The snapshot updater of each session (snapshot_updater.rs).  An outer   *)
(* loop waits for the BlockWatcher's connection; an inner loop reads all   *)
(* watched balances, chunk by chunk, when its interval ticks or when it is *)
(* notified, and returns to the outer loop when the connection is lost.    *)
(*                                                                         *)
(* The connection is a watch channel: it keeps the last value only, and a  *)
(* receiver knows that it has changed since it last looked, not how often. *)
(***************************************************************************)
EXTENDS Subscription

CONSTANTS
    ChunkSize,      \* MULTICALL_CHUNK_SIZE
    MaxFlaps        \* bound on connects and disconnects

ASSUME UpdaterAssumption == ChunkSize \in Nat \ {0} /\ MaxFlaps \in Nat

VARIABLES
    connected,  \* the value of the watch channel
    flaps,      \* how often it was sent
    changed,    \* per updater: the channel was sent since it last looked
    tick,       \* per updater: its interval is due
    updater     \* each updater: step, tokens left to read, answer and its block

connection == <<connected, flaps, changed>>
updaters == <<connection, tick, updater>>

Unborn == [pc |-> "unborn", todo |-> {}, answered |-> {}, block |-> 0]
At(pc) == [Unborn EXCEPT !.pc = pc]

\* Inside run_snapshot_update_by_interval, where the interval exists.
Running(s) == updater[s].pc \in {"loop", "clone", "acquire", "call", "merge"}

UpdaterTypeOK ==
    /\ connected \in BOOLEAN /\ flaps \in 0 .. MaxFlaps
    /\ changed \in [Session -> BOOLEAN]
    /\ tick \in [Session -> BOOLEAN]
    /\ updater \in [Session -> [pc : {"unborn", "gate", "parked", "loop", "clone", "acquire",
                                      "call", "merge", "stopped"},
                                todo : SUBSET Token, answered : SUBSET Token, block : Block]]
    /\ \A s \in Session : tick[s] => Running(s)

UpdaterInit ==
    /\ SubscriptionInit
    /\ connected = FALSE /\ flaps = 0
    /\ changed = [s \in Session |-> FALSE]
    /\ tick = [s \in Session |-> FALSE]
    /\ updater = [s \in Session |-> Unborn]

\* BlockWatcher: send_replace(true) once subscribed, send_replace(false) when the
\* stream is lost.
SendConnected ==
    /\ flaps < MaxFlaps
    /\ flaps' = flaps + 1
    /\ connected' = ~connected
    /\ changed' = [s \in Session |-> TRUE]
    /\ UNCHANGED <<subscription, tick, updater>>

-----------------------------------------------------------------------------
(* The outer loop.                                                         *)

\* spawn_snapshot_updater, by the handler that created the session.
SpawnUpdater(s) ==
    /\ entry[s] # "none"
    /\ updater[s].pc = "unborn"
    /\ updater' = [updater EXCEPT ![s] = At("gate")]
    /\ UNCHANGED <<subscription, connection, tick>>

\* A new interval ticks at once.
EnterRun(s) ==
    /\ updater' = [updater EXCEPT ![s] = At("loop")]
    /\ tick' = [tick EXCEPT ![s] = TRUE]

\* The top of the loop: leave when cancelled, park while disconnected.
CheckGate(s) ==
    /\ updater[s].pc = "gate"
    /\ \/ /\ Cancelled(s)
          /\ updater' = [updater EXCEPT ![s] = At("stopped")]
          /\ UNCHANGED <<changed, tick>>
       \/ /\ ~Cancelled(s) /\ ~connected
          /\ changed' = [changed EXCEPT ![s] = FALSE]
          /\ updater' = [updater EXCEPT ![s] = At("parked")]
          /\ UNCHANGED tick
       \/ /\ ~Cancelled(s) /\ connected
          /\ changed' = [changed EXCEPT ![s] = FALSE]
          /\ EnterRun(s)
    /\ UNCHANGED <<subscription, connected, flaps>>

\* The channel was sent while parked; its value is not looked at again.
Unpark(s) ==
    /\ updater[s].pc = "parked"
    /\ changed[s]
    /\ changed' = [changed EXCEPT ![s] = FALSE]
    /\ EnterRun(s)
    /\ UNCHANGED <<subscription, connected, flaps>>

\* Mutant: the cancellation is looked at only once the connection is back.
ParkedCancelledLate(s) ==
    /\ updater[s].pc = "parked"
    /\ Cancelled(s) /\ connected
    /\ updater' = [updater EXCEPT ![s] = At("stopped")]
    /\ UNCHANGED <<subscription, connection, tick>>

\* The other branch of that select!.
ParkedCancelled(s) ==
    /\ updater[s].pc = "parked"
    /\ Cancelled(s)
    /\ updater' = [updater EXCEPT ![s] = At("stopped")]
    /\ UNCHANGED <<subscription, connection, tick>>

-----------------------------------------------------------------------------
(* run_snapshot_update_by_interval: the branches of its select!.           *)

\* Time passes: the interval is due.
IntervalElapses(s) ==
    /\ Running(s)
    /\ tick' = [tick EXCEPT ![s] = TRUE]
    /\ UNCHANGED <<subscription, connection, updater>>

\* The session is over: back to the gate, which leaves.
LoopCancelled(s) ==
    /\ updater[s].pc = "loop"
    /\ Cancelled(s)
    /\ updater' = [updater EXCEPT ![s] = At("gate")]
    /\ tick' = [tick EXCEPT ![s] = FALSE]
    /\ UNCHANGED <<subscription, connection>>

\* The channel was sent: leave the interval if it says disconnected, go on otherwise.
SeeConnection(s) ==
    /\ updater[s].pc = "loop"
    /\ changed[s]
    /\ changed' = [changed EXCEPT ![s] = FALSE]
    /\ IF connected
       THEN UNCHANGED <<updater, tick>>
       ELSE /\ updater' = [updater EXCEPT ![s] = At("gate")]
            /\ tick' = [tick EXCEPT ![s] = FALSE]
    /\ UNCHANGED <<subscription, connected, flaps>>

TickFires(s) ==
    /\ updater[s].pc = "loop"
    /\ tick[s]
    /\ tick' = [tick EXCEPT ![s] = FALSE]
    /\ updater' = [updater EXCEPT ![s] = At("clone")]
    /\ UNCHANGED <<subscription, connection>>

\* The permit is taken and the interval starts afresh.
Notified(s) ==
    /\ updater[s].pc = "loop"
    /\ notify[s]
    /\ notify' = [notify EXCEPT ![s] = FALSE]
    /\ tick' = [tick EXCEPT ![s] = FALSE]
    /\ updater' = [updater EXCEPT ![s] = At("clone")]
    /\ UNCHANGED <<chain, lifecycle, tokens, snapshot, calls, history, connection>>

-----------------------------------------------------------------------------
(* fetch_balances_and_broadcast.                                           *)

\* Where the stream of chunks goes next.
NextChunk(todo) == IF todo = {} THEN At("loop") ELSE [At("acquire") EXCEPT !.todo = todo]

\* clone_watched_tokens waits for the tokens lock; no cancellation point.
CloneWatchedTokens(s) ==
    /\ updater[s].pc = "clone"
    /\ put[s].pc = "idle"
    /\ updater' = [updater EXCEPT ![s] = NextChunk(watched[s])]
    /\ UNCHANGED <<subscription, connection, tick>>

\* Sorted chunks, one after the other.
Chunks(todo) ==
    IF Cardinality(todo) <= ChunkSize THEN {todo}
    ELSE {c \in SUBSET todo : Cardinality(c) = ChunkSize}

\* The next chunk has its permit.
AcquireForChunk(s) ==
    /\ updater[s].pc = "acquire"
    /\ Acquire(<<"updater", s>>)
    /\ updater' = [updater EXCEPT ![s].pc = "call"]
    /\ UNCHANGED <<chain, lifecycle, tokens, snapshot, notify, history, connection, tick>>

\* A chunk answers for a block near the head; tokens whose subcall failed are dropped.
ChunkAnswers(s) ==
    /\ updater[s].pc = "call"
    /\ Release(<<"updater", s>>)
    /\ \E chunk \in Chunks(updater[s].todo), block \in LatestBlocks :
       \E answered \in SUBSET chunk :
          /\ updater' = [updater EXCEPT ![s] = [pc |-> "merge", todo |-> @.todo \ chunk,
                                                answered |-> answered, block |-> block]]
          /\ IF answered = chunk
             THEN UNCHANGED history
             ELSE Fault /\ Excuse(s, chunk \ answered) /\ UNCHANGED due
    /\ UNCHANGED <<chain, lifecycle, tokens, snapshot, notify, connection, tick>>

\* A chunk is lost after its retries: Error 500 is broadcast, the next chunk is read.
ChunkFails(s) ==
    /\ updater[s].pc = "call"
    /\ Release(<<"updater", s>>)
    /\ Fault
    /\ \E chunk \in Chunks(updater[s].todo) :
          /\ Excuse(s, chunk)
          /\ updater' = [updater EXCEPT ![s] = NextChunk(@.todo \ chunk)]
    /\ UNCHANGED <<chain, lifecycle, tokens, snapshot, notify, due, connection, tick>>

\* Mutant: the end of a read settles the refreshes requested during it.
MergeChunkSettles(s) ==
    /\ updater[s].pc = "merge"
    /\ snapshot' = Merged(s, updater[s].answered, updater[s].block)
    /\ updater' = [updater EXCEPT ![s] = NextChunk(@.todo)]
    /\ notify' = [notify EXCEPT ![s] = @ /\ updater[s].todo # {}]
    /\ UNCHANGED <<chain, lifecycle, tokens, calls, history, connection, tick>>

\* update_balances_and_send_event.
MergeChunk(s) ==
    /\ updater[s].pc = "merge"
    /\ snapshot' = Merged(s, updater[s].answered, updater[s].block)
    /\ updater' = [updater EXCEPT ![s] = NextChunk(@.todo)]
    /\ UNCHANGED <<chain, lifecycle, tokens, notify, calls, history, connection, tick>>

\* Mutant: the dropped call keeps its permit.
ReadCancelledLeaks(s) ==
    /\ updater[s].pc \in {"acquire", "call"}
    /\ Cancelled(s)
    /\ updater' = [updater EXCEPT ![s] = At("loop")]
    /\ UNCHANGED <<subscription, connection, tick>>

\* The select! around the stream sees the cancelled token: the stream is dropped,
\* with the permit if it held one, and the inner loop goes on to its own select!.
ReadCancelled(s) ==
    /\ updater[s].pc \in {"acquire", "call"}
    /\ Cancelled(s)
    /\ Release(<<"updater", s>>)
    /\ updater' = [updater EXCEPT ![s] = At("loop")]
    /\ UNCHANGED <<chain, lifecycle, tokens, snapshot, notify, history, connection, tick>>

-----------------------------------------------------------------------------
UpdaterStep(s) ==
    \/ SpawnUpdater(s) \/ CheckGate(s) \/ Unpark(s) \/ ParkedCancelled(s)
    \/ LoopCancelled(s) \/ SeeConnection(s) \/ TickFires(s) \/ Notified(s)
    \/ CloneWatchedTokens(s) \/ AcquireForChunk(s) \/ ChunkAnswers(s) \/ ChunkFails(s)
    \/ MergeChunk(s) \/ ReadCancelled(s)

UpdaterNext == SendConnected \/ \E s \in Session : UpdaterStep(s) \/ IntervalElapses(s)

updaterVars == <<subscription, updaters>>

UpdaterSpec ==
    /\ UpdaterInit
    /\ [][UpdaterNext \/ (LifecycleNext /\ UNCHANGED updaters)]_updaterVars

\* As for the queue: the task takes its next step if it can again and again, and its
\* select! sees a cancellation.  The interval is not assumed to tick.
UpdaterFairness ==
    \A s \in Session :
        /\ WF_updaterVars(EvictAndNotify(s) /\ UNCHANGED updaters)
        /\ SF_updaterVars(UpdaterStep(s)) /\ SF_updaterVars(LoopCancelled(s))

FairUpdaterSpec == UpdaterSpec /\ UpdaterFairness

-----------------------------------------------------------------------------
(* What the composition with the queue needs to know.                      *)

\* The updater has still to read t: before its first read, or before a chunk with t.
WillRead(s, t) ==
    \/ updater[s].pc \in {"unborn", "gate", "parked", "clone"}
    \/ tick[s] \/ notify[s]
    \/ updater[s].pc \in {"acquire", "call", "merge"} /\ t \in updater[s].todo

-----------------------------------------------------------------------------
(* Liveness, under FairUpdaterSpec.                                        *)

\* A token is cached soon after it is watched, without waiting for the interval: a
\* PUT forces "a fresh multicall so balances reflect the new set right away", also
\* when it comes during a read, while parked or as the connection flaps.
WatchedIsRead ==
    \A s \in Session, t \in Token :
        (Live(s) /\ t \in watched[s] /\ connected)
            ~> \/ snapshot[s][t] > 0 \/ excused[s][t] > 0
               \/ t \notin watched[s] \/ ~Live(s) \/ ~connected

\* A cancelled session's updater stops wherever it waits: at the gate, parked, in its
\* select!, for a lock, for a permit or in a call.
CancelledStops ==
    \A s \in Session :
        (entry[s] # "none" /\ Cancelled(s)) ~> updater[s].pc = "stopped"
=============================================================================
