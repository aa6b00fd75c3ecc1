------------------------ MODULE SessionPipelineProofs ------------------------
(***************************************************************************)
(* Theorems about the tasks of a session side by side, for any number of   *)
(* sessions, tokens and permits, any watch lists, capacities, chunk size   *)
(* and number of faults and connection losses.  What the queue contributes *)
(* is in BalanceRefreshQueueProofs.                                        *)
(***************************************************************************)
EXTENDS SessionPipeline, BalanceRefreshQueueProofs

\* The states of an updater.
Updater == [pc : {"unborn", "gate", "parked", "loop", "clone", "acquire", "call", "merge", "stopped"},
            todo : SUBSET Token, answered : SUBSET Token, block : Block]

\* The listener leaves with the process only, and an updater does nothing before its
\* session exists.
StartInv ==
    /\ listener.pc = "stopped" => shutdown
    /\ \A s \in Session : entry[s] = "none" => updater[s].pc = "unborn"

\* The inductive invariant of the composition.
PipelineInv == QueueInv /\ UpdaterTypeOK /\ PermitsAccounted /\ StartInv

-----------------------------------------------------------------------------
(* The semaphore.                                                          *)

\* PermitsAccounted holder by holder.
Accounted(held, w, u) ==
    /\ held \subseteq {"queue", "updater"} \X Session
    /\ \A s \in Session : /\ <<"queue", s>> \in held <=> w[s].pc = "call"
                          /\ <<"updater", s>> \in held <=> u[s].pc = "call"

\* The permits accounted for, as one set: those of the tasks in a call.
LEMMA AccountedIs ==
    ASSUME NEW held, NEW w, NEW u
    PROVE  Accounted(held, w, u) <=>
             held = {<<"queue", s>> : s \in {o \in Session : w[o].pc = "call"}}
                \cup {<<"updater", s>> : s \in {o \in Session : u[o].pc = "call"}}
<1> PICK all : all = {<<"queue", s>> : s \in {o \in Session : w[o].pc = "call"}}
                \cup {<<"updater", s>> : s \in {o \in Session : u[o].pc = "call"}}
  OBVIOUS
<1>1. \A x : x \in all <=> \/ \E s \in Session : x = <<"queue", s>> /\ w[s].pc = "call"
                           \/ \E s \in Session : x = <<"updater", s>> /\ u[s].pc = "call"
  OBVIOUS
<1>2. Accounted(all, w, u)
  <2>1. \A s \in Session : <<"queue", s>> \in all <=> w[s].pc = "call"
    BY <1>1
  <2>2. \A s \in Session : <<"updater", s>> \in all <=> u[s].pc = "call"
    BY <1>1
  <2>3. all \subseteq {"queue", "updater"} \X Session
    BY <1>1
  <2> QED BY <2>1, <2>2, <2>3 DEF Accounted
<1>3. ASSUME Accounted(held, w, u) PROVE held = all
  <2>1. ASSUME NEW x PROVE x \in held <=> x \in all
    <3>1. CASE x \in {"queue", "updater"} \X Session
      <4>1. PICK s \in Session : x = <<"queue", s>> \/ x = <<"updater", s>>
        BY <3>1
      <4> QED BY <1>2, <1>3, <4>1 DEF Accounted
    <3>2. CASE x \notin {"queue", "updater"} \X Session
      BY <1>2, <1>3, <3>2 DEF Accounted
    <3> QED BY <3>1, <3>2
  <2> QED BY <2>1
<1> QED BY <1>2, <1>3

\* A permit changes hands when the worker of s starts or ends a call.
LEMMA WorkerPermit ==
    ASSUME NEW held, NEW next, NEW w, NEW v, NEW u, NEW s \in Session, Accounted(held, w, u),
           \A o \in Session : o # s => v[o] = w[o],
           next = IF v[s].pc = "call" THEN held \cup {<<"queue", s>>} ELSE held \ {<<"queue", s>>}
    PROVE  Accounted(next, v, u)
<1>1. /\ next \subseteq {"queue", "updater"} \X Session
      /\ \A o \in Session : <<"updater", o>> \in next <=> <<"updater", o>> \in held
      /\ \A o \in Session : o # s => (<<"queue", o>> \in next <=> <<"queue", o>> \in held)
      /\ <<"queue", s>> \in next <=> v[s].pc = "call"
  BY DEF Accounted
<1> QED BY <1>1 DEF Accounted

\* And when the updater of s does.
LEMMA UpdaterPermit ==
    ASSUME NEW held, NEW next, NEW w, NEW u, NEW x, NEW s \in Session, Accounted(held, w, u),
           \A o \in Session : o # s => x[o] = u[o],
           next = IF x[s].pc = "call" THEN held \cup {<<"updater", s>>} ELSE held \ {<<"updater", s>>}
    PROVE  Accounted(next, w, x)
<1>1. /\ next \subseteq {"queue", "updater"} \X Session
      /\ \A o \in Session : <<"queue", o>> \in next <=> <<"queue", o>> \in held
      /\ \A o \in Session : o # s => (<<"updater", o>> \in next <=> <<"updater", o>> \in held)
      /\ <<"updater", s>> \in next <=> x[s].pc = "call"
  BY DEF Accounted
<1> QED BY <1>1 DEF Accounted

\* The tasks of the queue hold a permit while they call, and no longer.
LEMMA QueueKeepsPermits ==
    ASSUME QueueInv, PermitsAccounted, QueueNext, UNCHANGED updater
    PROVE  PermitsAccounted'
<1>1. Accounted(calls, worker, updater)
  BY AccountedIs DEF PermitsAccounted
<1>2. worker \in [Session -> Worker]
  BY Channels
<1>3. SUFFICES Accounted(calls', worker', updater')
  <2>1. Accounted(calls', worker', updater') =>
          calls' = {<<"queue", s>> : s \in {o \in Session : worker'[o].pc = "call"}}
              \cup {<<"updater", s>> : s \in {o \in Session : updater'[o].pc = "call"}}
    BY AccountedIs
  <2> QED BY <2>1 DEF PermitsAccounted
<1>4. CASE calls' = calls /\ worker' = worker
  BY <1>1, <1>4
<1>5. CASE \E s \in Session : WorkerStep(s)
  <2>1. PICK s \in Session : WorkerStep(s)
    BY <1>5
  <2>2. \A o \in Session : o # s => worker'[o] = worker[o]
    BY <1>2, <2>1 DEF WorkerStep, Collect, Flush, WorkerEnds, AcquirePermit, CallAnswers,
                      CallRetried, CallExhausted, SendResult, CallEnds
  <2>3. calls' = IF worker'[s].pc = "call" THEN calls \cup {<<"queue", s>>}
                 ELSE calls \ {<<"queue", s>>}
    <3>1. worker[s] \in Worker /\ (<<"queue", s>> \in calls <=> worker[s].pc = "call")
      BY <1>1, <1>2 DEF Accounted
    <3>2. CASE Collect(s)
      <4>1. calls' = calls /\ worker[s].pc = "collect" /\ worker'[s].pc = "collect"
        BY <1>2, <3>1, <3>2 DEF Collect, subscription, Worker
      <4> QED BY <3>1, <4>1
    <3>3. CASE Flush(s)
      <4>1. calls' = calls /\ worker[s].pc = "collect" /\ worker'[s].pc = "acquire"
        BY <1>2, <3>1, <3>3 DEF Flush, subscription, Collecting
      <4> QED BY <3>1, <4>1
    <3>4. CASE WorkerEnds(s)
      <4>1. calls' = calls /\ worker[s].pc = "collect" /\ worker'[s].pc = "gone"
        BY <1>2, <3>1, <3>4 DEF WorkerEnds, subscription, Worker
      <4> QED BY <3>1, <4>1
    <3>5. CASE AcquirePermit(s)
      <4>1. calls' = calls \cup {<<"queue", s>>} /\ worker'[s].pc = "call"
        BY <1>2, <3>1, <3>5 DEF AcquirePermit, Acquire, Worker
      <4> QED BY <4>1
    <3>6. CASE CallAnswers(s) \/ CallExhausted(s)
      <4>1. calls' = calls \ {<<"queue", s>>} /\ worker'[s].pc = "send"
        BY <1>2, <3>1, <3>6, ZenonT(60) DEF CallAnswers, CallExhausted, CallEnds, Release, Collecting
      <4> QED BY <4>1
    <3>7. CASE CallRetried(s)
      <4>1. calls' = calls /\ worker[s].pc = "call" /\ worker'[s].pc = "call"
        BY <1>2, <3>1, <3>7 DEF CallRetried, subscription, Worker
      <4> QED BY <3>1, <4>1
    <3>8. CASE SendResult(s)
      <4>1. calls' = calls /\ worker[s].pc = "send" /\ worker'[s].pc \in {"gone", "collect"}
        BY <1>2, <3>1, <3>8 DEF SendResult, subscription, Collecting
      <4> QED BY <3>1, <4>1
    <3> QED BY <2>1, <3>2, <3>3, <3>4, <3>5, <3>6, <3>7, <3>8 DEF WorkerStep
  <2> QED BY <1>1, <2>2, <2>3, WorkerPermit
<1>6. (calls' = calls /\ worker' = worker) \/ \E s \in Session : WorkerStep(s)
  BY DEF QueueNext, NewBlock, ListenerStep, TakeTransfer, FanoutDone, ListenerStops, AskWatched,
         Enqueue, ReceiverStep, SpawnReceiver, Receive, MergeResult, ReceiverStops, subscription
<1> QED BY <1>4, <1>5, <1>6

-----------------------------------------------------------------------------
(* The updater keeps the invariant.                                        *)

\* The shape of the updaters, with the name of this module.
LEMMA UpdaterTypes ==
    UpdaterTypeOK <=>
        /\ connected \in BOOLEAN /\ flaps \in 0 .. MaxFlaps /\ changed \in [Session -> BOOLEAN]
        /\ tick \in [Session -> BOOLEAN] /\ updater \in [Session -> Updater]
        /\ \A s \in Session : tick[s] => Running(s)
BY DEF UpdaterTypeOK, Updater

\* The states an updater moves to.
LEMMA UpdaterStates ==
    /\ 0 \in Block
    /\ \A pc \in {"unborn", "gate", "parked", "loop", "clone", "acquire", "call", "merge", "stopped"} :
          /\ At(pc) \in Updater /\ At(pc).pc = pc
    /\ \A todo \in SUBSET Token :
          /\ NextChunk(todo) \in Updater /\ NextChunk(todo).pc \in {"loop", "acquire"}
          /\ todo # {} => NextChunk(todo).pc = "acquire" /\ NextChunk(todo).todo = todo
<1>1. 0 \in Block
  BY SubscriptionAssumption DEF Block
<1>2. \A pc \in {"unborn", "gate", "parked", "loop", "clone", "acquire", "call", "merge", "stopped"} :
         /\ At(pc) \in Updater /\ At(pc).pc = pc
  BY <1>1 DEF At, Unborn, Updater
<1>3. ASSUME NEW todo \in SUBSET Token
      PROVE  /\ NextChunk(todo) \in Updater /\ NextChunk(todo).pc \in {"loop", "acquire"}
             /\ todo # {} => NextChunk(todo).pc = "acquire" /\ NextChunk(todo).todo = todo
  <2>1. At("acquire") \in Updater /\ At("loop") \in Updater /\ At("loop").pc = "loop"
    BY <1>2
  <2>2. /\ [At("acquire") EXCEPT !.todo = todo] \in Updater
        /\ [At("acquire") EXCEPT !.todo = todo].pc = "acquire"
        /\ [At("acquire") EXCEPT !.todo = todo].todo = todo
    BY <1>2, <2>1 DEF Updater
  <2> QED BY <2>1, <2>2 DEF NextChunk
<1> QED BY <1>1, <1>2, <1>3

\* The permits after a step of the updater of s.
LEMMA UpdaterHolds ==
    ASSUME PermitsAccounted, updater \in [Session -> Updater], NEW s \in Session, NEW u \in Updater,
           updater' = [updater EXCEPT ![s] = u],
           calls' = IF u.pc = "call" THEN calls \cup {<<"updater", s>>}
                    ELSE calls \ {<<"updater", s>>}
    PROVE  Accounted(calls', worker, updater')
<1>1. Accounted(calls, worker, updater)
  BY AccountedIs DEF PermitsAccounted
<1>2. \A o \in Session : updater'[o] = IF o = s THEN u ELSE updater[o]
  OBVIOUS
<1>3. /\ \A o \in Session : o # s => updater'[o] = updater[o]
      /\ calls' = IF updater'[s].pc = "call" THEN calls \cup {<<"updater", s>>}
                  ELSE calls \ {<<"updater", s>>}
  BY <1>2
<1> QED BY <1>1, <1>3, UpdaterPermit

\* A step of the updater of s: what it has to show.
LEMMA UpdaterFrame ==
    ASSUME PipelineInv, NEW s \in Session, NEW u \in Updater,
           updater' = [updater EXCEPT ![s] = u],
           entry[s] = "none" => u.pc = "unborn",
           tick' \in [Session -> BOOLEAN], \A o \in Session : o # s => tick'[o] = tick[o],
           tick'[s] => u.pc \in {"loop", "clone", "acquire", "call", "merge"},
           connected' \in BOOLEAN, flaps' \in 0 .. MaxFlaps, changed' \in [Session -> BOOLEAN],
           UNCHANGED queues, UNCHANGED <<chain, lifecycle, tokens, due>>,
           snapshot' \in [Session -> [Token -> Block]], notify' \in [Session -> BOOLEAN],
           faults' \in 0 .. MaxFaults, excused' \in [Session -> [Token -> Block]],
           \A o \in Session, t \in Token : excused'[o][t] <= head,
           calls' = IF u.pc = "call" THEN calls \cup {<<"updater", s>>}
                    ELSE calls \ {<<"updater", s>>},
           IsFiniteSet(calls'), Cardinality(calls') <= Permits
    PROVE  PipelineInv'
<1>1. updater \in [Session -> Updater] /\ \A o \in Session : tick[o] => Running(o)
  BY UpdaterTypes DEF PipelineInv
<1>2. /\ updater' \in [Session -> Updater]
      /\ \A o \in Session : updater'[o] = IF o = s THEN u ELSE updater[o]
  BY <1>1
<1>3. UpdaterTypeOK'
  BY <1>1, <1>2 DEF UpdaterTypeOK, Updater, Running
<1>4. Accounted(calls', worker, updater')
  BY <1>1, UpdaterHolds DEF PipelineInv
<1>5. PermitsAccounted'
  <2>1. worker' = worker
    BY DEF queues
  <2>2. calls' = {<<"queue", o>> : o \in {o \in Session : worker'[o].pc = "call"}}
            \cup {<<"updater", o>> : o \in {o \in Session : updater'[o].pc = "call"}}
    BY <1>4, <2>1, AccountedIs
  <2> QED BY <2>2 DEF PermitsAccounted
<1>6. QueueInv'
  <2>1. calls' \subseteq {"queue", "updater"} \X Session
    BY <1>4 DEF Accounted
  <2>2. SubscriptionTypeOK'
    BY <2>1 DEF PipelineInv, QueueInv, SubscriptionTypeOK, chain, lifecycle, tokens
  <2>3. DueInv' /\ CallsFinite' /\ head' = head
    BY DEF PipelineInv, QueueInv, DueInv, CallsFinite, chain, lifecycle, tokens
  <2>4. /\ \A o \in Session : Cancelled(o) => Cancelled(o)'
        /\ \A o \in Session : entry'[o] = "removed" => Cancelled(o)'
    BY EntriesStay DEF PipelineInv
  <2> QED BY <2>2, <2>3, <2>4, LifecycleFrame DEF PipelineInv
<1>7. StartInv'
  BY <1>2 DEF PipelineInv, StartInv, queues, lifecycle
<1> QED BY <1>3, <1>5, <1>6, <1>7 DEF PipelineInv

\* A step in which the updater neither starts nor ends a call and reads or writes nothing.
LEMMA UpdaterMoves ==
    ASSUME PipelineInv, NEW s \in Session, NEW u \in Updater,
           updater' = [updater EXCEPT ![s] = u], updater[s].pc # "call", u.pc # "call",
           entry[s] = "none" => u.pc = "unborn",
           tick' \in [Session -> BOOLEAN], \A o \in Session : o # s => tick'[o] = tick[o],
           tick'[s] => u.pc \in {"loop", "clone", "acquire", "call", "merge"},
           UNCHANGED <<connected, flaps>>, changed' \in [Session -> BOOLEAN],
           UNCHANGED queues, UNCHANGED <<chain, lifecycle, tokens, calls, history>>,
           snapshot' \in [Session -> [Token -> Block]], notify' \in [Session -> BOOLEAN]
    PROVE  PipelineInv'
<1>1. connected' \in BOOLEAN /\ flaps' \in 0 .. MaxFlaps
  BY UpdaterTypes DEF PipelineInv
<1>2. /\ faults' \in 0 .. MaxFaults /\ excused' \in [Session -> [Token -> Block]] /\ due' = due
      /\ \A o \in Session, t \in Token : excused'[o][t] <= head
  BY DEF PipelineInv, QueueInv, SubscriptionTypeOK, DueInv, history
<1>3. IsFiniteSet(calls') /\ Cardinality(calls') <= Permits
  BY DEF PipelineInv, QueueInv, SubscriptionTypeOK, CallsFinite
<1>4. <<"updater", s>> \notin calls
  BY AccountedIs DEF PipelineInv, PermitsAccounted, Accounted
<1>5. calls' = IF u.pc = "call" THEN calls \cup {<<"updater", s>>} ELSE calls \ {<<"updater", s>>}
  BY <1>4
<1> QED BY <1>1, <1>2, <1>3, <1>5, UpdaterFrame

\* What is there for an updater's step to start from.
LEMMA UpdaterState ==
    ASSUME PipelineInv, NEW s \in Session
    PROVE  /\ updater \in [Session -> Updater] /\ updater[s] \in Updater
           /\ tick \in [Session -> BOOLEAN] /\ changed \in [Session -> BOOLEAN]
           /\ tick[s] => updater[s].pc \in {"loop", "clone", "acquire", "call", "merge"}
           /\ updater[s].pc # "unborn" => entry[s] # "none"
           /\ snapshot \in [Session -> [Token -> Block]] /\ notify \in [Session -> BOOLEAN]
           /\ watched[s] \in SUBSET Token
BY UpdaterTypes DEF PipelineInv, Running, StartInv, QueueInv, SubscriptionTypeOK

\* The outer loop, and the branches of the inner one.
LEMMA LoopKeeps ==
    ASSUME PipelineInv, NEW s \in Session, UNCHANGED queues,
           \/ SpawnUpdater(s) \/ CheckGate(s) \/ Unpark(s) \/ ParkedCancelled(s)
           \/ LoopCancelled(s) \/ SeeConnection(s) \/ TickFires(s) \/ Notified(s)
    PROVE  PipelineInv'
<1>1. UNCHANGED <<connected, flaps, chain, lifecycle, tokens, snapshot, calls, history>>
  BY DEF SpawnUpdater, CheckGate, Unpark, ParkedCancelled, LoopCancelled, SeeConnection, TickFires,
         Notified, subscription, connection
<1>2. /\ updater \in [Session -> Updater] /\ updater[s] \in Updater
      /\ tick \in [Session -> BOOLEAN] /\ changed \in [Session -> BOOLEAN]
      /\ tick[s] => updater[s].pc \in {"loop", "clone", "acquire", "call", "merge"}
      /\ updater[s].pc # "unborn" => entry[s] # "none"
      /\ snapshot \in [Session -> [Token -> Block]] /\ notify \in [Session -> BOOLEAN]
  BY UpdaterState
<1>3. changed' \in [Session -> BOOLEAN] /\ notify' \in [Session -> BOOLEAN]
  BY <1>2 DEF SpawnUpdater, CheckGate, Unpark, ParkedCancelled, LoopCancelled, SeeConnection,
         TickFires, Notified, subscription, connection
<1>4. \E u \in Updater :
         /\ updater' = [updater EXCEPT ![s] = u]
         /\ updater[s].pc # "call" /\ u.pc # "call" /\ entry[s] # "none"
         /\ \/ tick' = [tick EXCEPT ![s] = TRUE] /\ u.pc = "loop"
            \/ tick' = [tick EXCEPT ![s] = FALSE]
            \/ tick' = tick /\ (tick[s] => u.pc = "loop")
  <2>1. CASE SpawnUpdater(s)
    <3>1. /\ updater[s].pc = "unborn" /\ entry[s] # "none" /\ tick' = tick
          /\ updater' = [updater EXCEPT ![s] = At("gate")]
      BY <2>1 DEF SpawnUpdater
    <3> QED BY <1>2, <3>1, UpdaterStates
  <2>2. CASE CheckGate(s)
    <3>1. /\ updater[s].pc = "gate"
          /\ \/ updater' = [updater EXCEPT ![s] = At("stopped")] /\ tick' = tick
             \/ updater' = [updater EXCEPT ![s] = At("parked")] /\ tick' = tick
             \/ updater' = [updater EXCEPT ![s] = At("loop")] /\ tick' = [tick EXCEPT ![s] = TRUE]
      BY <2>2 DEF CheckGate, EnterRun
    <3> QED BY <1>2, <3>1, UpdaterStates
  <2>3. CASE Unpark(s)
    <3>1. /\ updater[s].pc = "parked" /\ updater' = [updater EXCEPT ![s] = At("loop")]
          /\ tick' = [tick EXCEPT ![s] = TRUE]
      BY <2>3 DEF Unpark, EnterRun
    <3> QED BY <1>2, <3>1, UpdaterStates
  <2>4. CASE ParkedCancelled(s)
    <3>1. /\ updater[s].pc = "parked" /\ updater' = [updater EXCEPT ![s] = At("stopped")]
          /\ tick' = tick
      BY <2>4 DEF ParkedCancelled
    <3> QED BY <1>2, <3>1, UpdaterStates
  <2>5. CASE LoopCancelled(s)
    <3>1. /\ updater[s].pc = "loop" /\ updater' = [updater EXCEPT ![s] = At("gate")]
          /\ tick' = [tick EXCEPT ![s] = FALSE]
      BY <2>5 DEF LoopCancelled
    <3> QED BY <1>2, <3>1, UpdaterStates
  <2>6. CASE SeeConnection(s) /\ connected
    <3>1. /\ updater[s].pc = "loop" /\ updater' = updater /\ tick' = tick
      BY <2>6 DEF SeeConnection
    <3>2. updater' = [updater EXCEPT ![s] = updater[s]]
      BY <1>2, <3>1
    <3> QED BY <1>2, <3>1, <3>2
  <2>7. CASE SeeConnection(s) /\ ~connected
    <3>1. /\ updater[s].pc = "loop" /\ updater' = [updater EXCEPT ![s] = At("gate")]
          /\ tick' = [tick EXCEPT ![s] = FALSE]
      BY <2>7 DEF SeeConnection
    <3> QED BY <1>2, <3>1, UpdaterStates
  <2>8. CASE TickFires(s) \/ Notified(s)
    <3>1. /\ updater[s].pc = "loop" /\ updater' = [updater EXCEPT ![s] = At("clone")]
          /\ tick' = [tick EXCEPT ![s] = FALSE]
      BY <2>8 DEF TickFires, Notified
    <3> QED BY <1>2, <3>1, UpdaterStates
  <2> QED BY <2>1, <2>2, <2>3, <2>4, <2>5, <2>6, <2>7, <2>8
<1>5. PICK u \in Updater :
         /\ updater' = [updater EXCEPT ![s] = u]
         /\ updater[s].pc # "call" /\ u.pc # "call" /\ entry[s] # "none"
         /\ \/ tick' = [tick EXCEPT ![s] = TRUE] /\ u.pc = "loop"
            \/ tick' = [tick EXCEPT ![s] = FALSE]
            \/ tick' = tick /\ (tick[s] => u.pc = "loop")
  BY <1>4
<1>6. /\ tick' \in [Session -> BOOLEAN] /\ \A o \in Session : o # s => tick'[o] = tick[o]
      /\ tick'[s] => u.pc \in {"loop", "clone", "acquire", "call", "merge"}
  BY <1>2, <1>5
<1> QED BY <1>1, <1>2, <1>3, <1>5, <1>6, UpdaterMoves

\* A chunk is a part of what is left to read.
LEMMA ChunkIsPart ==
    ASSUME NEW todo, NEW chunk \in Chunks(todo)
    PROVE  chunk \subseteq todo
BY DEF Chunks

\* The read before and after a call.
LEMMA ReadKeeps ==
    ASSUME PipelineInv, NEW s \in Session, UNCHANGED queues, CloneWatchedTokens(s) \/ MergeChunk(s)
    PROVE  PipelineInv'
<1>1. /\ updater \in [Session -> Updater] /\ updater[s] \in Updater
      /\ tick \in [Session -> BOOLEAN] /\ changed \in [Session -> BOOLEAN]
      /\ updater[s].pc # "unborn" => entry[s] # "none"
      /\ snapshot \in [Session -> [Token -> Block]] /\ notify \in [Session -> BOOLEAN]
      /\ watched[s] \in SUBSET Token
  BY UpdaterState
<1>2. /\ UNCHANGED <<connected, flaps, changed, tick, notify, chain, lifecycle, tokens, calls, history>>
      /\ updater[s].pc \in {"clone", "merge"}
  BY DEF CloneWatchedTokens, MergeChunk, subscription, connection
<1>3. PICK todo \in SUBSET Token : updater' = [updater EXCEPT ![s] = NextChunk(todo)]
  BY <1>1 DEF CloneWatchedTokens, MergeChunk, Updater
<1>4. NextChunk(todo) \in Updater /\ NextChunk(todo).pc \in {"loop", "acquire"}
  BY UpdaterStates
<1>5. snapshot' \in [Session -> [Token -> Block]]
  <2>1. CASE CloneWatchedTokens(s)
    BY <1>1, <2>1 DEF CloneWatchedTokens, subscription
  <2>2. CASE MergeChunk(s)
    <3>1. updater[s].block \in Block /\ snapshot' = Merged(s, updater[s].answered, updater[s].block)
      BY <1>1, <2>2 DEF MergeChunk, Updater
    <3> QED BY <3>1, MergedGives DEF PipelineInv
  <2> QED BY <2>1, <2>2
<1> PICK u : u = NextChunk(todo)
  OBVIOUS
<1>6. u \in Updater /\ u.pc \in {"loop", "acquire"} /\ updater' = [updater EXCEPT ![s] = u]
  BY <1>3, <1>4
<1> QED BY <1>1, <1>2, <1>5, <1>6, UpdaterMoves

\* The call of a chunk, from the permit to its release.
LEMMA ChunkKeeps ==
    ASSUME PipelineInv, NEW s \in Session, UNCHANGED queues,
           AcquireForChunk(s) \/ ChunkAnswers(s) \/ ChunkFails(s) \/ ReadCancelled(s)
    PROVE  PipelineInv'
<1>1. /\ updater \in [Session -> Updater] /\ updater[s] \in Updater
      /\ tick \in [Session -> BOOLEAN] /\ changed \in [Session -> BOOLEAN]
      /\ updater[s].pc # "unborn" => entry[s] # "none"
      /\ snapshot \in [Session -> [Token -> Block]] /\ notify \in [Session -> BOOLEAN]
      /\ connected \in BOOLEAN /\ flaps \in 0 .. MaxFlaps
  BY UpdaterState, UpdaterTypes DEF PipelineInv
<1>2. /\ UNCHANGED <<connected, flaps, changed, tick, notify, snapshot, chain, lifecycle, tokens>>
      /\ updater[s].pc \in {"acquire", "call"}
      /\ Acquire(<<"updater", s>>) \/ Release(<<"updater", s>>)
  BY DEF AcquireForChunk, ChunkAnswers, ChunkFails, ReadCancelled, connection
<1>3. IsFiniteSet(calls') /\ Cardinality(calls') <= Permits
  <2>1. <<"updater", s>> \in {"queue", "updater"} \X Session
    OBVIOUS
  <2> QED BY <1>2, <2>1, PermitsKept DEF PipelineInv
<1>4. /\ due' = due /\ faults' \in 0 .. MaxFaults /\ excused' \in [Session -> [Token -> Block]]
      /\ \A o \in Session, t \in Token : excused'[o][t] <= head
  <2>1. CASE UNCHANGED history
    BY <2>1 DEF history, PipelineInv, QueueInv, SubscriptionTypeOK, DueInv
  <2>2. CASE Fault /\ (\E lost : Excuse(s, lost)) /\ UNCHANGED due
    BY <2>2, ExcuseKeeps, FaultKeeps DEF PipelineInv
  <2> QED BY <2>1, <2>2 DEF AcquireForChunk, ChunkAnswers, ChunkFails, ReadCancelled
<1>5. \E u \in Updater :
         /\ updater' = [updater EXCEPT ![s] = u]
         /\ u.pc \in {"loop", "acquire", "call", "merge"}
         /\ calls' = IF u.pc = "call" THEN calls \cup {<<"updater", s>>}
                     ELSE calls \ {<<"updater", s>>}
  <2>1. CASE AcquireForChunk(s)
    <3> PICK u : u = [updater[s] EXCEPT !.pc = "call"]
      OBVIOUS
    <3>1. updater' = [updater EXCEPT ![s] = u] /\ calls' = calls \cup {<<"updater", s>>}
      BY <2>1 DEF AcquireForChunk, Acquire
    <3>2. u \in Updater /\ u.pc = "call"
      BY <1>1 DEF Updater
    <3> QED BY <3>1, <3>2
  <2>2. CASE ChunkAnswers(s)
    <3>1. PICK chunk \in Chunks(updater[s].todo), block \in LatestBlocks :
          \E answered \in SUBSET chunk :
             updater' = [updater EXCEPT ![s] = [pc |-> "merge", todo |-> updater[s].todo \ chunk,
                                                answered |-> answered, block |-> block]]
      BY <2>2 DEF ChunkAnswers
    <3>2. PICK answered \in SUBSET chunk :
             updater' = [updater EXCEPT ![s] = [pc |-> "merge", todo |-> updater[s].todo \ chunk,
                                                answered |-> answered, block |-> block]]
      BY <3>1
    <3>3. updater[s].todo \subseteq Token /\ chunk \subseteq updater[s].todo /\ block \in Block
      BY <1>1, ChunkIsPart, SubscriptionAssumption
         DEF Updater, LatestBlocks, Block, PipelineInv, QueueInv, SubscriptionTypeOK
    <3> PICK u : u = [pc |-> "merge", todo |-> updater[s].todo \ chunk,
                      answered |-> answered, block |-> block]
      OBVIOUS
    <3>4. u \in Updater /\ u.pc = "merge"
      BY <3>3 DEF Updater
    <3>5. calls' = calls \ {<<"updater", s>>}
      BY <2>2 DEF ChunkAnswers, Release
    <3> QED BY <3>2, <3>4, <3>5
  <2>3. CASE ChunkFails(s)
    <3>1. PICK chunk \in Chunks(updater[s].todo) :
             updater' = [updater EXCEPT ![s] = NextChunk(updater[s].todo \ chunk)]
      BY <2>3 DEF ChunkFails
    <3>2. updater[s].todo \ chunk \in SUBSET Token
      BY <1>1 DEF Updater
    <3>3. calls' = calls \ {<<"updater", s>>}
      BY <2>3 DEF ChunkFails, Release
    <3> PICK u : u = NextChunk(updater[s].todo \ chunk)
      OBVIOUS
    <3>4. u \in Updater /\ u.pc \in {"loop", "acquire"}
      BY <3>2, UpdaterStates
    <3> QED BY <3>1, <3>3, <3>4
  <2>4. CASE ReadCancelled(s)
    <3>1. updater' = [updater EXCEPT ![s] = At("loop")] /\ calls' = calls \ {<<"updater", s>>}
      BY <2>4 DEF ReadCancelled, Release
    <3> QED BY <3>1, UpdaterStates
  <2> QED BY <2>1, <2>2, <2>3, <2>4
<1>6. PICK u \in Updater :
         /\ updater' = [updater EXCEPT ![s] = u]
         /\ u.pc \in {"loop", "acquire", "call", "merge"}
         /\ calls' = IF u.pc = "call" THEN calls \cup {<<"updater", s>>}
                     ELSE calls \ {<<"updater", s>>}
  BY <1>5
<1>7. entry[s] # "none" /\ u.pc \in {"loop", "clone", "acquire", "call", "merge"}
  BY <1>1, <1>2, <1>6
<1>8. /\ tick' \in [Session -> BOOLEAN] /\ \A o \in Session : o # s => tick'[o] = tick[o]
      /\ connected' \in BOOLEAN /\ flaps' \in 0 .. MaxFlaps /\ changed' \in [Session -> BOOLEAN]
      /\ snapshot' \in [Session -> [Token -> Block]] /\ notify' \in [Session -> BOOLEAN]
      /\ UNCHANGED <<chain, lifecycle, tokens, due>>
  BY <1>1, <1>2, <1>4
<1> QED BY <1>3, <1>4, <1>6, <1>7, <1>8, UpdaterFrame

\* The world: the connection comes and goes, the interval elapses.
LEMMA WorldKeeps ==
    ASSUME PipelineInv, UNCHANGED queues,
           SendConnected \/ (\E s \in Session : IntervalElapses(s))
    PROVE  PipelineInv'
<1>1. UNCHANGED subscription /\ updater' = updater
  BY DEF SendConnected, IntervalElapses
<1>2. QueueInv'
  <2>1. UNCHANGED queueVars
    BY <1>1 DEF queueVars
  <2> QED BY <2>1, QueueStutterKeeps DEF PipelineInv
<1>3. PermitsAccounted' /\ StartInv'
  BY <1>1 DEF PipelineInv, PermitsAccounted, StartInv, subscription, lifecycle, queues
<1>4. UpdaterTypeOK'
  <2>1. /\ connected \in BOOLEAN /\ flaps \in 0 .. MaxFlaps /\ changed \in [Session -> BOOLEAN]
        /\ tick \in [Session -> BOOLEAN] /\ updater \in [Session -> Updater] /\ MaxFlaps \in Nat
        /\ \A s \in Session : tick[s] => Running(s)
    BY UpdaterTypes, UpdaterAssumption DEF PipelineInv
  <2>2. CASE SendConnected
    <3>1. flaps' \in 0 .. MaxFlaps
      BY <2>1, <2>2 DEF SendConnected
    <3>2. connected' \in BOOLEAN /\ changed' \in [Session -> BOOLEAN] /\ tick' = tick
      BY <2>1, <2>2 DEF SendConnected
    <3> QED BY <1>1, <2>1, <3>1, <3>2 DEF UpdaterTypeOK, Updater, Running
  <2>3. CASE \E s \in Session : IntervalElapses(s)
    <3>1. PICK s \in Session : IntervalElapses(s)
      BY <2>3
    <3>2. Running(s) /\ tick' = [tick EXCEPT ![s] = TRUE] /\ UNCHANGED <<connected, flaps, changed>>
      BY <3>1 DEF IntervalElapses, connection
    <3> QED BY <1>1, <2>1, <3>2 DEF UpdaterTypeOK, Updater, Running
  <2> QED BY <2>2, <2>3
<1> QED BY <1>2, <1>3, <1>4 DEF PipelineInv

-----------------------------------------------------------------------------
(* The invariant of the composition.                                       *)

\* Every step of the updater preserves the invariant of the pipeline,
LEMMA UpdaterNextKeeps == ASSUME PipelineInv, UpdaterNext, UNCHANGED queues PROVE PipelineInv'
<1>1. CASE SendConnected \/ (\E s \in Session : IntervalElapses(s))
  BY <1>1, WorldKeeps
<1>2. CASE \E s \in Session : UpdaterStep(s)
  BY <1>2, LoopKeeps, ReadKeeps, ChunkKeeps DEF UpdaterStep
<1> QED BY <1>1, <1>2 DEF UpdaterNext

\* every step of the queue does,
LEMMA QueueNextKeeps == ASSUME PipelineInv, QueueNext, UNCHANGED updaters PROVE PipelineInv'
<1>1. QueueInv'
  BY QueueStepKeeps DEF PipelineInv, QueueStep
<1>2. UNCHANGED <<connected, flaps, changed, tick, updater>>
  BY DEF updaters, connection
<1>3. UpdaterTypeOK'
  BY <1>2 DEF PipelineInv, UpdaterTypeOK, Running
<1>4. PermitsAccounted'
  BY <1>2, QueueKeepsPermits DEF PipelineInv
<1>5. StartInv'
  <2>1. entry' = entry /\ shutdown' = shutdown
    BY ZenonT(60) DEF QueueNext, NewBlock, ListenerStep, TakeTransfer, FanoutDone, ListenerStops,
           AskWatched, Enqueue, WorkerStep, Collect, Flush, WorkerEnds, AcquirePermit, CallAnswers,
           CallRetried, CallExhausted, SendResult, ReceiverStep, SpawnReceiver, Receive,
           MergeResult, ReceiverStops, subscription, lifecycle
  <2>2. CASE listener' = listener
    BY <1>2, <2>1, <2>2 DEF PipelineInv, StartInv
  <2>3. CASE ListenerStep
    <3>1. CASE ListenerStops
      BY <1>2, <2>1, <3>1 DEF PipelineInv, StartInv, ListenerStops
    <3>2. CASE ~ListenerStops
      <4>1. listener'.pc # "stopped"
        BY <2>3, <3>2, AskWatchedGives, EnqueueGives, RestingStates
           DEF ListenerStep, TakeTransfer, FanoutDone, PipelineInv, Receiving
      <4> QED BY <1>2, <2>1, <4>1 DEF PipelineInv, StartInv
    <3> QED BY <3>1, <3>2
  <2>4. listener' = listener \/ ListenerStep
    BY ZenonT(60) DEF QueueNext, NewBlock, WorkerStep, Collect, Flush, WorkerEnds, AcquirePermit,
           CallAnswers, CallRetried, CallExhausted, SendResult, ReceiverStep, SpawnReceiver,
           Receive, MergeResult, ReceiverStops
  <2> QED BY <2>2, <2>3, <2>4, SMTT(60)
<1> QED BY <1>1, <1>3, <1>4, <1>5 DEF PipelineInv

\* and every step in the life of the session.
LEMMA LifecycleNextKeeps ==
    ASSUME PipelineInv, LifecycleNext, UNCHANGED <<queues, updaters>>
    PROVE  PipelineInv'
<1>1. QueueInv'
  BY LifecycleKeeps DEF PipelineInv
<1>2. /\ UNCHANGED <<connected, flaps, changed, tick, updater, worker, listener>>
  BY DEF updaters, connection, queues
<1>3. UpdaterTypeOK'
  BY <1>2 DEF PipelineInv, UpdaterTypeOK, Running
<1>4. calls' = calls
  BY DEF LifecycleNext, CreateSession, SetWatchedTokens, EvictAndNotify, PutDropped, ExpireSession,
         ShutdownSignal, CloseSseConnections
<1>5. PermitsAccounted'
  BY <1>2, <1>4 DEF PipelineInv, PermitsAccounted
<1>6. shutdown => shutdown'
  BY DEF LifecycleNext, CreateSession, SetWatchedTokens, EvictAndNotify, PutDropped, ExpireSession,
         ShutdownSignal, CloseSseConnections, lifecycle
<1>7. \A s \in Session : entry'[s] = "none" => entry[s] = "none"
  <2>1. entry \in [Session -> {"none", "registered", "removed"}]
    BY DEF PipelineInv, QueueInv, SubscriptionTypeOK
  <2> QED BY <2>1 DEF LifecycleNext, CreateSession, SetWatchedTokens, EvictAndNotify, PutDropped,
             ExpireSession, ShutdownSignal, CloseSseConnections, lifecycle
<1>8. StartInv'
  BY <1>2, <1>6, <1>7 DEF PipelineInv, StartInv
<1> QED BY <1>1, <1>3, <1>5, <1>8 DEF PipelineInv

\* The invariant holds at the start, when nobody calls.
LEMMA PipelineInit == ASSUME Init PROVE PipelineInv
<1>1. QueueInv
  BY QueueInitInv DEF Init
<1>2. Unborn \in Updater /\ Unborn.pc = "unborn"
  BY SubscriptionAssumption DEF Unborn, Updater, Block
<1>3. UpdaterTypeOK
  <2>1. 0 \in 0 .. MaxFlaps
    BY UpdaterAssumption
  <2>2. /\ connected = FALSE /\ flaps = 0 /\ changed = [s \in Session |-> FALSE]
        /\ tick = [s \in Session |-> FALSE] /\ updater = [s \in Session |-> Unborn]
    BY DEF Init, UpdaterInit
  <2> QED BY <1>2, <2>1, <2>2, UpdaterTypes
<1>4. PermitsAccounted
  <2>1. /\ calls = {} /\ \A s \in Session : worker[s].pc # "call" /\ updater[s].pc # "call"
    BY <1>2, RestingStates DEF Init, QueueInit, SubscriptionInit, UpdaterInit
  <2>2. Accounted(calls, worker, updater)
    BY <2>1 DEF Accounted
  <2> QED BY <2>2, AccountedIs DEF PermitsAccounted
<1>5. StartInv
  <2>1. listener.pc = "recv" /\ \A s \in Session : updater[s].pc = "unborn"
    BY <1>2, RestingStates DEF Init, QueueInit, UpdaterInit
  <2> QED BY <2>1 DEF StartInv
<1> QED BY <1>1, <1>3, <1>4, <1>5 DEF PipelineInv

\* A stuttering step changes nothing it speaks of.
LEMMA PipelineStutter == ASSUME PipelineInv, UNCHANGED vars PROVE PipelineInv'
<1>1. QueueInv'
  <2>1. UNCHANGED queueVars
    BY DEF vars, queueVars
  <2> QED BY <2>1, QueueStutterKeeps DEF PipelineInv
<1>2. /\ UNCHANGED <<connected, flaps, changed, tick, updater, worker, listener, calls, shutdown, entry>>
  BY DEF vars, updaters, connection, queues, subscription, lifecycle
<1>3. UpdaterTypeOK' /\ PermitsAccounted' /\ StartInv'
  BY <1>2 DEF PipelineInv, UpdaterTypeOK, Running, PermitsAccounted, StartInv
<1> QED BY <1>1, <1>3 DEF PipelineInv

\* So it holds in every state.
LEMMA PipelineInvariant == Spec => []PipelineInv
<1>1. PipelineInv /\ [Next]_vars => PipelineInv'
  BY UpdaterNextKeeps, QueueNextKeeps, LifecycleNextKeeps, PipelineStutter DEF Next
<1> QED BY <1>1, PipelineInit, PTL DEF Spec

\* Every reachable state of the composition has its declared shape; in particular the calls
\* of both producers together never exceed MULTICALL_PERMITS_COUNT.
THEOREM PipelineTypeCorrect == Spec => []TypeOK
<1>1. PipelineInv => TypeOK
  BY DEF PipelineInv, QueueInv, TypeOK
<1> QED BY <1>1, PipelineInvariant, PTL

\* A permit is held by a running call and by nothing else: no failure, retry, shutdown or
\* dropped stream leaks one.
THEOREM PermitsNeverLeak == Spec => []PermitsAccounted
<1>1. PipelineInv => PermitsAccounted
  BY DEF PipelineInv
<1> QED BY <1>1, PipelineInvariant, PTL

-----------------------------------------------------------------------------
(* What a session is promised.                                             *)

\* The block a read at latest is sure to reach for t.
Base(t) == IF moved[t] > MaxLag + 1 THEN moved[t] - MaxLag ELSE 1

\* The transfer has been seen and s has not been asked about it yet.
Coming(s, t, b) ==
    \/ Has(transfers, Requests(t, b))
    \/ s \in listener.todo /\ listener.event \in Requests(t, b)

\* The updater has still to read t, or has read it and not yet merged it.
Reading(u, ticking, notified, t, b) ==
    \/ u.pc \in {"unborn", "gate", "parked", "clone"}
    \/ ticking \/ notified
    \/ u.pc \in {"acquire", "call", "merge"} /\ t \in u.todo
    \/ u.pc = "merge" /\ t \in u.answered /\ u.block >= b

\* A PUT that added t is about to notify the updater.
Adding(s, t) == put[s].pc = "evicting" /\ t \in put[s].added

Promised(s, t, b) ==
    \/ Reflected(s, t, b) \/ Coming(s, t, b) \/ Adding(s, t)
    \/ Reading(updater[s], tick[s], notify[s], t, b)

\* NothingForgotten without the transfers that are due, and stronger where it matters: only
\* the tokens a PUT adds may rely on it, since a PUT can be dropped.
AllPromised ==
    \A s \in Session : Live(s) => \A t \in watched[s] : Promised(s, t, Base(t))

\* What is promised is on the chain, and a read at latest reaches it.
LEMMA BaseIsRead ==
    ASSUME QueueInv, NEW t \in Token
    PROVE  /\ Base(t) \in Nat /\ Base(t) <= head /\ Base(t) >= 1 /\ head \in Nat
           /\ \A block \in LatestBlocks : block \in Nat /\ block >= Base(t)
<1>1. /\ moved[t] \in Nat /\ moved[t] <= head /\ head \in Nat /\ head >= 1 /\ MaxLag \in Nat
  BY BlockIsNat, SubscriptionAssumption DEF QueueInv, SubscriptionTypeOK, DueInv
<1>2. Base(t) \in Nat /\ Base(t) <= head /\ Base(t) >= 1
  BY <1>1 DEF Base
<1>3. ASSUME NEW block \in LatestBlocks PROVE block \in Nat /\ block >= Base(t)
  <2>1. block \in Nat /\ block >= 1 /\ block + MaxLag >= head
    BY <1>1 DEF LatestBlocks
  <2> QED BY <1>1, <2>1 DEF Base
<1> QED BY <1>1, <1>2, <1>3

\* NothingForgotten is what the queue promises for the transfers that are due, and the
\* updater and the channel for the rest.
LEMMA PromisesSuffice ==
    ASSUME PipelineInv, AllReflected, AllPromised
    PROVE  NothingForgotten
<1> SUFFICES ASSUME NEW s \in Session, Live(s), NEW t \in watched[s]
             PROVE  \/ Needed(s, t) <= Max({snapshot[s][t], excused[s][t]})
                    \/ Owed(s, t, Needed(s, t))
  BY DEF NothingForgotten
<1> PICK n : n = Needed(s, t)
  OBVIOUS
<1> PICK back : back = IF moved[t] > MaxLag THEN moved[t] - MaxLag ELSE 0
  OBVIOUS
<1>1. /\ t \in Token /\ QueueInv
  BY DEF PipelineInv, QueueInv, SubscriptionTypeOK
<1>2. /\ moved[t] \in Nat /\ due[s][t] \in Nat /\ snapshot[s][t] \in Nat /\ excused[s][t] \in Nat
      /\ MaxLag \in Nat
  BY <1>1, BlockIsNat, SubscriptionAssumption DEF QueueInv, SubscriptionTypeOK
<1>3. n \in {due[s][t], Base(t)}
  <2> PICK d : d = due[s][t]
    OBVIOUS
  <2>1. n = Max({1, d, back})
    BY DEF Needed
  <2>2. d \in Nat /\ back \in Nat /\ 1 + d + back \in Nat /\ {1, d, back} # {}
        /\ {1, d, back} \subseteq 0 .. 1 + d + back
    BY <1>2
  <2>3. n \in {1, d, back} /\ \A y \in {1, d, back} : n >= y
    BY <2>1, <2>2, MaxIsGreatest
  <2>4. n >= 1 /\ n >= back
    BY <2>3
  <2> QED BY <1>2, <2>2, <2>3, <2>4 DEF Base
<1>4. \/ Reflected(s, t, n) \/ Coming(s, t, n) \/ Adding(s, t)
      \/ Reading(updater[s], tick[s], notify[s], t, n)
  BY <1>3 DEF AllReflected, AllPromised, Promised
<1>5. CASE Reflected(s, t, n)
  <2> PICK m : m = Max({snapshot[s][t], excused[s][t]})
    OBVIOUS
  <2>1. m \in {snapshot[s][t], excused[s][t]} /\ m >= snapshot[s][t] /\ m >= excused[s][t]
    BY <1>2, MaxOfTwo
  <2>2. n \in Nat
    BY <1>1, <1>2, <1>3, BaseIsRead
  <2>3. n <= snapshot[s][t] \/ n <= excused[s][t] => n <= m
    BY <1>2, <2>1, <2>2
  <2>4. OnWay(s, t, n) => Underway(s, t, n)
    BY <1>1, OnWayIs DEF QueueInv
  <2> QED BY <1>5, <2>3, <2>4 DEF Reflected, Owed
<1>6. CASE Coming(s, t, n)
  <2>1. transfers \in Seq(Request)
    BY <1>1 DEF QueueInv, QueueTypeOK
  <2>2. Has(transfers, Requests(t, n)) => \E r \in Range(transfers) : r.token = t /\ Serves(r.block, n)
    BY <2>1 DEF Has, Requests, Range
  <2>3. listener.event \in Requests(t, n)
          => listener.event.token = t /\ Serves(listener.event.block, n)
    BY DEF Requests
  <2> QED BY <1>6, <2>2, <2>3 DEF Coming, Owed
<1>7. CASE Adding(s, t) \/ Reading(updater[s], tick[s], notify[s], t, n)
  BY <1>7, SMTT(60) DEF Adding, Reading, Owed, WillRead
<1> QED BY <1>4, <1>5, <1>6, <1>7

-----------------------------------------------------------------------------
(* The queue keeps the promises.                                           *)

\* What the queue leaves alone.
LEMMA QueueLeavesAlone ==
    ASSUME QueueNext
    PROVE  entry' = entry /\ watched' = watched /\ put' = put /\ notify' = notify
BY ZenonT(60) DEF QueueNext, NewBlock, ListenerStep, TakeTransfer, FanoutDone, ListenerStops,
       AskWatched, Enqueue, WorkerStep, Collect, Flush, WorkerEnds, AcquirePermit, CallAnswers,
       CallRetried, CallExhausted, SendResult, ReceiverStep, SpawnReceiver, Receive, MergeResult,
       ReceiverStops, subscription, lifecycle, tokens

\* The listener asks every session that is served about the event it took.
LEMMA ComingIsAsked ==
    ASSUME PipelineInv, QueueNext, NEW s \in Session, NEW t \in watched[s], NEW b, Live(s),
           Coming(s, t, b)
    PROVE  Coming(s, t, b)' \/ OnWay(s, t, b)'
<1>1. /\ QueueInv /\ transfers \in Seq(Request) /\ listener \in Listener
  BY QueueTypes DEF PipelineInv, QueueInv
<1>2. CASE \E u \in Token : NewBlock(u)
  <2>1. PICK u \in Token : NewBlock(u)
    BY <1>2
  <2>2. listener' = listener
    BY <2>1 DEF NewBlock
  <2>3. CASE transfers' = transfers
    BY <2>2, <2>3 DEF Coming
  <2>4. CASE transfers' # transfers
    <3>1. PICK r : transfers' = Append(transfers, r) /\ \E block : r = [token |-> u, block |-> block]
                   /\ block \in {head'} \cup (IF Unpinned THEN {None} ELSE {})
      BY <2>1, <2>4 DEF NewBlock
    <3>2. r \in Request
      <4>1. head' \in Block /\ None \in Block
        BY <1>1, <2>1, SubscriptionAssumption
           DEF NewBlock, QueueInv, SubscriptionTypeOK, Block, None
      <4> QED BY <3>1, <4>1 DEF Request
    <3>3. Has(transfers, Requests(t, b)) => Has(transfers', Requests(t, b))
      BY <1>1, <3>1, <3>2, AppendHas
    <3> QED BY <2>2, <3>3 DEF Coming
  <2> QED BY <2>3, <2>4
<1>3. CASE TakeTransfer
  <2>1. /\ listener.pc = "recv" /\ transfers # <<>> /\ transfers' = Tail(transfers)
        /\ listener' = [Receiving EXCEPT !.pc = "fanout", !.event = Head(transfers),
                                         !.todo = {o \in Session : Registered(o)}]
    BY <1>3 DEF TakeTransfer
  <2>2. listener'.event = Head(transfers) /\ s \in listener'.todo
    BY <2>1 DEF Receiving, Live
  <2>3. Has(transfers, Requests(t, b))
    BY <1>1, <2>1 DEF Coming, QueueInv, ListenerInv
  <2>4. Head(transfers) \in Requests(t, b) \/ Has(transfers', Requests(t, b))
    BY <1>1, <2>1, <2>3, TailHas
  <2> QED BY <2>2, <2>4 DEF Coming
<1>4. CASE ListenerStops
  BY <1>4 DEF ListenerStops, Live, Cancelled
<1>5. CASE \E o \in Session : AskWatched(o)
  <2>1. PICK o \in Session : AskWatched(o)
    BY <1>5
  <2>2. /\ listener'.event = listener.event /\ listener'.todo = listener.todo \ {o}
        /\ listener'.sent = listener.sent /\ transfers' = transfers
        /\ listener'.queues = IF listener.event.token \in watched[o]
                              THEN listener.queues \cup {o} ELSE listener.queues
    BY <1>1, <2>1, AskWatchedGives
  <2>3. CASE Has(transfers, Requests(t, b)) \/ o # s
    BY <2>2, <2>3 DEF Coming
  <2>4. CASE o = s /\ s \in listener.todo /\ listener.event \in Requests(t, b)
    <3>1. listener.event.token = t
      BY <2>4 DEF Requests
    <3>2. s \in Pending'
      BY <1>1, <2>2, <2>4, <3>1 DEF Pending, QueueInv, ListenerInv
    <3> QED BY <2>2, <2>4, <3>2 DEF OnWay, Way
  <2> QED BY <2>3, <2>4 DEF Coming
<1>6. CASE (\E o \in Session : Enqueue(o)) \/ FanoutDone
  <2>1. listener.todo = {} /\ transfers' = transfers
    BY <1>6 DEF Enqueue, FanoutDone
  <2> QED BY <2>1 DEF Coming
<1>7. CASE \E o \in Session : WorkerStep(o) \/ ReceiverStep(o)
  <2>1. transfers' = transfers /\ listener' = listener
    BY <1>7 DEF WorkerStep, Collect, Flush, WorkerEnds, AcquirePermit, CallAnswers,
           CallRetried, CallExhausted, SendResult, ReceiverStep, SpawnReceiver, Receive, MergeResult,
           ReceiverStops
  <2> QED BY <2>1 DEF Coming
<1> QED BY <1>2, <1>3, <1>4, <1>5, <1>6, <1>7 DEF QueueNext, ListenerStep

\* The queue keeps every promise, and a new block brings its own.
LEMMA QueueKeepsPromises ==
    ASSUME PipelineInv, NodeKeepsUp, AllPromised, QueueNext, UNCHANGED updaters
    PROVE  AllPromised'
<1> SUFFICES ASSUME NEW s \in Session, Live(s)', NEW t \in watched'[s], NEW b, b = Base(t)'
             PROVE  Promised(s, t, b)'
  BY ZenonT(60) DEF AllPromised, Promised, Reflected, OnWay, Pending, Coming, Adding, Base
<1>1. /\ entry' = entry /\ watched' = watched /\ put' = put /\ notify' = notify
      /\ updater' = updater /\ tick' = tick
  BY QueueLeavesAlone DEF updaters
<1>2. QueueInv /\ t \in Token /\ t \in watched[s]
  BY <1>1 DEF PipelineInv, QueueInv, SubscriptionTypeOK
<1>3. Live(s)
  <2>1. entry[s] # "none"
    BY <1>1 DEF Live, Registered
  <2> QED BY <1>2, <2>1, LiveBefore DEF QueueStep
<1>4. ~Cancelled(s) /\ ~Cancelled(s)'
  BY <1>3 DEF Live
<1>5. Base(t) \in Nat /\ Base(t) <= head
  BY <1>2, BaseIsRead
<1>6. CASE b = Base(t)
  <2>1. Promised(s, t, b)
    BY <1>2, <1>3, <1>6 DEF AllPromised
  <2>2. CASE Reflected(s, t, b)
    BY <1>2, <1>4, <1>5, <1>6, <2>2, QueueKeepsReflected DEF Promised
  <2>3. CASE Coming(s, t, b)
    BY <1>2, <1>3, <2>3, ComingIsAsked DEF Promised, Reflected
  <2>4. CASE Adding(s, t) \/ Reading(updater[s], tick[s], notify[s], t, b)
    BY <1>1, <2>4 DEF Promised, Adding
  <2> QED BY <2>1, <2>2, <2>3, <2>4 DEF Promised
<1>7. CASE b # Base(t)
  <2>1. moved'[t] # moved[t]
    BY <1>7 DEF Base
  <2>2. PICK u \in Token : NewBlock(u)
    BY <2>1, ZenonT(60) DEF QueueNext, NewBlock, ListenerStep, TakeTransfer, FanoutDone,
           ListenerStops, AskWatched, Enqueue, WorkerStep, Collect, Flush, WorkerEnds,
           AcquirePermit, CallAnswers, CallRetried, CallExhausted, SendResult, ReceiverStep,
           SpawnReceiver, Receive, MergeResult, ReceiverStops, subscription, chain
  <2>3. moved \in [Token -> Block] /\ moved' = [moved EXCEPT ![u] = head'] /\ head' = head + 1
        /\ head < MaxBlock /\ head \in Nat /\ head >= 1 /\ MaxLag \in Nat /\ MaxBlock \in Nat
    BY <1>2, <2>2, SubscriptionAssumption DEF NewBlock, QueueInv, SubscriptionTypeOK
  <2>4. u = t /\ moved'[t] = head'
    BY <1>2, <2>1, <2>3
  <2>5. b <= head' /\ b \in Nat
    BY <2>3, <2>4 DEF Base
  <2>6. listener.pc # "stopped"
    BY <1>4 DEF PipelineInv, StartInv, Cancelled
  <2>7. PICK block \in {head'} \cup (IF Unpinned THEN {None} ELSE {}) :
           transfers' = Append(transfers, [token |-> t, block |-> block])
    BY <2>2, <2>4, <2>6 DEF NewBlock
  <2> PICK r : r = [token |-> t, block |-> block]
    OBVIOUS
  <2>8. r \in Request /\ r.token = t /\ r.block = block
    <3>1. head' \in Block /\ None \in Block
      BY <2>3 DEF Block, None
    <3> QED BY <1>2, <2>7, <3>1 DEF Request
  <2>9. Serves(r.block, b)
    BY <2>3, <2>5, <2>7, <2>8 DEF Serves
  <2>10. r \in Requests(t, b) /\ transfers \in Seq(Request)
    BY <1>2, <2>8, <2>9, QueueTypes DEF Requests, QueueInv
  <2>11. Has(transfers', Requests(t, b))
    BY <2>7, <2>8, <2>10, AppendHas
  <2> QED BY <2>11 DEF Promised, Coming
<1> QED BY <1>6, <1>7

-----------------------------------------------------------------------------
(* The life of a session keeps the promises.                               *)

\* A PUT, its end and its loss, for the session it is about.
LEMMA PutKeepsPromise ==
    ASSUME PipelineInv, NEW s \in Session, NEW t \in watched[s], NEW b \in Nat, b <= head,
           Adding(s, t),
           \/ \E list \in WatchList : SetWatchedTokens(s, list)
           \/ EvictAndNotify(s) \/ PutDropped(s)
    PROVE  notify'[s] \/ b <= excused'[s][t]
<1>1. QueueInv /\ t \in Token /\ notify \in [Session -> BOOLEAN]
  BY DEF PipelineInv, QueueInv, SubscriptionTypeOK
<1>2. CASE EvictAndNotify(s)
  BY <1>1, <1>2 DEF EvictAndNotify
<1>3. CASE PutDropped(s)
  <2>1. Excuse(s, put[s].added) /\ t \in put[s].added
    BY <1>3 DEF PutDropped, Adding
  <2>2. excused'[s][t] = head
    BY <1>1, <2>1, ExcuseKeeps
  <2> QED BY <2>2
<1> QED BY <1>2, <1>3 DEF SetWatchedTokens, Adding

\* The steps of a session's life that do not concern the PUT of s.
LEMMA AddingStays ==
    ASSUME QueueInv, LifecycleNext, NEW s \in Session, NEW t, Adding(s, t)
    PROVE  Adding(s, t)' \/ EvictAndNotify(s) \/ PutDropped(s)
<1>1. put \in [Session -> [pc : {"idle", "evicting"}, added : SUBSET Token]]
  BY DEF QueueInv, SubscriptionTypeOK
<1>2. CASE put'[s] = put[s]
  BY <1>2 DEF Adding
<1>3. CASE put'[s] # put[s]
  BY <1>1, <1>3 DEF LifecycleNext, CreateSession, SetWatchedTokens, EvictAndNotify, PutDropped,
        ExpireSession, ShutdownSignal, CloseSseConnections, tokens, Adding
<1> QED BY <1>2, <1>3

\* A token is watched anew: by a PUT that adds it, or in a session that is created, whose
\* updater has not read anything yet.
LEMMA NewlyWatched ==
    ASSUME PipelineInv, LifecycleNext, NEW s \in Session, NEW t \in watched'[s], t \notin watched[s]
    PROVE  Adding(s, t)' \/ updater[s].pc = "unborn"
<1>1. /\ watched \in [Session -> SUBSET Token]
      /\ put \in [Session -> [pc : {"idle", "evicting"}, added : SUBSET Token]]
  BY DEF PipelineInv, QueueInv, SubscriptionTypeOK
<1>2. CASE \E list \in WatchList : CreateSession(s, list)
  BY <1>2 DEF CreateSession, PipelineInv, StartInv
<1>3. CASE \E list \in WatchList : SetWatchedTokens(s, list)
  <2>1. PICK list \in WatchList : SetWatchedTokens(s, list)
    BY <1>3
  <2>2. /\ watched'[s] = list /\ put'[s] = [pc |-> "evicting", added |-> list \ watched[s]]
    BY <1>1, <2>1 DEF SetWatchedTokens
  <2> QED BY <2>2 DEF Adding
<1>4. CASE watched'[s] = watched[s]
  BY <1>4
<1>5. \/ \E list \in WatchList : CreateSession(s, list) \/ SetWatchedTokens(s, list)
      \/ watched'[s] = watched[s]
  BY <1>1 DEF LifecycleNext, CreateSession, SetWatchedTokens, EvictAndNotify, PutDropped,
        ExpireSession, ShutdownSignal, CloseSseConnections, tokens
<1> QED BY <1>2, <1>3, <1>4, <1>5

\* Creation, PUT, expiry and shutdown leave every watched token read or about to be.
LEMMA LifecycleKeepsPromises ==
    ASSUME PipelineInv, AllPromised, LifecycleNext, UNCHANGED <<queues, updaters>>
    PROVE  AllPromised'
<1> SUFFICES ASSUME NEW s \in Session, Live(s)', NEW t \in watched'[s], NEW b, b = Base(t)'
             PROVE  Promised(s, t, b)'
  BY ZenonT(60) DEF AllPromised, Promised, Reflected, OnWay, Pending, Coming, Adding, Base
<1>1. /\ updater' = updater /\ tick' = tick /\ listener' = listener /\ transfers' = transfers
      /\ UNCHANGED queues
  BY DEF updaters, queues
<1>2. UNCHANGED chain
  BY DEF LifecycleNext, CreateSession, SetWatchedTokens, EvictAndNotify, PutDropped,
        ExpireSession, ShutdownSignal, CloseSseConnections
<1>3. b = Base(t)
  BY <1>2 DEF Base, chain
<1>4. CASE t \notin watched[s]
  <2>1. Adding(s, t)' \/ updater[s].pc = "unborn"
    BY <1>4, NewlyWatched
  <2> QED BY <1>1, <2>1 DEF Promised, Reading
<1>5. CASE t \in watched[s]
  <2>1. QueueInv /\ t \in Token /\ notify \in [Session -> BOOLEAN]
    BY <1>5 DEF PipelineInv, QueueInv, SubscriptionTypeOK
  <2>2. b \in Nat /\ b <= head
    BY <1>3, <2>1, BaseIsRead
  <2>3. Live(s)
    <3>1. entry[s] # "none"
      BY <1>5, <2>1 DEF QueueInv, DueInv
    <3> QED BY <1>1, <2>1, <3>1, LiveBefore DEF QueueStep
  <2>4. Promised(s, t, b)
    BY <1>3, <1>5, <2>3 DEF AllPromised
  <2>5. notify[s] => notify'[s]
    BY <2>1 DEF LifecycleNext, CreateSession, SetWatchedTokens, EvictAndNotify, PutDropped,
        ExpireSession, ShutdownSignal, CloseSseConnections
  <2>6. CASE Reflected(s, t, b)
    BY <1>1, <1>5, <2>1, <2>2, <2>6, LifecycleKeepsReflected DEF Promised
  <2>7. CASE Coming(s, t, b)
    BY <1>1, <2>7 DEF Promised, Coming
  <2>8. CASE Adding(s, t)
    <3>1. Adding(s, t)' \/ EvictAndNotify(s) \/ PutDropped(s)
      BY <2>1, <2>8, AddingStays
    <3>2. EvictAndNotify(s) \/ PutDropped(s) => notify'[s] \/ b <= excused'[s][t]
      BY <1>5, <2>2, <2>8, PutKeepsPromise
    <3> QED BY <3>1, <3>2 DEF Promised, Reading, Reflected
  <2>9. CASE Reading(updater[s], tick[s], notify[s], t, b)
    BY <1>1, <2>5, <2>9 DEF Promised, Reading
  <2> QED BY <2>4, <2>6, <2>7, <2>8, <2>9 DEF Promised
<1> QED BY <1>4, <1>5

-----------------------------------------------------------------------------
(* The updater keeps the promises.                                         *)

\* What the updater does to the snapshot and the excuses, and what it leaves alone.
LEMMA UpdaterKeepsBalances ==
    ASSUME PipelineInv, UpdaterNext, NEW s \in Session, NEW t \in Token
    PROVE  /\ UNCHANGED <<chain, lifecycle, tokens, due>>
           /\ snapshot[s][t] \in Nat /\ snapshot'[s][t] \in Nat /\ snapshot'[s][t] >= snapshot[s][t]
           /\ excused[s][t] \in Nat /\ excused'[s][t] \in Nat /\ excused'[s][t] >= excused[s][t]
<1>1. /\ QueueInv /\ snapshot[s][t] \in Nat /\ excused[s][t] \in Nat
  BY BlockIsNat DEF PipelineInv, QueueInv, SubscriptionTypeOK
<1>2. UNCHANGED <<chain, lifecycle, tokens, due>>
  BY ZenonT(60) DEF UpdaterNext, SendConnected, IntervalElapses, UpdaterStep, SpawnUpdater,
         CheckGate, Unpark, ParkedCancelled, LoopCancelled, SeeConnection, TickFires, Notified,
         CloneWatchedTokens, AcquireForChunk, ChunkAnswers, ChunkFails, MergeChunk, ReadCancelled,
         subscription, history
<1>3. snapshot'[s][t] \in Nat /\ snapshot'[s][t] >= snapshot[s][t]
  <2>1. CASE snapshot' = snapshot
    BY <1>1, <2>1
  <2>2. CASE \E o \in Session : MergeChunk(o)
    <3>1. PICK o \in Session : MergeChunk(o)
      BY <2>2
    <3>2. updater[o].block \in Block /\ snapshot' = Merged(o, updater[o].answered, updater[o].block)
      BY <3>1, UpdaterState DEF MergeChunk, Updater
    <3> QED BY <1>1, <3>2, MergedGives
  <2> QED BY <2>1, <2>2 DEF UpdaterNext, SendConnected, IntervalElapses, UpdaterStep, SpawnUpdater,
         CheckGate, Unpark, ParkedCancelled, LoopCancelled, SeeConnection, TickFires, Notified,
         CloneWatchedTokens, AcquireForChunk, ChunkAnswers, ChunkFails, ReadCancelled, subscription
<1>4. excused'[s][t] \in Nat /\ excused'[s][t] >= excused[s][t]
  <2>1. CASE excused' = excused
    BY <1>1, <2>1
  <2>2. CASE \E o \in Session : \E lost : Excuse(o, lost)
    <3>1. PICK o \in Session : \E lost : Excuse(o, lost)
      BY <2>2
    <3>2. PICK lost : Excuse(o, lost)
      BY <3>1
    <3>3. excused' \in [Session -> [Token -> Block]] /\ excused'[s][t] >= excused[s][t]
      BY <1>1, <3>2, ExcuseKeeps
    <3> QED BY <3>3, BlockIsNat
  <2> QED BY <2>1, <2>2, ZenonT(60) DEF UpdaterNext, SendConnected, IntervalElapses, UpdaterStep,
         SpawnUpdater, CheckGate, Unpark, ParkedCancelled, LoopCancelled, SeeConnection, TickFires,
         Notified, CloneWatchedTokens, AcquireForChunk, ChunkAnswers, ChunkFails, MergeChunk,
         ReadCancelled, subscription, history
<1> QED BY <1>1, <1>2, <1>3, <1>4

\* The updater of s goes on reading t until it has merged or lost it.
LEMMA ReadGoesOn ==
    ASSUME PipelineInv, NEW s \in Session, UpdaterStep(s), NEW t \in watched[s], NEW b, b = Base(t),
           ~Cancelled(s), Reading(updater[s], tick[s], notify[s], t, b)
    PROVE  \/ Reading(updater'[s], tick'[s], notify'[s], t, b)
           \/ b <= snapshot'[s][t] \/ b <= excused'[s][t]
<1> PICK u : u = updater[s]
  OBVIOUS
<1>1. /\ updater \in [Session -> Updater] /\ u \in Updater /\ tick \in [Session -> BOOLEAN]
      /\ tick[s] => u.pc \in {"loop", "clone", "acquire", "call", "merge"}
      /\ notify \in [Session -> BOOLEAN] /\ watched[s] \in SUBSET Token
      /\ QueueInv
  BY UpdaterState DEF PipelineInv
<1>2. t \in Token /\ b \in Nat /\ b <= head /\ \A k \in LatestBlocks : k \in Nat /\ k >= b
  BY <1>1, BaseIsRead
<1>3. CASE SpawnUpdater(s)
  <2>1. updater'[s] = At("gate")
    BY <1>1, <1>3 DEF SpawnUpdater
  <2> QED BY <2>1, UpdaterStates DEF Reading
<1>4. CASE CheckGate(s) \/ Unpark(s)
  <2>1. updater'[s] = At("parked") \/ tick'[s]
    BY <1>1, <1>4 DEF CheckGate, Unpark, EnterRun
  <2> QED BY <2>1, UpdaterStates DEF Reading
<1>5. CASE ParkedCancelled(s) \/ LoopCancelled(s) \/ ReadCancelled(s)
  BY <1>5 DEF ParkedCancelled, LoopCancelled, ReadCancelled
<1>6. CASE SeeConnection(s)
  <2>1. updater'[s] = At("gate") \/ UNCHANGED <<updater, tick, notify>>
    BY <1>1, <1>6 DEF SeeConnection, subscription
  <2> QED BY <2>1, UpdaterStates DEF Reading
<1>7. CASE TickFires(s) \/ Notified(s)
  <2>1. updater'[s] = At("clone")
    BY <1>1, <1>7 DEF TickFires, Notified
  <2> QED BY <2>1, UpdaterStates DEF Reading
<1>8. CASE CloneWatchedTokens(s)
  <2>1. updater'[s] = NextChunk(watched[s]) /\ watched[s] # {}
    BY <1>1, <1>8 DEF CloneWatchedTokens
  <2>2. updater'[s].pc = "acquire" /\ updater'[s].todo = watched[s]
    BY <1>1, <2>1, UpdaterStates
  <2> QED BY <2>2 DEF Reading
<1>9. CASE AcquireForChunk(s)
  <2>1. /\ u.pc = "acquire" /\ updater'[s] = [u EXCEPT !.pc = "call"] /\ UNCHANGED <<tick, notify>>
    BY <1>1, <1>9 DEF AcquireForChunk
  <2>2. updater'[s].pc = "call" /\ updater'[s].todo = u.todo
    BY <1>1, <2>1 DEF Updater
  <2> QED BY <2>1, <2>2 DEF Reading
<1>10. CASE ChunkAnswers(s)
  <2>1. PICK chunk \in Chunks(u.todo), block \in LatestBlocks :
        \E answered \in SUBSET chunk :
           /\ updater' = [updater EXCEPT ![s] = [pc |-> "merge", todo |-> updater[s].todo \ chunk,
                                                 answered |-> answered, block |-> block]]
           /\ IF answered = chunk THEN UNCHANGED history
              ELSE Fault /\ Excuse(s, chunk \ answered) /\ UNCHANGED due
    BY <1>10 DEF ChunkAnswers
  <2>2. PICK answered \in SUBSET chunk :
           /\ updater' = [updater EXCEPT ![s] = [pc |-> "merge", todo |-> updater[s].todo \ chunk,
                                                 answered |-> answered, block |-> block]]
           /\ IF answered = chunk THEN UNCHANGED history
              ELSE Fault /\ Excuse(s, chunk \ answered) /\ UNCHANGED due
    BY <2>1
  <2>3. updater'[s] = [pc |-> "merge", todo |-> u.todo \ chunk, answered |-> answered, block |-> block]
    BY <1>1, <2>2
  <2>4. /\ updater'[s].pc = "merge" /\ updater'[s].todo = u.todo \ chunk
        /\ updater'[s].answered = answered /\ updater'[s].block = block
    BY <2>3
  <2>5. u.pc = "call" /\ UNCHANGED <<tick, notify>>
    BY <1>10 DEF ChunkAnswers
  <2>6. CASE tick[s] \/ notify[s]
    BY <2>5, <2>6 DEF Reading
  <2>7. CASE t \in u.todo
    <3>1. CASE t \notin chunk
      BY <2>4, <2>7, <3>1 DEF Reading
    <3>2. CASE t \in answered
      BY <1>2, <2>4, <3>2 DEF Reading
    <3>3. CASE t \in chunk \ answered
      <4>1. Excuse(s, chunk \ answered)
        BY <2>2, <3>3
      <4>2. excused'[s][t] = head
        BY <1>1, <1>2, <3>3, <4>1, ExcuseKeeps
      <4> QED BY <1>2, <4>2
    <3> QED BY <3>1, <3>2, <3>3
  <2> QED BY <2>5, <2>6, <2>7 DEF Reading
<1>11. CASE ChunkFails(s)
  <2>1. PICK chunk \in Chunks(u.todo) :
           /\ Excuse(s, chunk) /\ updater' = [updater EXCEPT ![s] = NextChunk(updater[s].todo \ chunk)]
    BY <1>11 DEF ChunkFails
  <2>2. u.pc = "call" /\ UNCHANGED <<tick, notify>>
    BY <1>11 DEF ChunkFails
  <2>3. updater'[s] = NextChunk(u.todo \ chunk) /\ u.todo \ chunk \in SUBSET Token
    BY <1>1, <2>1 DEF Updater
  <2>4. CASE tick[s] \/ notify[s]
    BY <2>2, <2>4 DEF Reading
  <2>5. CASE t \in u.todo /\ t \notin chunk
    <3>1. updater'[s].pc = "acquire" /\ updater'[s].todo = u.todo \ chunk
      BY <2>3, <2>5, UpdaterStates
    <3> QED BY <2>5, <3>1 DEF Reading
  <2>6. CASE t \in chunk
    <3>1. excused'[s][t] = head
      BY <1>1, <1>2, <2>1, <2>6, ExcuseKeeps
    <3> QED BY <1>2, <3>1
  <2> QED BY <2>2, <2>4, <2>5, <2>6 DEF Reading
<1>12. CASE MergeChunk(s)
  <2>1. /\ u.pc = "merge" /\ snapshot' = Merged(s, u.answered, u.block)
        /\ updater' = [updater EXCEPT ![s] = NextChunk(updater[s].todo)] /\ UNCHANGED <<tick, notify>>
    BY <1>12 DEF MergeChunk
  <2>2. updater'[s] = NextChunk(u.todo) /\ u.todo \in SUBSET Token /\ u.block \in Block /\ u.block \in Nat
    BY <1>1, <2>1, BlockIsNat DEF Updater
  <2>3. CASE tick[s] \/ notify[s]
    BY <2>1, <2>3 DEF Reading
  <2>4. CASE t \in u.todo
    <3>1. updater'[s].pc = "acquire" /\ updater'[s].todo = u.todo
      BY <2>2, <2>4, UpdaterStates
    <3> QED BY <2>4, <3>1 DEF Reading
  <2>5. CASE t \in u.answered /\ u.block >= b
    <3>1. snapshot'[s][t] \in Nat /\ snapshot'[s][t] >= u.block
      BY <1>1, <1>2, <2>1, <2>2, <2>5, MergedGives
    <3> QED BY <1>2, <2>2, <2>5, <3>1
  <2> QED BY <2>1, <2>3, <2>4, <2>5 DEF Reading
<1> QED BY <1>3, <1>4, <1>5, <1>6, <1>7, <1>8, <1>9, <1>10, <1>11, <1>12 DEF UpdaterStep

\* The steps of other updaters and of the world take nothing from this one.
LEMMA ReadUndisturbed ==
    ASSUME PipelineInv, UpdaterNext, NEW s \in Session, ~UpdaterStep(s), NEW t, NEW b,
           Reading(updater[s], tick[s], notify[s], t, b)
    PROVE  Reading(updater'[s], tick'[s], notify'[s], t, b)
<1>1. updater \in [Session -> Updater] /\ tick \in [Session -> BOOLEAN] /\ notify \in [Session -> BOOLEAN]
  BY UpdaterState
<1>2. CASE SendConnected \/ (\E o \in Session : IntervalElapses(o))
  <2>1. updater' = updater /\ notify' = notify /\ (tick[s] => tick'[s])
    BY <1>1, <1>2 DEF SendConnected, IntervalElapses, subscription
  <2> QED BY <2>1 DEF Reading
<1>3. CASE \E o \in Session : UpdaterStep(o)
  <2>1. PICK o \in Session : UpdaterStep(o) /\ o # s
    BY <1>3
  <2>2. updater'[s] = updater[s]
    BY <1>1, <2>1 DEF UpdaterStep, SpawnUpdater, CheckGate, Unpark, EnterRun, ParkedCancelled,
       LoopCancelled, SeeConnection, TickFires, Notified, CloneWatchedTokens, AcquireForChunk,
       ChunkAnswers, ChunkFails, MergeChunk, ReadCancelled
  <2>3. tick'[s] = tick[s] /\ notify'[s] = notify[s]
    BY <1>1, <2>1 DEF UpdaterStep, SpawnUpdater, CheckGate, Unpark, EnterRun, ParkedCancelled,
       LoopCancelled, SeeConnection, TickFires, Notified, CloneWatchedTokens, AcquireForChunk,
       ChunkAnswers, ChunkFails, MergeChunk, ReadCancelled, subscription
  <2> QED BY <2>2, <2>3
<1> QED BY <1>2, <1>3 DEF UpdaterNext

\* Nothing the updater does makes a refresh that is reflected or on its way disappear.
LEMMA UpdaterKeepsReflected ==
    ASSUME PipelineInv, UpdaterNext, UNCHANGED queues, NEW s \in Session, NEW t \in Token,
           NEW b \in Nat, Reflected(s, t, b)
    PROVE  Reflected(s, t, b)'
<1>1. /\ snapshot[s][t] \in Nat /\ snapshot'[s][t] \in Nat /\ snapshot'[s][t] >= snapshot[s][t]
      /\ excused[s][t] \in Nat /\ excused'[s][t] \in Nat /\ excused'[s][t] >= excused[s][t]
  BY UpdaterKeepsBalances
<1>2. CASE b <= snapshot[s][t] \/ b <= excused[s][t]
  <2>1. b <= snapshot'[s][t] \/ b <= excused'[s][t]
    BY <1>1, <1>2
  <2> QED BY <2>1 DEF Reflected
<1>3. CASE OnWay(s, t, b)
  <2>1. UNCHANGED <<listener, inbox, worker, outbox, receiver>>
    BY DEF queues
  <2>2. Pending' = Pending
    BY <2>1 DEF Pending
  <2> QED BY <1>3, <2>1, <2>2, WayUntouched DEF Reflected
<1> QED BY <1>2, <1>3 DEF Reflected

\* The updater keeps both invariants.
LEMMA UpdaterKeepsAll ==
    ASSUME PipelineInv, AllReflected, AllPromised, UpdaterNext, UNCHANGED queues
    PROVE  AllReflected' /\ AllPromised'
<1>1. ASSUME NEW s \in Session, Live(s)', NEW t \in watched'[s]
      PROVE  /\ t \in watched[s] /\ t \in Token /\ Live(s) /\ ~Cancelled(s)
             /\ due'[s][t] = due[s][t] /\ due[s][t] \in Nat /\ Base(t)' = Base(t) /\ Base(t) \in Nat
             /\ put' = put
  <2>1. watched \in [Session -> SUBSET Token] /\ QueueInv
    BY DEF PipelineInv, QueueInv, SubscriptionTypeOK
  <2>2. PICK x : x \in Token
    BY SubscriptionAssumption
  <2>3. UNCHANGED <<chain, lifecycle, tokens, due>>
    BY <2>2, UpdaterKeepsBalances
  <2>4. t \in watched[s] /\ t \in Token /\ put' = put
    BY <2>1, <2>3 DEF tokens
  <2>5. Live(s) /\ ~Cancelled(s)
    BY <1>1, <2>3 DEF Live, Registered, Cancelled, lifecycle
  <2>6. Base(t)' = Base(t) /\ Base(t) \in Nat
    BY <2>1, <2>3, <2>4, BaseIsRead DEF Base, chain
  <2>7. due'[s][t] = due[s][t] /\ due[s][t] \in Nat
    BY <2>1, <2>3, <2>4, BlockIsNat DEF QueueInv, SubscriptionTypeOK
  <2> QED BY <2>4, <2>5, <2>6, <2>7
<1>2. AllReflected'
  <2> SUFFICES ASSUME NEW s \in Session, Live(s)', NEW t \in watched'[s], NEW d, d = due'[s][t]
               PROVE  Reflected(s, t, d)'
    BY Zenon DEF AllReflected, Reflected, OnWay, Pending
  <2>1. t \in watched[s] /\ t \in Token /\ Live(s) /\ d = due[s][t] /\ d \in Nat
    BY <1>1
  <2>2. Reflected(s, t, d)
    BY <2>1 DEF AllReflected
  <2> QED BY <2>1, <2>2, UpdaterKeepsReflected
<1>3. AllPromised'
  <2> SUFFICES ASSUME NEW s \in Session, Live(s)', NEW t \in watched'[s], NEW b, b = Base(t)'
               PROVE  Promised(s, t, b)'
    BY ZenonT(60) DEF AllPromised, Promised, Reflected, OnWay, Pending, Coming, Adding, Base
  <2>1. /\ t \in watched[s] /\ t \in Token /\ Live(s) /\ ~Cancelled(s) /\ b = Base(t) /\ b \in Nat
        /\ put' = put
    BY <1>1
  <2>2. Promised(s, t, b)
    BY <2>1 DEF AllPromised
  <2>3. CASE Reflected(s, t, b)
    BY <2>1, <2>3, UpdaterKeepsReflected DEF Promised
  <2>4. CASE Coming(s, t, b) \/ Adding(s, t)
    BY <2>1, <2>4 DEF Promised, Coming, Adding, queues
  <2>5. CASE Reading(updater[s], tick[s], notify[s], t, b)
    <3>1. CASE UpdaterStep(s)
      BY <2>1, <2>5, <3>1, ReadGoesOn DEF Promised, Reflected
    <3>2. CASE ~UpdaterStep(s)
      BY <2>5, <3>2, ReadUndisturbed DEF Promised
    <3> QED BY <3>1, <3>2
  <2> QED BY <2>2, <2>3, <2>4, <2>5 DEF Promised
<1> QED BY <1>2, <1>3

-----------------------------------------------------------------------------
(* Nothing is forgotten.                                                   *)

\* Nothing is watched at the start, so nothing is owed.
LEMMA PromisesInit == ASSUME Init PROVE AllReflected /\ AllPromised
BY DEF Init, QueueInit, SubscriptionInit, AllReflected, AllPromised

\* Both promises are kept by every step of the pipeline,
LEMMA PromisesStep ==
    ASSUME PipelineInv, PipelineInv', NodeKeepsUp, AllReflected, AllPromised, Next
    PROVE  AllReflected' /\ AllPromised'
<1>1. QueueInv /\ QueueInv'
  BY DEF PipelineInv
<1>2. CASE LifecycleNext /\ UNCHANGED <<queues, updaters>>
  <2>1. AllReflected'
    BY <1>1, <1>2, AllReflectedStep DEF QueueStep
  <2> QED BY <1>2, <2>1, LifecycleKeepsPromises
<1>3. CASE QueueNext /\ UNCHANGED updaters
  <2>1. AllReflected'
    BY <1>1, <1>3, AllReflectedStep DEF QueueStep
  <2> QED BY <1>3, <2>1, QueueKeepsPromises
<1>4. CASE UpdaterNext /\ UNCHANGED queues
  BY <1>4, UpdaterKeepsAll
<1> QED BY <1>2, <1>3, <1>4 DEF Next

\* and by stuttering.
LEMMA PromisesStutter ==
    ASSUME AllReflected, AllPromised, UNCHANGED vars
    PROVE  AllReflected' /\ AllPromised'
<1>1. AllReflected'
  BY DEF AllReflected, Reflected, OnWay, Pending, Live, Registered, Cancelled, vars, subscription,
         queues, lifecycle, tokens, history
<1>2. AllPromised'
  BY DEF AllPromised, Promised, Reflected, OnWay, Pending, Coming, Adding, Base, Live, Registered,
         Cancelled, vars, subscription, queues, updaters, lifecycle, tokens, history, chain
<1> QED BY <1>1, <1>2

\* Neither an event, nor a PUT, nor a read can fall between the listener, the queue and the
\* updater: without waiting for the interval, every watched token of a session that is
\* served is cached at the block it has to be, or a refresh that brings it there is on its
\* way, unless that refresh was lost to a fault.  The hypothesis is that of
\* TransfersReachTheSnapshot.
THEOREM NothingIsForgotten ==
    ASSUME NodeKeepsUp
    PROVE  Spec => []NothingForgotten
<1>1. /\ PipelineInv /\ PipelineInv' /\ (AllReflected /\ AllPromised) /\ [Next]_vars
      => (AllReflected /\ AllPromised)'
  BY PromisesStep, PromisesStutter
<1>2. PipelineInv /\ (AllReflected /\ AllPromised) => NothingForgotten
  BY PromisesSuffice
<1>3. Init => AllReflected /\ AllPromised
  BY PromisesInit
<1> QED BY <1>1, <1>2, <1>3, PipelineInvariant, PTL DEF Spec
=============================================================================
