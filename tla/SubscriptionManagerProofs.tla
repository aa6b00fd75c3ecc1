---------------------- MODULE SubscriptionManagerProofs ----------------------
(***************************************************************************)
(* Theorems about the session registry, for any number of owners, devices, *)
(* handlers and connections, any cap and any TTL.                          *)
(***************************************************************************)
EXTENDS SubscriptionManager, FiniteSetTheorems, TLAPS

-----------------------------------------------------------------------------
(* The inductive invariant.                                                *)

AttachedPC == {"connecting", "open", "dropping"}

\* A handler in flight knows its session, and holds a Subscription exactly when
\* it is about to update it or to spawn its watchers.
UpsertShape ==
    \A r \in Request :
        /\ upserts[r].pc # "idle" => upserts[r].session \in Session
        /\ upserts[r].sub # Nil <=> upserts[r].pc \in {"replace", "spawn"}

\* Likewise for SSE connections.
StreamShape ==
    \A c \in Conn :
        /\ streams[c].pc # "idle" => streams[c].session \in Session
        /\ streams[c].sub # Nil <=> streams[c].pc \in AttachedPC

\* Bookkeeping of an absent session is blank.
AbsentIsBlank ==
    \A s \in Session :
        ~Registered(s) => clients[s] = 0 /\ idle_since[s] = Nil /\ leaked[s] = 0

\* An idle clock lags the sweep clock by at most one TTL.
IdleClock ==
    \A s \in Session :
        idle_since[s] # Nil => idle_since[s] <= SessionTtl + elapsed

\* The watchers about to be spawned belong to a registered or cancelled session.
SpawnIsReachable ==
    \A r \in Request :
        upserts[r].pc = "spawn" =>
            \/ IsCancelled(upserts[r].sub)
            \/ \E s \in Session : subscriptions[s] = upserts[r].sub

ShapeInv == TypeOK /\ UpsertShape /\ StreamShape
CountInv == AbsentIsBlank /\ IdleStamped /\ ClientsAccounted /\ AttachedStaysRegistered
WatcherInv == NoLeakedWatchers /\ SpawnedOnce /\ SpawnIsReachable

-----------------------------------------------------------------------------
\* The record a finished handler is reset to is a handler record.
LEMMA IdleHandlers ==
    /\ IdleUpsert \in UpsertHandler
    /\ IdleUpsert.pc = "idle" /\ IdleUpsert.sub = Nil
    /\ IdleStream \in StreamHandler
    /\ IdleStream.pc = "idle" /\ IdleStream.sub = Nil
BY DEF IdleUpsert, IdleStream, UpsertHandler, StreamHandler, UpsertPC, StreamPC

\* A POST/PUT handler that moves and takes or drops its subscription.
LEMMA AttachUpsert ==
    ASSUME upserts \in [Request -> UpsertHandler], NEW r \in Request,
           NEW pc \in UpsertPC, NEW sub \in SubId \cup {Nil},
           upserts' = [upserts EXCEPT ![r].pc = pc, ![r].sub = sub]
    PROVE  /\ upserts' \in [Request -> UpsertHandler]
           /\ upserts'[r].pc = pc /\ upserts'[r].sub = sub
           /\ upserts'[r].session = upserts[r].session
           /\ \A x \in Request \ {r} : upserts'[x] = upserts[x]
<1> DEFINE h == [upserts[r] EXCEPT !.pc = pc, !.sub = sub]
<1>1. upserts[r] \in UpsertHandler
  OBVIOUS
<1>2. upserts' = [upserts EXCEPT ![r] = h]
  OBVIOUS
<1>3. /\ h \in UpsertHandler
      /\ h.pc = pc /\ h.sub = sub /\ h.session = upserts[r].session
  BY <1>1 DEF UpsertHandler
<1> HIDE DEF h
<1> QED BY <1>2, <1>3, ZenonT(60)

\* A POST/PUT handler that moves, with the subscription it had or another one.
LEMMA MoveUpsert ==
    ASSUME upserts \in [Request -> UpsertHandler], NEW r \in Request,
           NEW pc \in UpsertPC, NEW sub \in SubId \cup {Nil},
           \/ upserts' = [upserts EXCEPT ![r].pc = pc, ![r].sub = sub]
           \/ upserts' = [upserts EXCEPT ![r].pc = pc] /\ sub = upserts[r].sub
    PROVE  /\ upserts' \in [Request -> UpsertHandler]
           /\ upserts'[r].pc = pc /\ upserts'[r].sub = sub
           /\ upserts'[r].session = upserts[r].session
           /\ \A x \in Request \ {r} : upserts'[x] = upserts[x]
<1>1. CASE upserts' = [upserts EXCEPT ![r].pc = pc, ![r].sub = sub]
  BY <1>1, AttachUpsert, ZenonT(60)
<1>2. CASE upserts' = [upserts EXCEPT ![r].pc = pc] /\ sub = upserts[r].sub
  <2> DEFINE h == [upserts[r] EXCEPT !.pc = pc]
  <2>1. upserts[r] \in UpsertHandler
    OBVIOUS
  <2>2. upserts' = [upserts EXCEPT ![r] = h]
    BY <1>2
  <2>3. /\ h \in UpsertHandler
        /\ h.pc = pc /\ h.sub = sub /\ h.session = upserts[r].session
    BY <2>1, <1>2 DEF UpsertHandler
  <2> HIDE DEF h
  <2> QED BY <2>2, <2>3
<1> QED BY <1>1, <1>2

\* An SSE connection that only moves to another step.
LEMMA StepStream ==
    ASSUME streams \in [Conn -> StreamHandler], NEW c \in Conn, NEW pc \in StreamPC,
           streams' = [streams EXCEPT ![c].pc = pc]
    PROVE  /\ streams' \in [Conn -> StreamHandler]
           /\ streams'[c].pc = pc /\ streams'[c].sub = streams[c].sub
           /\ streams'[c].session = streams[c].session
           /\ \A x \in Conn \ {c} : streams'[x] = streams[x]
<1> DEFINE h == [streams[c] EXCEPT !.pc = pc]
<1>1. streams[c] \in StreamHandler
  OBVIOUS
<1>2. streams' = [streams EXCEPT ![c] = h]
  OBVIOUS
<1>3. /\ h \in StreamHandler
      /\ h.pc = pc /\ h.sub = streams[c].sub /\ h.session = streams[c].session
  BY <1>1 DEF StreamHandler
<1> HIDE DEF h
<1> QED BY <1>2, <1>3

\* An SSE connection that moves and takes or drops its subscription.
LEMMA MoveStream ==
    ASSUME streams \in [Conn -> StreamHandler], NEW c \in Conn,
           NEW pc \in StreamPC, NEW sub \in SubId \cup {Nil},
           streams' = [streams EXCEPT ![c].pc = pc, ![c].sub = sub]
    PROVE  /\ streams' \in [Conn -> StreamHandler]
           /\ streams'[c].pc = pc /\ streams'[c].sub = sub
           /\ streams'[c].session = streams[c].session
           /\ \A x \in Conn \ {c} : streams'[x] = streams[x]
<1> DEFINE h == [streams[c] EXCEPT !.pc = pc, !.sub = sub]
<1>1. streams[c] \in StreamHandler
  OBVIOUS
<1>2. streams' = [streams EXCEPT ![c] = h]
  OBVIOUS
<1>3. /\ h \in StreamHandler
      /\ h.pc = pc /\ h.sub = sub /\ h.session = streams[c].session
  BY <1>1 DEF StreamHandler
<1> HIDE DEF h
<1> QED BY <1>2, <1>3

-----------------------------------------------------------------------------
(* Shape.                                                                  *)

\* An empty registry without handlers has the shape.
LEMMA InitShape == Init => ShapeInv
BY NilAssumption, BoundAssumption, IdleHandlers
   DEF Init, ShapeInv, TypeOK, UpsertShape, StreamShape, AttachedPC

\* POST/PUT handler steps keep the shape of the state.
LEMMA UpsertKeepsShape ==
    ASSUME ShapeInv, NEW r \in Request,
           \/ \E s \in Session : RequestArrives(r, s)
           \/ TokensRejected(r) \/ RequestDropped(r)
           \/ UpsertStep(r)
    PROVE  ShapeInv'
<1>0. /\ upserts \in [Request -> UpsertHandler]
      /\ subscriptions \in [Session -> SubId \cup {Nil}]
      /\ upserts[r].pc # "idle" => upserts[r].session \in Session
  BY DEF ShapeInv, TypeOK, UpsertShape
<1>1. ASSUME NEW s \in Session, RequestArrives(r, s)
      PROVE  ShapeInv'
  <2> DEFINE rec == [pc |-> "resolve", session |-> s, sub |-> Nil]
  <2>1. rec \in UpsertHandler
    BY DEF UpsertHandler, UpsertPC
  <2>2. upserts' = [upserts EXCEPT ![r] = rec]
    BY <1>1 DEF RequestArrives
  <2>3. upserts' \in [Request -> UpsertHandler] /\ UpsertShape'
    BY <1>0, <2>1, <2>2 DEF ShapeInv, UpsertShape
  <2> QED BY <1>1, <2>3
          DEF RequestArrives, ShapeInv, TypeOK, StreamShape, registry, tasks
<1>2. CASE TokensRejected(r) \/ RequestDropped(r) \/ UpsertRefused(r)
  <2>1. upserts' = [upserts EXCEPT ![r] = IdleUpsert]
    BY <1>2 DEF TokensRejected, RequestDropped, UpsertRefused
  <2>2. upserts' \in [Request -> UpsertHandler] /\ UpsertShape'
    BY <1>0, <2>1, IdleHandlers DEF ShapeInv, UpsertShape
  <2> QED BY <1>2, <2>2
          DEF TokensRejected, RequestDropped, UpsertRefused, ShapeInv, TypeOK,
              StreamShape, registry, tasks
<1>3. CASE UpsertRead(r)
  <2>1. PICK pc \in UpsertPC, sub \in SubId \cup {Nil} :
           /\ \/ upserts' = [upserts EXCEPT ![r].pc = pc, ![r].sub = sub]
              \/ upserts' = [upserts EXCEPT ![r].pc = pc] /\ sub = upserts[r].sub
           /\ sub # Nil <=> pc \in {"replace", "spawn"}
    <3>1. CASE Registered(upserts[r].session)
      BY <1>0, <1>3, <3>1 DEF UpsertRead, Registered, UpsertPC
    <3>2. CASE ~Registered(upserts[r].session)
      BY <1>3, <3>2 DEF UpsertRead, UpsertPC, ShapeInv, UpsertShape
    <3> QED BY <3>1, <3>2
  <2>2. upserts' \in [Request -> UpsertHandler] /\ UpsertShape'
    <3>1. /\ upserts' \in [Request -> UpsertHandler]
          /\ upserts'[r].pc = pc /\ upserts'[r].sub = sub
          /\ upserts'[r].session = upserts[r].session
          /\ \A x \in Request \ {r} : upserts'[x] = upserts[x]
      BY <1>0, <2>1, MoveUpsert
    <3> QED BY <1>0, <1>3, <2>1, <3>1 DEF UpsertRead, ShapeInv, UpsertShape
  <2> QED BY <1>3, <2>2
          DEF UpsertRead, ShapeInv, TypeOK, StreamShape, registry, tasks
<1>4. CASE UpsertExisting(r)
  <2> DEFINE sub == subscriptions[upserts[r].session]
  <2>1. sub \in SubId \cup {Nil} /\ sub # Nil /\ "replace" \in UpsertPC
    BY <1>0, <1>4 DEF UpsertExisting, Registered, UpsertPC
  <2>2. upserts' = [upserts EXCEPT ![r].pc = "replace", ![r].sub = sub]
    BY <1>4 DEF UpsertExisting
  <2>3. upserts' \in [Request -> UpsertHandler] /\ UpsertShape'
    <3> HIDE DEF sub
    <3>1. /\ upserts' \in [Request -> UpsertHandler]
          /\ upserts'[r].pc = "replace" /\ upserts'[r].sub = sub
          /\ upserts'[r].session = upserts[r].session
          /\ \A x \in Request \ {r} : upserts'[x] = upserts[x]
      BY <1>0, <2>1, <2>2, AttachUpsert
    <3> QED BY <1>0, <1>4, <2>1, <3>1 DEF UpsertExisting, ShapeInv, UpsertShape
  <2> QED BY <1>4, <2>3
          DEF UpsertExisting, ShapeInv, TypeOK, StreamShape, registry, tasks
<1>5. ASSUME NEW id \in SubId, CreateSession(r, id)
      PROVE  ShapeInv'
  <2>1. upserts' = [upserts EXCEPT ![r].pc = "spawn", ![r].sub = id]
    BY <1>5 DEF CreateSession
  <2>2. upserts' \in [Request -> UpsertHandler] /\ UpsertShape'
    <3>1. /\ upserts' \in [Request -> UpsertHandler]
          /\ upserts'[r].pc = "spawn" /\ upserts'[r].sub = id
          /\ upserts'[r].session = upserts[r].session
          /\ \A x \in Request \ {r} : upserts'[x] = upserts[x]
      <4>1. "spawn" \in UpsertPC /\ id \in SubId \cup {Nil}
        BY DEF UpsertPC
      <4> QED BY <1>0, <2>1, <4>1, AttachUpsert
    <3> QED BY <1>0, <1>5, <3>1, NilAssumption DEF CreateSession, ShapeInv, UpsertShape
  <2>3. upserts[r].session \in Session
    BY <1>0, <1>5 DEF CreateSession
  <2>4. /\ subscriptions' \in [Session -> SubId \cup {Nil}]
        /\ clients' \in [Session -> Nat]
        /\ idle_since' \in [Session -> Nat \cup {Nil}]
        /\ leaked' \in [Session -> 0 .. MaxLeaks]
    BY <1>5, <2>3, BoundAssumption DEF CreateSession, ShapeInv, TypeOK
  <2>5. /\ cancelled' \in [SubId -> BOOLEAN]
        /\ pipeline' \in [SubId -> {"none", "running", "stopped"}]
        /\ watched' \in [SubId -> Session \cup {Nil}]
    BY <1>5, <2>3 DEF CreateSession, ShapeInv, TypeOK
  <2> QED BY <1>5, <2>2, <2>4, <2>5 DEF CreateSession, ShapeInv, TypeOK, StreamShape
<1>6. CASE ReplaceWatchedTokens(r) \/ SpawnWatchers(r)
  <2>1. upserts' = [upserts EXCEPT ![r] = IdleUpsert]
    BY <1>6 DEF ReplaceWatchedTokens, SpawnWatchers
  <2>2. upserts' \in [Request -> UpsertHandler] /\ UpsertShape'
    BY <1>0, <2>1, IdleHandlers DEF ShapeInv, UpsertShape
  <2>3. upserts[r].session \in Session
    BY <1>0, <1>6 DEF ReplaceWatchedTokens, SpawnWatchers
  <2> QED BY <1>6, <2>2, <2>3
          DEF ReplaceWatchedTokens, SpawnWatchers, ShapeInv, TypeOK, StreamShape,
              registry
<1> QED BY <1>1, <1>2, <1>3, <1>4, <1>5, <1>6 DEF UpsertStep

\* SSE connection steps keep the shape of the state.
LEMMA StreamKeepsShape ==
    ASSUME ShapeInv, NEW c \in Conn,
           \/ \E s \in Session : StreamArrives(c, s)
           \/ ArrivalDropped(c) \/ HandshakeDropped(c) \/ StreamDropped(c)
           \/ StreamStep(c)
    PROVE  ShapeInv'
<1>0. /\ streams \in [Conn -> StreamHandler]
      /\ subscriptions \in [Session -> SubId \cup {Nil}]
      /\ streams[c].pc # "idle" => streams[c].session \in Session
      /\ streams[c].sub # Nil <=> streams[c].pc \in AttachedPC
      /\ streams[c].sub \in SubId \cup {Nil}
  BY DEF ShapeInv, TypeOK, StreamShape, StreamHandler
<1>1. ASSUME NEW s \in Session, StreamArrives(c, s)
      PROVE  ShapeInv'
  <2> DEFINE rec == [pc |-> "arrived", session |-> s, sub |-> Nil]
  <2>1. rec \in StreamHandler
    BY DEF StreamHandler, StreamPC
  <2>2. streams' = [streams EXCEPT ![c] = rec]
    BY <1>1 DEF StreamArrives
  <2>3. streams' \in [Conn -> StreamHandler] /\ StreamShape'
    BY <1>0, <2>1, <2>2 DEF ShapeInv, StreamShape, AttachedPC
  <2> QED BY <1>1, <2>3
          DEF StreamArrives, ShapeInv, TypeOK, UpsertShape, registry, tasks
<1>2. CASE SubscribeRefused(c) \/ ArrivalDropped(c) \/ HandshakeDropped(c) \/ Unsubscribe(c)
  <2>1. streams' = [streams EXCEPT ![c] = IdleStream]
    BY <1>2 DEF SubscribeRefused, ArrivalDropped, HandshakeDropped, Unsubscribe
  <2>2. streams' \in [Conn -> StreamHandler] /\ StreamShape'
    BY <1>0, <2>1, IdleHandlers DEF ShapeInv, StreamShape, AttachedPC
  <2>3. streams[c].session \in Session
    BY <1>0, <1>2 DEF SubscribeRefused, ArrivalDropped, HandshakeDropped, Unsubscribe
  <2>4. clients' \in [Session -> Nat] /\ idle_since' \in [Session -> Nat \cup {Nil}]
    BY <1>2, <2>3 DEF SubscribeRefused, ArrivalDropped, HandshakeDropped, Unsubscribe,
                      ShapeInv, TypeOK, registry
  <2>5. leaked' \in [Session -> 0 .. MaxLeaks]
    BY <1>2, <2>3, BoundAssumption
       DEF SubscribeRefused, ArrivalDropped, HandshakeDropped, Unsubscribe,
           ShapeInv, TypeOK, registry
  <2> QED BY <1>2, <2>2, <2>4, <2>5
          DEF SubscribeRefused, ArrivalDropped, HandshakeDropped, Unsubscribe,
              ShapeInv, TypeOK, UpsertShape, registry, tasks
<1>3. CASE Subscribe(c)
  <2> DEFINE sub == subscriptions[streams[c].session]
  <2>1. sub \in SubId \cup {Nil} /\ sub # Nil /\ streams[c].session \in Session
    BY <1>0, <1>3 DEF Subscribe, Registered
  <2>2. streams' = [streams EXCEPT ![c].pc = "connecting", ![c].sub = sub]
    BY <1>3 DEF Subscribe
  <2>3. streams' \in [Conn -> StreamHandler] /\ StreamShape'
    <3> HIDE DEF sub
    <3>1. /\ streams' \in [Conn -> StreamHandler]
          /\ streams'[c].pc = "connecting" /\ streams'[c].sub = sub
          /\ streams'[c].session = streams[c].session
          /\ \A x \in Conn \ {c} : streams'[x] = streams[x]
      <4>1. "connecting" \in StreamPC
        BY DEF StreamPC
      <4> QED BY <1>0, <2>1, <2>2, <4>1, MoveStream
    <3> QED BY <1>0, <1>3, <2>1, <3>1 DEF Subscribe, ShapeInv, StreamShape, AttachedPC
  <2>4. clients' \in [Session -> Nat] /\ idle_since' \in [Session -> Nat \cup {Nil}]
    BY <1>3, <2>1 DEF Subscribe, ShapeInv, TypeOK
  <2> QED BY <1>3, <2>3, <2>4 DEF Subscribe, ShapeInv, TypeOK, UpsertShape, tasks
<1>4. ASSUME NEW pc \in {"open", "dropping"}, streams[c].pc \in {"connecting", "open"},
             streams' = [streams EXCEPT ![c].pc = pc],
             UNCHANGED <<registry, tasks, upserts, elapsed, phase>>
      PROVE  ShapeInv'
  <2>1. /\ streams' \in [Conn -> StreamHandler]
        /\ streams'[c].pc = pc /\ streams'[c].sub = streams[c].sub
        /\ streams'[c].session = streams[c].session
        /\ \A x \in Conn \ {c} : streams'[x] = streams[x]
    <3>1. pc \in StreamPC
      BY DEF StreamPC
    <3> QED BY <1>0, <1>4, <3>1, StepStream
  <2>2. StreamShape'
    BY <1>0, <1>4, <2>1 DEF ShapeInv, StreamShape, AttachedPC
  <2> QED BY <1>4, <2>1, <2>2 DEF ShapeInv, TypeOK, UpsertShape, registry, tasks
<1>5. CASE OpenStream(c) \/ StreamDropped(c) \/ StreamEnds(c)
  BY <1>4, <1>5 DEF OpenStream, StreamDropped, StreamEnds
<1> QED BY <1>1, <1>2, <1>3, <1>5 DEF StreamStep

\* The tasks that are neither handlers nor connections.
BackgroundStep ==
    \/ Tick \/ CleanupSubs \/ ShutdownSignal \/ CloseSseConnections \/ Drained
    \/ \E id \in SubId : QueueError(id) \/ PipelineStops(id)

\* So do the background tasks, and stuttering.
LEMMA BackgroundKeepsShape ==
    ASSUME ShapeInv, BackgroundStep \/ UNCHANGED vars
    PROVE  ShapeInv'
<1> USE DEF ShapeInv, TypeOK, UpsertShape, StreamShape, registry, tasks
<1>1. CASE Tick
  BY <1>1, BoundAssumption DEF Tick
<1>2. CASE CleanupSubs
  BY <1>2, BoundAssumption DEF CleanupSubs
<1>3. CASE ShutdownSignal \/ CloseSseConnections
  BY <1>3, BoundAssumption DEF ShutdownSignal, CloseSseConnections
<1>4. ASSUME NEW id \in SubId, QueueError(id) \/ PipelineStops(id)
      PROVE  ShapeInv'
  BY <1>4 DEF QueueError, PipelineStops
<1>5. CASE UNCHANGED vars
  BY <1>5 DEF vars
<1> QED BY <1>1, <1>2, <1>3, <1>4, <1>5 DEF BackgroundStep, Drained

\* Every step keeps the shape of the state.
LEMMA NextKeepsShape == ShapeInv /\ [Next]_vars => ShapeInv'
BY UpsertKeepsShape, StreamKeepsShape, BackgroundKeepsShape DEF Next, BackgroundStep

\* The shape holds in every reachable state.
LEMMA ShapeHolds == Spec => []ShapeInv
BY InitShape, NextKeepsShape, PTL DEF Spec

\* Type correctness: every reachable state has the declared shape.
THEOREM TypeCorrect == Spec => []TypeOK
BY ShapeHolds, PTL DEF ShapeInv

-----------------------------------------------------------------------------
(* Counting attached connections.                                          *)

\* The connections attached to a session are a finite set, empty if there are none.
LEMMA AttachedFinite ==
    ASSUME NEW s
    PROVE  /\ IsFiniteSet(Attached(s))
           /\ Cardinality(Attached(s)) \in Nat
           /\ Cardinality(Attached(s)) = 0 <=> Attached(s) = {}
<1>1. Attached(s) \subseteq Conn
  BY DEF Attached
<1>2. IsFiniteSet(Attached(s))
  BY <1>1, FiniteAssumption, FS_Subset
<1> QED BY <1>2, FS_CardinalityType, FS_EmptySet

\* `subscribe` attaches one connection to one session.
LEMMA SubscribeAttaches ==
    ASSUME ShapeInv, NEW c \in Conn, Subscribe(c), NEW s, s = streams[c].session
    PROVE  /\ s \in Session
           /\ c \notin Attached(s) /\ Attached(s)' = Attached(s) \cup {c}
           /\ Cardinality(Attached(s)') = Cardinality(Attached(s)) + 1
           /\ \A t \in Session \ {s} : Attached(t)' = Attached(t)
           /\ streams'[c].session = s /\ streams'[c].sub = subscriptions[s]
           /\ streams'[c].pc = "connecting"
           /\ \A x \in Conn \ {c} : streams'[x] = streams[x]
<1>1. s \in Session /\ streams \in [Conn -> StreamHandler] /\ streams[c].pc = "arrived"
  BY DEF Subscribe, ShapeInv, StreamShape, TypeOK
<1>2. subscriptions[s] \in SubId \cup {Nil}
  BY <1>1 DEF ShapeInv, TypeOK
<1>3. streams' = [streams EXCEPT ![c].pc = "connecting", ![c].sub = subscriptions[s]]
  BY DEF Subscribe
<1>4. /\ streams'[c].pc = "connecting" /\ streams'[c].sub = subscriptions[s]
      /\ streams'[c].session = s
      /\ \A x \in Conn \ {c} : streams'[x] = streams[x]
  <2>1. "connecting" \in StreamPC
    BY DEF StreamPC
  <2> QED BY <1>1, <1>2, <1>3, <2>1, MoveStream, ZenonT(60)
<1>5. c \notin Attached(s)
  BY <1>1 DEF Attached
<1>6. Attached(s)' = Attached(s) \cup {c}
  BY <1>4 DEF Attached
<1>7. \A t \in Session \ {s} : Attached(t)' = Attached(t)
  BY <1>1, <1>4 DEF Attached
<1>8. Cardinality(Attached(s) \cup {c}) = Cardinality(Attached(s)) + 1
  BY <1>5, AttachedFinite, FS_AddElement
<1> QED BY <1>1, <1>4, <1>5, <1>6, <1>7, <1>8

\* A dropped handshake and `unsubscribe` detach one connection.
LEMMA DetachOne ==
    ASSUME ShapeInv, NEW c \in Conn, streams[c].pc \in AttachedPC,
           streams' = [streams EXCEPT ![c] = IdleStream],
           NEW s, s = streams[c].session
    PROVE  /\ s \in Session
           /\ c \in Attached(s) /\ Attached(s)' = Attached(s) \ {c}
           /\ Cardinality(Attached(s)) \in Nat \ {0}
           /\ Cardinality(Attached(s)') = Cardinality(Attached(s)) - 1
           /\ \A t \in Session \ {s} : Attached(t)' = Attached(t)
           /\ streams'[c].pc = "idle"
           /\ \A x \in Conn \ {c} : streams'[x] = streams[x]
<1>1. s \in Session /\ streams \in [Conn -> StreamHandler]
  BY DEF AttachedPC, ShapeInv, StreamShape, TypeOK
<1>2. /\ streams'[c].pc = "idle"
      /\ \A x \in Conn \ {c} : streams'[x] = streams[x]
  BY <1>1, IdleHandlers
<1>3. c \in Attached(s)
  BY DEF Attached, AttachedPC
<1>4. Attached(s)' = Attached(s) \ {c}
  BY <1>2 DEF Attached
<1>5. \A t \in Session \ {s} : Attached(t)' = Attached(t)
  BY <1>1, <1>2 DEF Attached
<1>6. Cardinality(Attached(s) \ {c}) = Cardinality(Attached(s)) - 1
  BY <1>3, AttachedFinite, FS_RemoveElement
<1>7. Cardinality(Attached(s)) \in Nat \ {0}
  BY <1>3, AttachedFinite
<1> QED BY <1>1, <1>2, <1>3, <1>4, <1>5, <1>6, <1>7

\* While the map is not cleared, an absent session has nobody attached.
LEMMA AbsentUnattached ==
    ASSUME ShapeInv, CountInv, phase # "closed", NEW s \in Session, ~Registered(s)
    PROVE  Attached(s) = {}
BY DEF Attached, AttachedPC, ShapeInv, StreamShape, CountInv, AttachedStaysRegistered,
       Registered

\* Nobody is counted before the first request.
LEMMA InitCount == Init => CountInv
BY IdleHandlers
   DEF Init, CountInv, AbsentIsBlank, IdleStamped, ClientsAccounted,
       AttachedStaysRegistered, Registered

\* POST/PUT handlers do not disturb the count; a new session starts at zero.
LEMMA UpsertKeepsCount ==
    ASSUME ShapeInv, CountInv, NEW r \in Request,
           \/ \E s \in Session : RequestArrives(r, s)
           \/ TokensRejected(r) \/ RequestDropped(r)
           \/ UpsertStep(r)
    PROVE  CountInv'
<1>1. CASE UNCHANGED <<registry, streams, phase>>
  BY <1>1 DEF registry, CountInv, AbsentIsBlank, IdleStamped, ClientsAccounted,
              AttachedStaysRegistered, Registered, Attached
<1>2. ASSUME NEW id \in SubId, CreateSession(r, id)
      PROVE  CountInv'
  <2> DEFINE s == upserts[r].session
  <2>1. /\ s \in Session /\ ~Registered(s)
        /\ subscriptions' = [subscriptions EXCEPT ![s] = id]
        /\ clients' = [clients EXCEPT ![s] = 0]
        /\ idle_since' = [idle_since EXCEPT ![s] = 0]
        /\ leaked' = [leaked EXCEPT ![s] = 0]
        /\ UNCHANGED <<streams, phase>>
    BY <1>2 DEF CreateSession, ShapeInv, UpsertShape
  <2>2. /\ subscriptions \in [Session -> SubId \cup {Nil}]
        /\ clients \in [Session -> Nat]
        /\ idle_since \in [Session -> Nat \cup {Nil}]
        /\ leaked \in [Session -> 0 .. MaxLeaks]
        /\ id # Nil /\ 0 # Nil
    BY NilAssumption DEF ShapeInv, TypeOK
  <2> HIDE DEF s
  <2>3. phase # "closed" => Attached(s) = {}
    BY <2>1, AbsentUnattached
  <2>4. \A t : Attached(t)' = Attached(t)
    BY <2>1 DEF Attached
  <2>5. AbsentIsBlank' /\ IdleStamped'
    BY <2>1, <2>2 DEF CountInv, AbsentIsBlank, IdleStamped, Registered
  <2>6. ClientsAccounted'
    <3> SUFFICES ASSUME phase' # "closed", NEW t \in Session, Registered(t)'
                 PROVE  clients'[t] = Cardinality(Attached(t)') + leaked'[t]
      BY DEF ClientsAccounted
    <3>1. CASE t = s
      BY <2>1, <2>2, <2>3, <2>4, <3>1, AttachedFinite
    <3>2. CASE t # s
      BY <2>1, <2>2, <2>4, <3>2 DEF CountInv, ClientsAccounted, Registered
    <3> QED BY <3>1, <3>2
  <2>7. AttachedStaysRegistered'
    <3> SUFFICES ASSUME phase' # "closed", NEW c \in Conn, streams[c].pc \in AttachedPC
                 PROVE  subscriptions'[streams[c].session] = streams[c].sub
      BY <2>1 DEF AttachedStaysRegistered, AttachedPC
    <3>1. streams[c].session # s
      BY <2>1, <2>3 DEF Attached, AttachedPC
    <3>2. streams[c].session \in Session
      BY DEF ShapeInv, StreamShape, AttachedPC
    <3>3. subscriptions[streams[c].session] = streams[c].sub
      BY <2>1 DEF CountInv, AttachedStaysRegistered, AttachedPC
    <3> QED BY <2>1, <2>2, <3>1, <3>2, <3>3
  <2> QED BY <2>5, <2>6, <2>7 DEF CountInv
<1>3. CASE \/ \E s \in Session : RequestArrives(r, s)
           \/ TokensRejected(r) \/ RequestDropped(r) \/ UpsertRead(r)
           \/ UpsertExisting(r) \/ UpsertRefused(r)
           \/ ReplaceWatchedTokens(r) \/ SpawnWatchers(r)
  BY <1>1, <1>3 DEF RequestArrives, TokensRejected, RequestDropped, UpsertRead,
                    UpsertExisting, UpsertRefused, ReplaceWatchedTokens, SpawnWatchers
<1> QED BY <1>2, <1>3 DEF UpsertStep

\* `subscribe` and `unsubscribe` change counter, idle stamp and attached set together.
LEMMA StreamKeepsCount ==
    ASSUME ShapeInv, CountInv, NEW c \in Conn,
           \/ \E s \in Session : StreamArrives(c, s)
           \/ ArrivalDropped(c) \/ HandshakeDropped(c) \/ StreamDropped(c)
           \/ StreamStep(c)
    PROVE  CountInv'
<1>0. /\ subscriptions \in [Session -> SubId \cup {Nil}]
      /\ clients \in [Session -> Nat]
      /\ idle_since \in [Session -> Nat \cup {Nil}]
      /\ leaked \in [Session -> 0 .. MaxLeaks]
      /\ streams \in [Conn -> StreamHandler]
      /\ 0 # Nil
  BY NilAssumption DEF ShapeInv, TypeOK
\* Steps of a connection that is not, and does not become, attached.
<1>1. ASSUME NEW rec, streams' = [streams EXCEPT ![c] = rec],
             streams[c].pc \notin AttachedPC, rec.pc \notin AttachedPC,
             UNCHANGED <<registry, phase>>
      PROVE  CountInv'
  <2>1. /\ streams'[c].pc \notin AttachedPC
        /\ \A x \in Conn \ {c} : streams'[x] = streams[x]
    BY <1>0, <1>1
  <2>2. \A t : Attached(t)' = Attached(t)
    BY <1>1, <2>1 DEF Attached, AttachedPC
  <2> QED BY <1>1, <2>1, <2>2
          DEF registry, CountInv, AbsentIsBlank, IdleStamped, ClientsAccounted,
              AttachedStaysRegistered, Registered, AttachedPC
<1>2. CASE \E s \in Session : StreamArrives(c, s)
  BY <1>1, <1>2 DEF StreamArrives, AttachedPC
<1>3. CASE SubscribeRefused(c) \/ ArrivalDropped(c)
  BY <1>1, <1>3, IdleHandlers DEF SubscribeRefused, ArrivalDropped, AttachedPC
\* Steps of an attached connection that stays attached.
<1>4. ASSUME NEW pc \in {"open", "dropping"}, streams[c].pc \in {"connecting", "open"},
             streams' = [streams EXCEPT ![c].pc = pc],
             UNCHANGED <<registry, phase>>
      PROVE  CountInv'
  <2>1. /\ streams'[c].pc = pc /\ streams'[c].sub = streams[c].sub
        /\ streams'[c].session = streams[c].session
        /\ \A x \in Conn \ {c} : streams'[x] = streams[x]
    <3>1. pc \in StreamPC
      BY DEF StreamPC
    <3> QED BY <1>0, <1>4, <3>1, StepStream
  <2>2. \A t : Attached(t)' = Attached(t)
    BY <1>4, <2>1 DEF Attached
  <2> QED BY <1>4, <2>1, <2>2
          DEF registry, CountInv, AbsentIsBlank, IdleStamped, ClientsAccounted,
              AttachedStaysRegistered, Registered
<1>5. CASE OpenStream(c) \/ StreamDropped(c) \/ StreamEnds(c)
  BY <1>4, <1>5 DEF OpenStream, StreamDropped, StreamEnds
<1>6. CASE Subscribe(c)
  <2>0. PICK s : s = streams[c].session
    OBVIOUS
  <2>1. /\ s \in Session
        /\ Cardinality(Attached(s)') = Cardinality(Attached(s)) + 1
        /\ \A t \in Session \ {s} : Attached(t)' = Attached(t)
        /\ streams'[c].session = s /\ streams'[c].sub = subscriptions[s]
        /\ \A x \in Conn \ {c} : streams'[x] = streams[x]
    BY <1>6, <2>0, SubscribeAttaches
  <2>2. /\ Registered(s)
        /\ clients' = [clients EXCEPT ![s] = @ + 1]
        /\ idle_since' = [idle_since EXCEPT ![s] = Nil]
        /\ UNCHANGED <<subscriptions, leaked, phase>>
    BY <1>6, <2>0 DEF Subscribe
  <2>3. AbsentIsBlank' /\ IdleStamped'
    BY <1>0, <2>1, <2>2 DEF CountInv, AbsentIsBlank, IdleStamped, Registered
  <2>4. ClientsAccounted'
    <3> SUFFICES ASSUME phase' # "closed", NEW t \in Session, Registered(t)'
                 PROVE  clients'[t] = Cardinality(Attached(t)') + leaked'[t]
      BY DEF ClientsAccounted
    <3>1. clients[t] = Cardinality(Attached(t)) + leaked[t]
      BY <2>2 DEF CountInv, ClientsAccounted, Registered
    <3>2. Cardinality(Attached(t)) \in Nat /\ leaked[t] \in Nat
      BY <1>0, AttachedFinite
    <3>3. CASE t = s
      BY <1>0, <2>1, <2>2, <3>1, <3>2, <3>3
    <3>4. CASE t # s
      BY <1>0, <2>1, <2>2, <3>1, <3>4
    <3> QED BY <3>3, <3>4
  <2>5. AttachedStaysRegistered'
    BY <2>1, <2>2 DEF CountInv, AttachedStaysRegistered
  <2> QED BY <2>3, <2>4, <2>5 DEF CountInv
<1>7. CASE HandshakeDropped(c)
  <2>0. PICK s : s = streams[c].session
    OBVIOUS
  <2>1. /\ s \in Session
        /\ Cardinality(Attached(s)) \in Nat \ {0}
        /\ Cardinality(Attached(s)') = Cardinality(Attached(s)) - 1
        /\ \A t \in Session \ {s} : Attached(t)' = Attached(t)
        /\ streams'[c].pc = "idle"
        /\ \A x \in Conn \ {c} : streams'[x] = streams[x]
    BY <1>7, <2>0, DetachOne DEF HandshakeDropped, AttachedPC
  <2>2. /\ leaked' = IF subscriptions[s] = streams[c].sub
                     THEN [leaked EXCEPT ![s] = @ + 1] ELSE leaked
        /\ streams[c].pc = "connecting"
        /\ UNCHANGED <<subscriptions, clients, idle_since, phase>>
    BY <1>7, <2>0 DEF HandshakeDropped
  <2>3. streams[c].sub # Nil
    BY <2>2 DEF ShapeInv, StreamShape, AttachedPC
  <2>4. phase # "closed" => subscriptions[s] = streams[c].sub
    BY <2>0, <2>2 DEF CountInv, AttachedStaysRegistered
  <2>5. AbsentIsBlank' /\ IdleStamped'
    BY <1>0, <2>1, <2>2, <2>3 DEF CountInv, AbsentIsBlank, IdleStamped, Registered
  <2>6. ClientsAccounted'
    <3> SUFFICES ASSUME phase' # "closed", NEW t \in Session, Registered(t)'
                 PROVE  clients'[t] = Cardinality(Attached(t)') + leaked'[t]
      BY DEF ClientsAccounted
    <3>1. clients[t] = Cardinality(Attached(t)) + leaked[t]
      BY <2>2 DEF CountInv, ClientsAccounted, Registered
    <3>2. leaked' = [leaked EXCEPT ![s] = @ + 1]
      BY <2>2, <2>4
    <3>3. CASE t = s
      BY <1>0, <2>1, <2>2, <3>1, <3>2, <3>3
    <3>4. CASE t # s
      BY <1>0, <2>1, <2>2, <3>1, <3>2, <3>4
    <3> QED BY <3>3, <3>4
  <2>7. AttachedStaysRegistered'
    BY <2>1, <2>2 DEF CountInv, AttachedStaysRegistered
  <2> QED BY <2>5, <2>6, <2>7 DEF CountInv
<1>8. CASE Unsubscribe(c)
  <2>0. PICK s : s = streams[c].session
    OBVIOUS
  <2> DEFINE counted == Registered(s) /\ clients[s] > 0
  <2>1. /\ s \in Session
        /\ Cardinality(Attached(s)) \in Nat \ {0}
        /\ Cardinality(Attached(s)') = Cardinality(Attached(s)) - 1
        /\ \A t \in Session \ {s} : Attached(t)' = Attached(t)
        /\ streams'[c].pc = "idle"
        /\ \A x \in Conn \ {c} : streams'[x] = streams[x]
    BY <1>8, <2>0, DetachOne DEF Unsubscribe, AttachedPC
  <2>2. /\ clients' = IF counted THEN [clients EXCEPT ![s] = @ - 1] ELSE clients
        /\ idle_since' = IF counted /\ clients[s] = 1
                         THEN [idle_since EXCEPT ![s] = 0] ELSE idle_since
        /\ UNCHANGED <<subscriptions, leaked, phase>>
    BY <1>8, <2>0 DEF Unsubscribe
  <2>3. AbsentIsBlank' /\ IdleStamped'
    BY <1>0, <2>1, <2>2 DEF CountInv, AbsentIsBlank, IdleStamped, Registered
  <2>4. phase # "closed" => counted
    <3> SUFFICES ASSUME phase # "closed" PROVE counted
      OBVIOUS
    <3>1. Registered(s)
      BY <1>8, <2>0 DEF Unsubscribe, CountInv, AttachedStaysRegistered, ShapeInv, StreamShape,
                  AttachedPC, Registered
    <3>2. clients[s] = Cardinality(Attached(s)) + leaked[s]
      BY <2>1, <3>1 DEF CountInv, ClientsAccounted
    <3> QED BY <1>0, <2>1, <3>1, <3>2
  <2>5. ClientsAccounted'
    <3> SUFFICES ASSUME phase' # "closed", NEW t \in Session, Registered(t)'
                 PROVE  clients'[t] = Cardinality(Attached(t)') + leaked'[t]
      BY DEF ClientsAccounted
    <3>1. clients[t] = Cardinality(Attached(t)) + leaked[t]
      BY <2>2 DEF CountInv, ClientsAccounted, Registered
    <3>2. clients' = [clients EXCEPT ![s] = @ - 1]
      BY <2>2, <2>4
    <3>3. CASE t = s
      BY <1>0, <2>1, <2>2, <3>1, <3>2, <3>3
    <3>4. CASE t # s
      BY <1>0, <2>1, <2>2, <3>1, <3>2, <3>4
    <3> QED BY <3>3, <3>4
  <2>6. AttachedStaysRegistered'
    BY <2>1, <2>2 DEF CountInv, AttachedStaysRegistered
  <2> QED BY <2>3, <2>5, <2>6 DEF CountInv
<1> QED BY <1>2, <1>3, <1>5, <1>6, <1>7, <1>8 DEF StreamStep

\* The sweep removes unattached sessions only, and clearing the map ends the count.
LEMMA BackgroundKeepsCount ==
    ASSUME ShapeInv, CountInv, BackgroundStep \/ UNCHANGED vars
    PROVE  CountInv'
<1>0. /\ subscriptions \in [Session -> SubId \cup {Nil}]
      /\ clients \in [Session -> Nat]
      /\ idle_since \in [Session -> Nat \cup {Nil}]
      /\ leaked \in [Session -> 0 .. MaxLeaks]
  BY DEF ShapeInv, TypeOK
<1>1. CASE Tick
  <2>1. /\ idle_since' = [s \in Session |->
                            IF idle_since[s] = Nil THEN Nil ELSE idle_since[s] + 1]
        /\ UNCHANGED <<subscriptions, clients, leaked, streams, phase>>
    BY <1>1 DEF Tick
  <2>2. \A s \in Session : idle_since'[s] = Nil <=> idle_since[s] = Nil
    BY <1>0, <2>1, NilAssumption
  <2>3. \A t : Attached(t)' = Attached(t)
    BY <2>1 DEF Attached
  <2> QED BY <2>1, <2>2, <2>3
          DEF CountInv, AbsentIsBlank, IdleStamped, ClientsAccounted,
              AttachedStaysRegistered, Registered
<1>2. CASE CleanupSubs
  <2>1. /\ subscriptions' = [s \in Session |-> IF Expired(s) THEN Nil ELSE subscriptions[s]]
        /\ idle_since' = [s \in Session |-> IF Expired(s) THEN Nil ELSE idle_since[s]]
        /\ leaked' = [s \in Session |-> IF Expired(s) THEN 0 ELSE leaked[s]]
        /\ phase # "closed"
        /\ UNCHANGED <<clients, streams, phase>>
    BY <1>2 DEF CleanupSubs
  <2>2. \A s \in Session : Expired(s) => Attached(s) = {}
    <3> SUFFICES ASSUME NEW s \in Session, Expired(s) PROVE Attached(s) = {}
      OBVIOUS
    <3>1. Cardinality(Attached(s)) + leaked[s] = 0
      BY <2>1 DEF Expired, CountInv, ClientsAccounted
    <3>2. leaked[s] \in Nat /\ Cardinality(Attached(s)) \in Nat
      BY <1>0, AttachedFinite
    <3> QED BY <3>1, <3>2, AttachedFinite
  <2>3. \A t : Attached(t)' = Attached(t)
    BY <2>1 DEF Attached
  <2>4. AbsentIsBlank' /\ IdleStamped'
    BY <1>0, <2>1 DEF Expired, CountInv, AbsentIsBlank, IdleStamped, Registered
  <2>5. ClientsAccounted'
    BY <2>1, <2>3 DEF CountInv, ClientsAccounted, Registered
  <2>6. AttachedStaysRegistered'
    <3> SUFFICES ASSUME NEW c \in Conn, streams[c].pc \in AttachedPC
                 PROVE  subscriptions'[streams[c].session] = streams[c].sub
      BY <2>1 DEF AttachedStaysRegistered, AttachedPC
    <3>1. streams[c].session \in Session /\ c \in Attached(streams[c].session)
      BY DEF ShapeInv, StreamShape, AttachedPC, Attached
    <3>2. subscriptions[streams[c].session] = streams[c].sub
      BY <2>1 DEF CountInv, AttachedStaysRegistered, AttachedPC
    <3> QED BY <2>1, <2>2, <3>1, <3>2
  <2> QED BY <2>4, <2>5, <2>6 DEF CountInv
<1>3. CASE CloseSseConnections
  BY <1>3 DEF CloseSseConnections, CountInv, AbsentIsBlank, IdleStamped,
              ClientsAccounted, AttachedStaysRegistered, Registered
<1>4. CASE ShutdownSignal
  BY <1>4 DEF ShutdownSignal, registry, CountInv, AbsentIsBlank, IdleStamped,
              ClientsAccounted, AttachedStaysRegistered, Registered, Attached
<1>5. CASE (\E id \in SubId : QueueError(id) \/ PipelineStops(id)) \/ UNCHANGED vars
  BY <1>5 DEF QueueError, PipelineStops, vars, registry, CountInv, AbsentIsBlank,
              IdleStamped, ClientsAccounted, AttachedStaysRegistered, Registered, Attached
<1> QED BY <1>1, <1>2, <1>3, <1>4, <1>5 DEF BackgroundStep, Drained

\* Every step keeps the count.
LEMMA NextKeepsCount == ShapeInv /\ CountInv /\ [Next]_vars => CountInv'
BY UpsertKeepsCount, StreamKeepsCount, BackgroundKeepsCount DEF Next, BackgroundStep

\* Shape and count hold in every reachable state.
LEMMA CountHolds == Spec => [](ShapeInv /\ CountInv)
BY InitShape, InitCount, NextKeepsShape, NextKeepsCount, PTL DEF Spec

\* The client counter is exact until shutdown, whatever the interleaving.
THEOREM CountersExact == Spec => []ClientsAccounted
BY CountHolds, PTL DEF CountInv

\* No attached connection ever loses its session to the cleanup sweep.
THEOREM AttachedNeverReaped == Spec => []AttachedStaysRegistered
BY CountHolds, PTL DEF CountInv

\* Every idle session carries the idle clock the sweep looks at.
THEOREM IdleAlwaysStamped == Spec => []IdleStamped
BY CountHolds, PTL DEF CountInv

-----------------------------------------------------------------------------
(* The idle clock.                                                         *)

\* The idle clock never outruns the sweep by more than one period.
LEMMA NextKeepsIdleClock ==
    ShapeInv /\ CountInv /\ IdleClock /\ [Next]_vars => IdleClock'
<1> SUFFICES ASSUME ShapeInv, CountInv, IdleClock, [Next]_vars
             PROVE  IdleClock'
  OBVIOUS
<1>0. /\ idle_since \in [Session -> Nat \cup {Nil}]
      /\ clients \in [Session -> Nat]
      /\ elapsed \in Nat /\ SessionTtl \in Nat /\ 0 # Nil
  BY NilAssumption, BoundAssumption DEF ShapeInv, TypeOK
<1>1. CASE UNCHANGED <<idle_since, elapsed>>
  BY <1>1 DEF IdleClock
\* Steps that stop or restart the idle clock of one session.
<1>2. ASSUME NEW s, NEW v \in {0, Nil}, idle_since' = [idle_since EXCEPT ![s] = v],
             UNCHANGED elapsed
      PROVE  IdleClock'
  BY <1>0, <1>2 DEF IdleClock
<1>3. CASE Tick
  BY <1>0, <1>3, NilAssumption DEF Tick, IdleClock
<1>4. CASE CleanupSubs
  <2> SUFFICES ASSUME NEW s \in Session, idle_since'[s] # Nil
               PROVE  idle_since'[s] <= SessionTtl + elapsed'
    BY DEF IdleClock
  <2>1. /\ idle_since'[s] = idle_since[s] /\ ~Expired(s) /\ elapsed' = 0
        /\ idle_since[s] \in Nat
    BY <1>0, <1>4 DEF CleanupSubs
  <2>2. Registered(s) /\ clients[s] = 0
    BY <1>0, <2>1, NilAssumption DEF CountInv, AbsentIsBlank, IdleStamped
  <2> QED BY <1>0, <2>1, <2>2 DEF Expired
<1>5. CASE CloseSseConnections
  BY <1>5 DEF CloseSseConnections, IdleClock
<1>6. ASSUME NEW r \in Request, NEW id \in SubId, CreateSession(r, id)
      PROVE  IdleClock'
  BY <1>2, <1>6 DEF CreateSession
<1>7. ASSUME NEW c \in Conn, Subscribe(c) \/ Unsubscribe(c)
      PROVE  IdleClock'
  <2>1. CASE Subscribe(c)
    BY <1>2, <2>1 DEF Subscribe
  <2>2. CASE Unsubscribe(c)
    BY <1>1, <1>2, <2>2 DEF Unsubscribe
  <2> QED BY <1>7, <2>1, <2>2
<1>8. ASSUME NEW r \in Request,
             \/ \E s \in Session : RequestArrives(r, s)
             \/ TokensRejected(r) \/ RequestDropped(r) \/ UpsertRead(r)
             \/ UpsertExisting(r) \/ UpsertRefused(r)
             \/ ReplaceWatchedTokens(r) \/ SpawnWatchers(r)
      PROVE  IdleClock'
  BY <1>1, <1>8 DEF RequestArrives, TokensRejected, RequestDropped, UpsertRead,
                    UpsertExisting, UpsertRefused, ReplaceWatchedTokens, SpawnWatchers,
                    registry
<1>9. ASSUME NEW c \in Conn,
             \/ \E s \in Session : StreamArrives(c, s)
             \/ ArrivalDropped(c) \/ HandshakeDropped(c) \/ StreamDropped(c)
             \/ SubscribeRefused(c) \/ OpenStream(c) \/ StreamEnds(c)
      PROVE  IdleClock'
  BY <1>1, <1>9 DEF StreamArrives, ArrivalDropped, HandshakeDropped, StreamDropped,
                    SubscribeRefused, OpenStream, StreamEnds, registry
<1>10. CASE \/ \E id \in SubId : QueueError(id) \/ PipelineStops(id)
            \/ ShutdownSignal \/ Drained \/ UNCHANGED vars
  BY <1>1, <1>10 DEF QueueError, PipelineStops, ShutdownSignal, Drained, registry, vars
<1> QED BY <1>3, <1>4, <1>5, <1>6, <1>7, <1>8, <1>9, <1>10
        DEF Next, UpsertStep, StreamStep

\* An idle session is reaped within two sweep periods.
THEOREM IdleBounded == Spec => []IdleBound
<1>1. Init => IdleClock
  BY DEF Init, IdleClock
<1>2. ShapeInv /\ IdleClock => IdleBound
  <2> SUFFICES ASSUME ShapeInv, IdleClock, NEW s \in Session, idle_since[s] # Nil
               PROVE  idle_since[s] <= 2 * SessionTtl
    BY DEF IdleBound
  <2>1. idle_since[s] \in Nat /\ elapsed \in 0 .. SessionTtl /\ SessionTtl \in Nat
    BY BoundAssumption DEF ShapeInv, TypeOK
  <2>2. idle_since[s] <= SessionTtl + elapsed
    BY DEF IdleClock
  <2> QED BY <2>1, <2>2
<1> QED BY <1>1, <1>2, CountHolds, NextKeepsIdleClock, PTL DEF Spec

-----------------------------------------------------------------------------
(* Watchers and isolation.                                                 *)

IsolationInv == WatcherInv /\ DeviceIsolation

\* Nothing is spawned and nothing is watched before the first request.
LEMMA InitIsolation == Init => IsolationInv
BY IdleHandlers
   DEF Init, IsolationInv, WatcherInv, NoLeakedWatchers, SpawnedOnce, SpawnIsReachable,
       DeviceIsolation, Registered

\* A POST/PUT handler writes and spawns for its own session only.
LEMMA UpsertKeepsIsolation ==
    ASSUME ShapeInv, IsolationInv, NEW r \in Request,
           \/ \E s \in Session : RequestArrives(r, s)
           \/ TokensRejected(r) \/ RequestDropped(r)
           \/ UpsertStep(r)
    PROVE  IsolationInv'
<1>0. /\ subscriptions \in [Session -> SubId \cup {Nil}]
      /\ pipeline \in [SubId -> {"none", "running", "stopped"}]
      /\ cancelled \in [SubId -> BOOLEAN]
      /\ watched \in [SubId -> Session \cup {Nil}]
      /\ upserts \in [Request -> UpsertHandler]
      /\ upserts[r].sub \in SubId \cup {Nil}
      /\ upserts[r].pc # "idle" => upserts[r].session \in Session
      /\ upserts[r].sub # Nil <=> upserts[r].pc \in {"replace", "spawn"}
  BY DEF ShapeInv, TypeOK, UpsertShape, UpsertHandler
\* The handler ends, or moves to a step before "spawn"; nobody's tokens change.
<1>1. ASSUME \A x \in Request \ {r} : upserts'[x] = upserts[x],
             upserts'[r].pc # "spawn",
             upserts'[r].sub # Nil => watched[upserts'[r].sub] = upserts'[r].session,
             UNCHANGED <<subscriptions, tasks, streams, phase>>
      PROVE  IsolationInv'
  <2>1. NoLeakedWatchers' /\ SpawnedOnce' /\ SpawnIsReachable'
    BY <1>1 DEF IsolationInv, WatcherInv, NoLeakedWatchers, SpawnedOnce,
                SpawnIsReachable, IsCancelled, tasks
  <2>2. DeviceIsolation'
    BY <1>1 DEF IsolationInv, DeviceIsolation, Registered, tasks
  <2> QED BY <2>1, <2>2 DEF IsolationInv, WatcherInv
<1>2. CASE \E s \in Session : RequestArrives(r, s)
  BY <1>0, <1>1, <1>2 DEF RequestArrives, registry
<1>3. CASE TokensRejected(r) \/ RequestDropped(r) \/ UpsertRefused(r)
  BY <1>0, <1>1, <1>3, IdleHandlers
     DEF TokensRejected, RequestDropped, UpsertRefused, registry
<1>4. ASSUME NEW pc \in {"write", "replace"}, NEW sub \in SubId \cup {Nil},
             \/ upserts' = [upserts EXCEPT ![r].pc = pc, ![r].sub = sub]
             \/ upserts' = [upserts EXCEPT ![r].pc = pc] /\ sub = upserts[r].sub,
             sub # Nil => sub = subscriptions[upserts[r].session],
             upserts[r].session \in Session,
             UNCHANGED <<subscriptions, tasks, streams, phase>>
      PROVE  IsolationInv'
  <2>1. pc \in UpsertPC
    BY DEF UpsertPC
  <2>2. /\ upserts'[r].pc = pc /\ upserts'[r].sub = sub
        /\ upserts'[r].session = upserts[r].session
        /\ \A x \in Request \ {r} : upserts'[x] = upserts[x]
    BY <1>0, <1>4, <2>1, MoveUpsert
  <2>3. sub # Nil => watched[sub] = upserts[r].session
    BY <1>4 DEF IsolationInv, DeviceIsolation, Registered
  <2> QED BY <1>1, <1>4, <2>2, <2>3
<1>5. CASE UpsertRead(r)
  <2>1. upserts[r].session \in Session /\ upserts[r].sub = Nil
    BY <1>0, <1>5 DEF UpsertRead
  <2>2. subscriptions[upserts[r].session] \in SubId \cup {Nil}
    BY <1>0, <2>1
  <2>3. CASE Registered(upserts[r].session)
    BY <1>4, <1>5, <2>1, <2>2, <2>3 DEF UpsertRead, registry
  <2>4. CASE ~Registered(upserts[r].session)
    BY <1>4, <1>5, <2>1, <2>2, <2>4 DEF UpsertRead, registry
  <2> QED BY <2>3, <2>4
<1>6. CASE UpsertExisting(r)
  <2>1. upserts[r].session \in Session
    BY <1>0, <1>6 DEF UpsertExisting
  <2>2. subscriptions[upserts[r].session] \in SubId \cup {Nil}
    BY <1>0, <2>1
  <2> QED BY <1>4, <1>6, <2>1, <2>2 DEF UpsertExisting, registry
<1>7. CASE ReplaceWatchedTokens(r)
  <2>1. watched[upserts[r].sub] = upserts[r].session /\ upserts[r].sub \in SubId
    BY <1>0, <1>7 DEF ReplaceWatchedTokens, IsolationInv, DeviceIsolation
  <2>2. watched' = watched
    BY <1>0, <1>7, <2>1 DEF ReplaceWatchedTokens
  <2> QED BY <1>0, <1>1, <1>7, <2>2, IdleHandlers
          DEF ReplaceWatchedTokens, registry, tasks
<1>8. CASE SpawnWatchers(r)
  <2>1. /\ upserts'[r] = IdleUpsert
        /\ \A x \in Request \ {r} : upserts'[x] = upserts[x]
        /\ UNCHANGED <<subscriptions, cancelled, watched, streams, phase>>
        /\ pipeline' = [pipeline EXCEPT ![upserts[r].sub] = "running"]
        /\ upserts[r].pc = "spawn" /\ upserts[r].sub \in SubId
    BY <1>0, <1>8 DEF SpawnWatchers, registry
  <2>2. NoLeakedWatchers'
    BY <1>0, <2>1 DEF IsolationInv, WatcherInv, NoLeakedWatchers, SpawnIsReachable,
                      IsCancelled
  <2>3. SpawnedOnce'
    BY <1>0, <2>1, IdleHandlers DEF IsolationInv, WatcherInv, SpawnedOnce
  <2>4. SpawnIsReachable'
    BY <2>1, IdleHandlers DEF IsolationInv, WatcherInv, SpawnIsReachable, IsCancelled
  <2>5. DeviceIsolation'
    BY <2>1, IdleHandlers DEF IsolationInv, DeviceIsolation, Registered
  <2> QED BY <2>2, <2>3, <2>4, <2>5 DEF IsolationInv, WatcherInv
<1>9. ASSUME NEW id \in SubId, CreateSession(r, id)
      PROVE  IsolationInv'
  <2>0. PICK s \in Session : s = upserts[r].session
    BY <1>0, <1>9 DEF CreateSession
  <2>1. /\ subscriptions' = [subscriptions EXCEPT ![s] = id]
        /\ cancelled' = [cancelled EXCEPT ![id] = FALSE]
        /\ pipeline' = [pipeline EXCEPT ![id] = "none"]
        /\ watched' = [watched EXCEPT ![id] = s]
        /\ UNCHANGED <<streams, phase>>
        /\ subscriptions[s] = Nil
    BY <1>9, <2>0 DEF CreateSession, Registered
  <2>2. /\ \A t \in Session : subscriptions[t] # id
        /\ \A x \in Request : upserts[x].sub # id
        /\ \A c \in Conn : streams[c].sub # id
        /\ pipeline[id] # "running"
    BY <1>9 DEF CreateSession, Unused, SenderAlive
  <2>3. /\ upserts'[r].pc = "spawn" /\ upserts'[r].sub = id
        /\ upserts'[r].session = s
        /\ \A x \in Request \ {r} : upserts'[x] = upserts[x]
    <3>1. upserts' = [upserts EXCEPT ![r].pc = "spawn", ![r].sub = id]
      BY <1>9 DEF CreateSession
    <3>2. /\ upserts \in [Request -> UpsertHandler] /\ id \in SubId \cup {Nil}
          /\ "spawn" \in UpsertPC
      BY <1>0 DEF UpsertPC
    <3>3. /\ upserts' \in [Request -> UpsertHandler]
          /\ upserts'[r].pc = "spawn" /\ upserts'[r].sub = id
          /\ upserts'[r].session = upserts[r].session
          /\ \A x \in Request \ {r} : upserts'[x] = upserts[x]
      BY <3>1, <3>2, AttachUpsert
    <3> QED BY <2>0, <3>3
  <2>4. /\ \A x \in Request : upserts[x].sub \in SubId \cup {Nil}
        /\ \A x \in Request : upserts[x].pc = "spawn" => upserts[x].sub # Nil
        /\ \A c \in Conn : streams[c].sub \in SubId \cup {Nil}
        /\ id # Nil
    BY NilAssumption DEF ShapeInv, TypeOK, UpsertShape, UpsertHandler, StreamHandler
  <2>5. \A t \in Session : subscriptions[t] # Nil => subscriptions'[t] = subscriptions[t]
    BY <1>0, <2>1
  <2>6. subscriptions'[s] = id
    BY <1>0, <2>1
  <2>7. \A x \in SubId \ {id} : IsCancelled(x)' <=> IsCancelled(x)
    BY <1>0, <2>1 DEF IsCancelled
  <2>8. NoLeakedWatchers'
    <3> SUFFICES ASSUME NEW x \in SubId, pipeline'[x] = "running"
                 PROVE  IsCancelled(x)' \/ \E t \in Session : subscriptions'[t] = x
      BY DEF NoLeakedWatchers
    <3>1. x # id /\ pipeline[x] = "running"
      BY <1>0, <2>1
    <3>2. IsCancelled(x) \/ \E t \in Session : subscriptions[t] = x
      BY <3>1 DEF IsolationInv, WatcherInv, NoLeakedWatchers
    <3>3. x # Nil
      BY NilAssumption
    <3> QED BY <2>5, <2>7, <3>1, <3>2, <3>3
  <2>9. SpawnIsReachable'
    <3> SUFFICES ASSUME NEW x \in Request, upserts'[x].pc = "spawn"
                 PROVE  \/ IsCancelled(upserts[x].sub)'
                        \/ \E t \in Session : subscriptions'[t] = upserts'[x].sub
      BY DEF SpawnIsReachable
    <3>1. CASE x = r
      BY <2>3, <2>6, <3>1
    <3>2. CASE x # r
      <4>1. upserts'[x] = upserts[x] /\ upserts[x].sub \in SubId \ {id}
        BY <2>2, <2>3, <2>4, <3>2
      <4>2. \/ IsCancelled(upserts[x].sub)
            \/ \E t \in Session : subscriptions[t] = upserts[x].sub
        BY <4>1 DEF IsolationInv, WatcherInv, SpawnIsReachable
      <4>3. CASE IsCancelled(upserts[x].sub)
        <5>1. PICK y \in SubId \ {id} : y = upserts[x].sub
          BY <4>1
        <5>2. IsCancelled(y)'
          BY <2>7, <4>3, <5>1
        <5>3. upserts'[x].sub = y
          BY <4>1, <5>1
        <5> QED BY <5>2, <5>3
      <4>4. CASE \E t \in Session : subscriptions[t] = upserts[x].sub
        BY <2>4, <2>5, <4>1, <4>4
      <4> QED BY <4>2, <4>3, <4>4
    <3> QED BY <3>1, <3>2
  <2>10. SpawnedOnce'
    BY <1>0, <2>1, <2>2, <2>3, <2>4 DEF IsolationInv, WatcherInv, SpawnedOnce
  <2>11. DeviceIsolation'
    <3>1. \A t \in Session : Registered(t)' => watched'[subscriptions'[t]] = t
      BY <1>0, <2>1, <2>2 DEF IsolationInv, DeviceIsolation, Registered
    <3>2. \A x \in Request :
            upserts'[x].sub # Nil => watched'[upserts'[x].sub] = upserts'[x].session
      BY <1>0, <2>1, <2>2, <2>3, <2>4 DEF IsolationInv, DeviceIsolation
    <3>3. \A c \in Conn :
            streams'[c].sub # Nil => watched'[streams'[c].sub] = streams'[c].session
      BY <1>0, <2>1, <2>2, <2>4 DEF IsolationInv, DeviceIsolation
    <3> QED BY <3>1, <3>2, <3>3 DEF DeviceIsolation
  <2> QED BY <2>8, <2>9, <2>10, <2>11 DEF IsolationInv, WatcherInv
<1> QED BY <1>2, <1>3, <1>5, <1>6, <1>7, <1>8, <1>9 DEF UpsertStep

\* An SSE connection holds the Subscription of its own session.
LEMMA StreamKeepsIsolation ==
    ASSUME ShapeInv, IsolationInv, NEW c \in Conn,
           \/ \E s \in Session : StreamArrives(c, s)
           \/ ArrivalDropped(c) \/ HandshakeDropped(c) \/ StreamDropped(c)
           \/ StreamStep(c)
    PROVE  IsolationInv'
<1>0. /\ subscriptions \in [Session -> SubId \cup {Nil}]
      /\ streams \in [Conn -> StreamHandler]
      /\ streams[c].pc # "idle" => streams[c].session \in Session
      /\ streams[c].sub \in SubId \cup {Nil}
  BY DEF ShapeInv, TypeOK, StreamShape, StreamHandler
<1>1. ASSUME \A x \in Conn \ {c} : streams'[x] = streams[x],
             streams'[c].sub # Nil => watched[streams'[c].sub] = streams'[c].session,
             UNCHANGED <<subscriptions, tasks, upserts, phase>>
      PROVE  IsolationInv'
  <2>1. WatcherInv'
    BY <1>1 DEF IsolationInv, WatcherInv, NoLeakedWatchers, SpawnedOnce,
                SpawnIsReachable, IsCancelled, tasks
  <2>2. DeviceIsolation'
    BY <1>1 DEF IsolationInv, DeviceIsolation, Registered, tasks
  <2> QED BY <2>1, <2>2 DEF IsolationInv
<1>2. CASE \E s \in Session : StreamArrives(c, s)
  BY <1>0, <1>1, <1>2 DEF StreamArrives, registry
<1>3. CASE SubscribeRefused(c) \/ ArrivalDropped(c) \/ HandshakeDropped(c) \/ Unsubscribe(c)
  BY <1>0, <1>1, <1>3, IdleHandlers
     DEF SubscribeRefused, ArrivalDropped, HandshakeDropped, Unsubscribe, registry
<1>4. ASSUME NEW pc \in {"open", "dropping"},
             streams' = [streams EXCEPT ![c].pc = pc],
             UNCHANGED <<subscriptions, tasks, upserts, phase>>
      PROVE  IsolationInv'
  <2>1. /\ streams'[c].sub = streams[c].sub
        /\ streams'[c].session = streams[c].session
        /\ \A x \in Conn \ {c} : streams'[x] = streams[x]
    <3>1. pc \in StreamPC
      BY DEF StreamPC
    <3> QED BY <1>0, <1>4, <3>1, StepStream
  <2> QED BY <1>1, <1>4, <2>1 DEF IsolationInv, DeviceIsolation
<1>5. CASE OpenStream(c) \/ StreamDropped(c) \/ StreamEnds(c)
  BY <1>4, <1>5 DEF OpenStream, StreamDropped, StreamEnds, registry
<1>6. CASE Subscribe(c)
  <2>1. PICK s \in Session : s = streams[c].session /\ Registered(s)
    BY <1>0, <1>6 DEF Subscribe
  <2>2. /\ streams'[c].session = s /\ streams'[c].sub = subscriptions[s]
        /\ \A x \in Conn \ {c} : streams'[x] = streams[x]
    BY <1>6, <2>1, SubscribeAttaches
  <2>3. watched[subscriptions[s]] = s
    BY <2>1 DEF IsolationInv, DeviceIsolation
  <2> QED BY <1>1, <1>6, <2>2, <2>3 DEF Subscribe
<1> QED BY <1>2, <1>3, <1>5, <1>6 DEF StreamStep

\* A session leaves the registry only with its token cancelled.
LEMMA BackgroundKeepsIsolation ==
    ASSUME ShapeInv, IsolationInv, BackgroundStep \/ UNCHANGED vars
    PROVE  IsolationInv'
<1>0. /\ subscriptions \in [Session -> SubId \cup {Nil}]
      /\ pipeline \in [SubId -> {"none", "running", "stopped"}]
      /\ cancelled \in [SubId -> BOOLEAN]
      /\ \A r \in Request : upserts[r].pc = "spawn" => upserts[r].sub \in SubId
  BY DEF ShapeInv, TypeOK, UpsertShape, UpsertHandler
\* Tokens are only ever fired and entries only leave with their token fired.
<1>1. ASSUME UNCHANGED <<watched, upserts, streams>>,
             \A s \in Session : subscriptions'[s] \in {subscriptions[s], Nil},
             \A id \in SubId : pipeline'[id] = pipeline[id]
                                 \/ (pipeline[id] = "running" /\ pipeline'[id] = "stopped"),
             \A id \in SubId : IsCancelled(id) => IsCancelled(id)',
             \A s \in Session, id \in SubId :
                subscriptions[s] = id => subscriptions'[s] = id \/ IsCancelled(id)'
      PROVE  IsolationInv'
  <2>1. NoLeakedWatchers'
    BY <1>1 DEF IsolationInv, WatcherInv, NoLeakedWatchers
  <2>2. SpawnedOnce'
    BY <1>0, <1>1 DEF IsolationInv, WatcherInv, SpawnedOnce
  <2>3. SpawnIsReachable'
    <3> SUFFICES ASSUME NEW r \in Request, upserts[r].pc = "spawn"
                 PROVE  \/ IsCancelled(upserts[r].sub)'
                        \/ \E s \in Session : subscriptions'[s] = upserts[r].sub
      BY <1>1 DEF SpawnIsReachable
    <3>1. PICK id \in SubId : id = upserts[r].sub
      BY <1>0
    <3>2. IsCancelled(id) \/ \E s \in Session : subscriptions[s] = id
      BY <3>1 DEF IsolationInv, WatcherInv, SpawnIsReachable
    <3>3. IsCancelled(id)' \/ \E s \in Session : subscriptions'[s] = id
      BY <1>1, <3>2
    <3>4. upserts'[r].sub = id
      BY <1>1, <3>1
    <3> QED BY <3>1, <3>3, <3>4
  <2>4. DeviceIsolation'
    BY <1>1 DEF IsolationInv, DeviceIsolation, Registered
  <2> QED BY <2>1, <2>2, <2>3, <2>4 DEF IsolationInv, WatcherInv
<1>2. CASE CleanupSubs
  <2>1. /\ UNCHANGED <<watched, pipeline, upserts, streams, phase>>
        /\ \A s \in Session : subscriptions'[s] = IF Expired(s) THEN Nil ELSE subscriptions[s]
        /\ \A id \in SubId : cancelled'[id] <=>
              (cancelled[id] \/ \E s \in Session : Expired(s) /\ subscriptions[s] = id)
    BY <1>0, <1>2 DEF CleanupSubs
  <2>2. \A id \in SubId : IsCancelled(id) => IsCancelled(id)'
    BY <2>1 DEF IsCancelled
  <2>3. \A s \in Session, id \in SubId :
            subscriptions[s] = id => subscriptions'[s] = id \/ IsCancelled(id)'
    BY <2>1 DEF IsCancelled
  <2> QED BY <1>1, <2>1, <2>2, <2>3
<1>3. CASE CloseSseConnections
  <2>1. /\ UNCHANGED <<watched, pipeline, upserts, streams>> /\ phase' = "closed"
        /\ \A s \in Session : subscriptions'[s] = Nil
    BY <1>3 DEF CloseSseConnections, tasks
  <2>2. \A id \in SubId : IsCancelled(id)'
    BY <2>1 DEF IsCancelled
  <2> QED BY <1>1, <2>1, <2>2
<1>4. CASE ShutdownSignal
  <2>1. /\ UNCHANGED <<watched, pipeline, upserts, streams, subscriptions>>
        /\ phase' = "signalled"
    BY <1>4 DEF ShutdownSignal, tasks, registry
  <2>2. \A id \in SubId : IsCancelled(id)'
    BY <2>1 DEF IsCancelled
  <2> QED BY <1>1, <2>1, <2>2
<1>5. ASSUME NEW id \in SubId, QueueError(id)
      PROVE  IsolationInv'
  <2>1. /\ UNCHANGED <<watched, pipeline, upserts, streams, subscriptions, phase>>
        /\ cancelled' = [cancelled EXCEPT ![id] = TRUE]
    BY <1>5 DEF QueueError, registry
  <2>2. \A x \in SubId : IsCancelled(x) => IsCancelled(x)'
    BY <1>0, <2>1 DEF IsCancelled
  <2> QED BY <1>1, <2>1, <2>2
<1>6. ASSUME NEW id \in SubId, PipelineStops(id)
      PROVE  IsolationInv'
  <2>1. /\ UNCHANGED <<watched, upserts, streams, subscriptions, cancelled, phase>>
        /\ pipeline[id] = "running"
        /\ pipeline' = [pipeline EXCEPT ![id] = "stopped"]
    BY <1>6 DEF PipelineStops, registry
  <2>2. \A x \in SubId : IsCancelled(x) => IsCancelled(x)'
    BY <2>1 DEF IsCancelled
  <2> QED BY <1>0, <1>1, <2>1, <2>2
<1>7. CASE Tick \/ UNCHANGED vars
  <2>1. UNCHANGED <<watched, upserts, streams, subscriptions, cancelled, pipeline, phase>>
    BY <1>7 DEF Tick, vars, registry, tasks
  <2>2. \A x \in SubId : IsCancelled(x) => IsCancelled(x)'
    BY <2>1 DEF IsCancelled
  <2> QED BY <1>1, <2>1, <2>2
<1> QED BY <1>2, <1>3, <1>4, <1>5, <1>6, <1>7 DEF BackgroundStep, Drained

\* Shape, spawning and isolation hold in every reachable state.
LEMMA IsolationHolds == Spec => [](ShapeInv /\ IsolationInv)
<1>1. ShapeInv /\ IsolationInv /\ [Next]_vars => IsolationInv'
  BY UpsertKeepsIsolation, StreamKeepsIsolation, BackgroundKeepsIsolation
     DEF Next, BackgroundStep
<1> QED BY <1>1, InitShape, InitIsolation, NextKeepsShape, PTL DEF Spec

\* Running watchers can always be reached by their cancellation token's owner,
\* or have been cancelled: the create race never leaks a pipeline.
THEOREM WatchersNeverLeak == Spec => []NoLeakedWatchers
BY IsolationHolds, PTL DEF IsolationInv, WatcherInv

\* The watchers of a Subscription are spawned once.
THEOREM WatchersSpawnedOnce == Spec => []SpawnedOnce
BY IsolationHolds, PTL DEF IsolationInv, WatcherInv

\* No request or connection of one device reaches another device's Subscription.
THEOREM DevicesIsolated == Spec => []DeviceIsolation
BY IsolationHolds, PTL DEF IsolationInv
=============================================================================
