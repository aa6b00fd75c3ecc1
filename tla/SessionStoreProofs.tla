------------------------- MODULE SessionStoreProofs -------------------------
(***************************************************************************)
(* The session registry keeps to its cap and implements the abstract       *)
(* session store, for any number of owners, devices, handlers and          *)
(* connections.                                                            *)
(***************************************************************************)
EXTENDS SubscriptionManagerProofs

-----------------------------------------------------------------------------
(* Counting the sessions of an owner.                                      *)

\* There are finitely many sessions.
LEMMA SessionFinite == IsFiniteSet(Session)
<1> DEFINE f == [s \in Session |-> <<s.owner, s.client_id>>]
<1>1. f \in Injection(Session, Owner \X ClientId)
  BY DEF Injection, IsInjective, Session
<1>2. IsFiniteSet(Owner \X ClientId)
  BY FiniteAssumption, FS_Product
<1> HIDE DEF f
<1> QED BY <1>1, <1>2, FS_Injection

\* So an owner has finitely many.
LEMMA SessionsOfFinite ==
    ASSUME NEW o
    PROVE  IsFiniteSet(SessionsOf(o)) /\ Cardinality(SessionsOf(o)) \in Nat
<1>1. SessionsOf(o) \subseteq Session
  BY DEF SessionsOf
<1> QED BY <1>1, SessionFinite, FS_Subset, FS_CardinalityType

\* A step after which no session exists that did not exist before keeps the cap.
LEMMA NoNewSessionKeepsCap ==
    ASSUME OwnerCap, \A s \in Session : Registered(s)' => Registered(s)
    PROVE  OwnerCap'
<1> SUFFICES ASSUME NEW o \in Owner
             PROVE  Cardinality(SessionsOf(o)') <= MaxClientsPerOwner
  BY DEF OwnerCap
<1>1. SessionsOf(o)' \subseteq SessionsOf(o)
  BY DEF SessionsOf
<1>2. /\ Cardinality(SessionsOf(o)') <= Cardinality(SessionsOf(o))
      /\ IsFiniteSet(SessionsOf(o)')
  BY <1>1, SessionsOfFinite, FS_Subset
<1>3. Cardinality(SessionsOf(o)') \in Nat
  BY <1>2, FS_CardinalityType
<1> QED BY <1>2, <1>3, SessionsOfFinite, BoundAssumption DEF OwnerCap

\* `create_session_locked` adds one session, to an owner below the cap.
LEMMA CreateAddsOne ==
    ASSUME ShapeInv, NEW r \in Request, NEW id \in SubId, CreateSession(r, id),
           NEW s, s = upserts[r].session
    PROVE  /\ s \in Session /\ ~Registered(s) /\ Registered(s)'
           /\ \A t \in Session \ {s} : Registered(t)' <=> Registered(t)
           /\ Cardinality(SessionsOf(s.owner)) < MaxClientsPerOwner
           /\ SessionsOf(s.owner)' = SessionsOf(s.owner) \cup {s}
<1>1. s \in Session /\ subscriptions \in [Session -> SubId \cup {Nil}]
  BY DEF CreateSession, ShapeInv, UpsertShape, TypeOK
<1>2. /\ ~Registered(s) /\ ~AtOwnerCap(s)
      /\ subscriptions' = [subscriptions EXCEPT ![s] = id]
  BY DEF CreateSession
<1>3. /\ Registered(s)'
      /\ \A t \in Session \ {s} : Registered(t)' <=> Registered(t)
  BY <1>1, <1>2, NilAssumption DEF Registered
<1>4. Cardinality(SessionsOf(s.owner)) < MaxClientsPerOwner
  BY <1>2, SessionsOfFinite, BoundAssumption DEF AtOwnerCap
<1>5. SessionsOf(s.owner)' = SessionsOf(s.owner) \cup {s}
  BY <1>1, <1>3 DEF SessionsOf
<1> QED BY <1>1, <1>2, <1>3, <1>4, <1>5

\* Only `create_session_locked` brings a session into the map.
LEMMA OnlyCreateRegisters ==
    ASSUME ShapeInv, [Next]_vars,
           \A r \in Request, id \in SubId : ~CreateSession(r, id)
    PROVE  \A s \in Session : Registered(s)' => Registered(s)
<1>1. CASE UNCHANGED subscriptions
  BY <1>1 DEF Registered
<1>2. CASE CleanupSubs \/ CloseSseConnections
  BY <1>2 DEF CleanupSubs, CloseSseConnections, Registered, ShapeInv, TypeOK
<1>3. ASSUME NEW r \in Request,
             \/ UpsertStep(r) \/ (\E s \in Session : RequestArrives(r, s))
             \/ TokensRejected(r) \/ RequestDropped(r)
      PROVE  UNCHANGED subscriptions
  BY <1>3 DEF UpsertStep, UpsertRead, UpsertExisting, UpsertRefused, ReplaceWatchedTokens,
              SpawnWatchers, RequestArrives, TokensRejected, RequestDropped, registry
<1>4. ASSUME NEW c \in Conn,
             \/ StreamStep(c) \/ (\E s \in Session : StreamArrives(c, s))
             \/ ArrivalDropped(c) \/ HandshakeDropped(c) \/ StreamDropped(c)
      PROVE  UNCHANGED subscriptions
  BY <1>4 DEF StreamStep, SubscribeRefused, Subscribe, OpenStream, StreamEnds, Unsubscribe,
              StreamArrives, ArrivalDropped, HandshakeDropped, StreamDropped, registry
<1>5. CASE \/ Tick \/ ShutdownSignal \/ Drained \/ UNCHANGED vars
           \/ \E id \in SubId : QueueError(id) \/ PipelineStops(id)
  BY <1>1, <1>5 DEF Tick, ShutdownSignal, Drained, vars, QueueError, PipelineStops, registry
<1> QED BY <1>1, <1>2, <1>3, <1>4, <1>5 DEF Next

\* Concurrent creates never push an owner past MAX_CLIENTS_PER_OWNER: the cap check
\* and the insert of `upsert` share one write lock.
THEOREM CapNeverExceeded == Spec => []OwnerCap
<1>1. Init => OwnerCap
  <2> SUFFICES ASSUME Init, NEW o \in Owner
               PROVE  Cardinality(SessionsOf(o)) <= MaxClientsPerOwner
    BY DEF OwnerCap
  <2>1. SessionsOf(o) = {}
    BY DEF Init, SessionsOf, Registered
  <2> QED BY <2>1, FS_EmptySet, BoundAssumption
<1>2. ShapeInv /\ OwnerCap /\ [Next]_vars => OwnerCap'
  <2> SUFFICES ASSUME ShapeInv, OwnerCap, [Next]_vars
               PROVE  OwnerCap'
    OBVIOUS
  <2>1. CASE \A r \in Request, id \in SubId : ~CreateSession(r, id)
    BY <2>1, OnlyCreateRegisters, NoNewSessionKeepsCap
  <2>2. ASSUME NEW r \in Request, NEW id \in SubId, CreateSession(r, id)
        PROVE  OwnerCap'
    <3> SUFFICES ASSUME NEW o \in Owner
                 PROVE  Cardinality(SessionsOf(o)') <= MaxClientsPerOwner
      BY DEF OwnerCap
    <3>0. PICK s : s = upserts[r].session
      OBVIOUS
    <3>1. /\ s \in Session /\ ~Registered(s)
          /\ Registered(s)'
          /\ \A t \in Session \ {s} : Registered(t)' <=> Registered(t)
          /\ Cardinality(SessionsOf(s.owner)) < MaxClientsPerOwner
      BY <2>2, <3>0, CreateAddsOne
    <3>2. CASE o = s.owner
      <4>1. s \notin SessionsOf(o) /\ SessionsOf(o)' = SessionsOf(o) \cup {s}
        BY <3>1, <3>2 DEF SessionsOf
      <4>2. Cardinality(SessionsOf(o) \cup {s}) = Cardinality(SessionsOf(o)) + 1
        BY <4>1, SessionsOfFinite, FS_AddElement
      <4> QED BY <3>1, <3>2, <4>1, <4>2, SessionsOfFinite, BoundAssumption
    <3>3. CASE o # s.owner
      <4>1. SessionsOf(o)' = SessionsOf(o)
        BY <3>1, <3>3 DEF SessionsOf
      <4> QED BY <4>1 DEF OwnerCap
    <3> QED BY <3>2, <3>3
  <2> QED BY <2>1, <2>2
<1> QED BY <1>1, <1>2, ShapeHolds, PTL DEF Spec

-----------------------------------------------------------------------------
(* Step simulation.                                                        *)

\* The store counts as the registry does.
LEMMA StoreCardinality ==
    ASSUME NEW S
    PROVE  Store!Cardinality(S) = Cardinality(S)
BY DEF Store!Cardinality, Cardinality

\* A registry step that neither registers, removes, attaches nor detaches is a
\* stuttering step of the store.
LEMMA StoreStutters ==
    ASSUME \A s \in Session : Registered(s)' <=> Registered(s),
           \A s \in Session : Attached(s)' = Attached(s),
           phase' = "closed" <=> phase = "closed"
    PROVE  UNCHANGED Store!vars
BY DEF Store!vars

\* POST and PUT handlers: `create_session_locked` opens a session, the rest is
\* invisible.
LEMMA UpsertSimulates ==
    ASSUME ShapeInv, NEW r \in Request,
           \/ UpsertStep(r) \/ (\E s \in Session : RequestArrives(r, s))
           \/ TokensRejected(r) \/ RequestDropped(r)
    PROVE  [Store!Next]_(Store!vars)
<1>1. CASE UNCHANGED <<subscriptions, streams, phase>>
  BY <1>1, StoreStutters DEF Registered, Attached
<1>2. ASSUME NEW id \in SubId, CreateSession(r, id)
      PROVE  Store!Next
  <2>1. PICK s : s = upserts[r].session
    OBVIOUS
  <2>2. /\ s \in Session /\ ~Registered(s) /\ Registered(s)'
        /\ \A t \in Session \ {s} : Registered(t)' <=> Registered(t)
        /\ Cardinality(SessionsOf(s.owner)) < MaxClientsPerOwner
    BY <1>2, <2>1, CreateAddsOne
  <2>3. SessionsOf(s.owner) = {t \in {x \in Session : Registered(x)} : t.owner = s.owner}
    BY DEF SessionsOf
  <2>4. {t \in Session : Registered(t)'} = {t \in Session : Registered(t)} \cup {s}
    BY <2>2
  <2>5. UNCHANGED <<streams, phase>>
    BY <1>2 DEF CreateSession
  <2>6. [t \in Session |-> Attached(t)]' = [t \in Session |-> Attached(t)]
    BY <2>5 DEF Attached
  <2>7. Store!Open(s)
    <3>1. s \in Store!Session \ {t \in Session : Registered(t)}
      BY <2>2 DEF Store!Session, Session
    <3>2. Cardinality({t \in {x \in Session : Registered(x)} : t.owner = s.owner})
            < MaxClientsPerOwner
      BY <2>2, <2>3
    <3>3. {t \in Session : Registered(t)}' = {t \in Session : Registered(t)} \cup {s}
      BY <2>4
    <3>4. Store!Cardinality({t \in {x \in Session : Registered(x)} : t.owner = s.owner})
            < MaxClientsPerOwner
      BY <3>2, StoreCardinality
    <3> QED BY <2>5, <2>6, <3>1, <3>3, <3>4 DEF Store!Open
  <2> QED BY <2>2, <2>7 DEF Store!Next, Store!Session, Session
<1> QED BY <1>1, <1>2
        DEF UpsertStep, UpsertRead, UpsertExisting, UpsertRefused, ReplaceWatchedTokens,
            SpawnWatchers, RequestArrives, TokensRejected, RequestDropped, registry

\* SSE connections: `subscribe` attaches, a dropped handshake and `unsubscribe`
\* detach, the rest is invisible.
LEMMA StreamSimulates ==
    ASSUME ShapeInv, NEW c \in Conn,
           \/ StreamStep(c) \/ (\E s \in Session : StreamArrives(c, s))
           \/ ArrivalDropped(c) \/ HandshakeDropped(c) \/ StreamDropped(c)
    PROVE  [Store!Next]_(Store!vars)
<1>0. streams \in [Conn -> StreamHandler] /\ StreamShape
  BY DEF ShapeInv, TypeOK
\* Steps between program counters on the same side of the attachment.
<1>1. ASSUME UNCHANGED <<subscriptions, phase>>,
             \A x \in Conn \ {c} : streams'[x] = streams[x],
             \/ streams[c].pc \notin AttachedPC /\ streams'[c].pc \notin AttachedPC
             \/ /\ streams[c].pc \in AttachedPC /\ streams'[c].pc \in AttachedPC
                /\ streams'[c].session = streams[c].session
      PROVE  UNCHANGED Store!vars
  <2>1. \A s \in Session : Attached(s)' = Attached(s)
    BY <1>1 DEF Attached, AttachedPC
  <2>2. \A s \in Session : Registered(s)' <=> Registered(s)
    BY <1>1 DEF Registered
  <2> QED BY <1>1, <2>1, <2>2, StoreStutters
<1>2. CASE \E s \in Session : StreamArrives(c, s)
  BY <1>0, <1>1, <1>2 DEF StreamArrives, AttachedPC, registry
<1>3. CASE SubscribeRefused(c) \/ ArrivalDropped(c)
  BY <1>0, <1>1, <1>3, IdleHandlers DEF SubscribeRefused, ArrivalDropped, AttachedPC, registry
<1>4. ASSUME NEW pc \in {"open", "dropping"}, streams[c].pc \in {"connecting", "open"},
             streams' = [streams EXCEPT ![c].pc = pc], UNCHANGED <<subscriptions, phase>>
      PROVE  UNCHANGED Store!vars
  <2>1. /\ streams'[c].pc = pc /\ streams'[c].session = streams[c].session
        /\ \A x \in Conn \ {c} : streams'[x] = streams[x]
    <3>1. pc \in StreamPC
      BY DEF StreamPC
    <3> QED BY <1>0, <1>4, <3>1, StepStream
  <2> QED BY <1>1, <1>4, <2>1 DEF AttachedPC
<1>5. CASE OpenStream(c) \/ StreamDropped(c) \/ StreamEnds(c)
  BY <1>4, <1>5 DEF OpenStream, StreamDropped, StreamEnds, registry
<1>6. CASE Subscribe(c)
  <2>1. PICK s : s = streams[c].session
    OBVIOUS
  <2>2. /\ s \in Session
        /\ Attached(s)' = Attached(s) \cup {c}
        /\ \A t \in Session \ {s} : Attached(t)' = Attached(t)
    BY <1>6, <2>1, SubscribeAttaches
  <2>3. Registered(s) /\ UNCHANGED <<subscriptions, phase>> /\ streams[c].pc = "arrived"
    BY <1>6, <2>1 DEF Subscribe
  <2>4. \A t \in Session : c \notin Attached(t)
    BY <2>3 DEF Attached
  <2>5. [t \in Session |-> Attached(t)]'
          = [[t \in Session |-> Attached(t)] EXCEPT ![s] = @ \cup {c}]
    BY <2>2
  <2>6. {t \in Session : Registered(t)}' = {t \in Session : Registered(t)}
    BY <2>3 DEF Registered
  <2>7. Store!Attach(s, c)
    BY <2>2, <2>3, <2>4, <2>5, <2>6 DEF Store!Attach, Store!Session, Session
  <2> QED BY <2>2, <2>7 DEF Store!Next, Store!Session, Session
<1>7. CASE HandshakeDropped(c) \/ Unsubscribe(c)
  <2>1. PICK s : s = streams[c].session
    OBVIOUS
  <2>2. /\ streams[c].pc \in AttachedPC
        /\ streams' = [streams EXCEPT ![c] = IdleStream]
        /\ UNCHANGED <<subscriptions, phase>>
    BY <1>7 DEF HandshakeDropped, Unsubscribe, AttachedPC
  <2>3. /\ s \in Session
        /\ c \in Attached(s) /\ Attached(s)' = Attached(s) \ {c}
        /\ \A t \in Session \ {s} : Attached(t)' = Attached(t)
    BY <2>1, <2>2, DetachOne
  <2>4. [t \in Session |-> Attached(t)]'
          = [[t \in Session |-> Attached(t)] EXCEPT ![s] = @ \ {c}]
    BY <2>3
  <2>5. {t \in Session : Registered(t)}' = {t \in Session : Registered(t)}
    BY <2>2 DEF Registered
  <2>6. Store!Detach(s, c)
    BY <2>2, <2>3, <2>4, <2>5 DEF Store!Detach
  <2> QED BY <2>3, <2>6 DEF Store!Next, Store!Session, Session
<1> QED BY <1>2, <1>3, <1>5, <1>6, <1>7 DEF StreamStep

\* Background tasks: a sweep expires unattached sessions only, because a counter of
\* zero means that nobody is attached; the shutdown takes all of them.
LEMMA BackgroundSimulates ==
    ASSUME ShapeInv, CountInv, BackgroundStep \/ UNCHANGED vars
    PROVE  [Store!Next]_(Store!vars)
<1>1. CASE CleanupSubs
  <2>1. /\ UNCHANGED <<streams, phase>> /\ phase # "closed"
        /\ \A s \in Session : Registered(s)' <=> Registered(s) /\ ~Expired(s)
    BY <1>1 DEF CleanupSubs, Registered
  <2>2. ASSUME NEW s \in Session, Expired(s)
        PROVE  Attached(s) = {}
    <3>1. Registered(s) /\ clients[s] = 0
      BY <2>2 DEF Expired
    <3>2. clients[s] = Cardinality(Attached(s)) + leaked[s]
      BY <2>1, <3>1 DEF CountInv, ClientsAccounted
    <3>3. leaked[s] \in Nat
      BY BoundAssumption DEF ShapeInv, TypeOK
    <3> QED BY <3>1, <3>2, <3>3, AttachedFinite
  <2>3. [t \in Session |-> Attached(t)]' = [t \in Session |-> Attached(t)]
    BY <2>1 DEF Attached
  <2>4. /\ {t \in Session : Registered(t)}' \subseteq {t \in Session : Registered(t)}
        /\ \A s \in {t \in Session : Registered(t)} \ {t \in Session : Registered(t)}' :
              [t \in Session |-> Attached(t)][s] = {}
    BY <2>1, <2>2
  <2>5. Store!Expire
    BY <2>1, <2>3, <2>4 DEF Store!Expire
  <2> QED BY <2>5 DEF Store!Next
<1>2. CASE CloseSseConnections
  <2>1. phase = "signalled" /\ phase' = "closed" /\ UNCHANGED streams
    BY <1>2 DEF CloseSseConnections
  <2>2. {t \in Session : Registered(t)}' = {}
    BY <1>2 DEF CloseSseConnections, Registered
  <2>3. [t \in Session |-> Attached(t)]' = [t \in Session |-> Attached(t)]
    BY <2>1 DEF Attached
  <2>4. Store!Shutdown
    BY <2>1, <2>2, <2>3 DEF Store!Shutdown
  <2> QED BY <2>4 DEF Store!Next
<1>3. CASE \/ Tick \/ ShutdownSignal \/ Drained \/ UNCHANGED vars
           \/ \E id \in SubId : QueueError(id) \/ PipelineStops(id)
  <2>1. UNCHANGED <<subscriptions, streams>> /\ (phase' = "closed" <=> phase = "closed")
    BY <1>3 DEF Tick, ShutdownSignal, Drained, vars, QueueError, PipelineStops, registry
  <2>2. \A s \in Session : (Registered(s)' <=> Registered(s)) /\ Attached(s)' = Attached(s)
    BY <2>1 DEF Registered, Attached
  <2> QED BY <2>1, <2>2, StoreStutters
<1> QED BY <1>1, <1>2, <1>3 DEF BackgroundStep

\* The registry implements the session store: whatever handlers, connections, sweeps
\* and the shutdown do, sessions appear one at a time and under the cap, connections
\* attach to live sessions only, and a session goes only unattached or in the shutdown.
THEOREM RegistryImplementsStore == Spec => ImplementsStore
<1>1. Init => Store!Init
  BY IdleHandlers DEF Init, Store!Init, Store!Session, Session, Registered, Attached
<1>2. ShapeInv /\ CountInv /\ [Next]_vars => [Store!Next]_(Store!vars)
  BY UpsertSimulates, StreamSimulates, BackgroundSimulates DEF Next, BackgroundStep
<1> QED BY <1>1, <1>2, CountHolds, PTL DEF Spec, ImplementsStore, Store!Spec
=============================================================================
