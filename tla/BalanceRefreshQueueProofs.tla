---------------------- MODULE BalanceRefreshQueueProofs ----------------------
(***************************************************************************)
(* Theorems about the way from a transfer to the snapshot, for any number  *)
(* of sessions, tokens and permits, any channel capacities, batch size and *)
(* number of retries, and any chain.                                       *)
(***************************************************************************)
EXTENDS BalanceRefreshQueue, Extrema, FiniteSetTheorems, TLAPS

\* Functions from some of the tokens: batches.
Batch == UNION {[D -> Block] : D \in SUBSET Token}

Worker == [pc : {"collect", "acquire", "call", "send", "gone"}, buf : Seq(Request),
           batch : Batch, tries : 0 .. MaxRetries, result : Result]
Receiver == [pc : {"unborn", "wait", "merge", "stopped"}, result : Result]
Listener == [pc : {"recv", "fanout", "stopped"}, event : Request,
             todo : SUBSET Session, queues : SUBSET Session, sent : SUBSET Session]

\* A request as the dispatcher sends it on: for a block that exists, or for none when the
\* node may leave it out.
Genuine(r, h) == r.block <= h /\ (r.block = None => Unpinned)

\* The listener holds handles only while it fans out, each in one of two places.
ListenerInv ==
    /\ listener.pc # "fanout" => listener.todo = {} /\ listener.queues = {}
    /\ listener.pc = "fanout" => Genuine(listener.event, head)
    /\ listener.todo \cap listener.queues = {}
    /\ listener.sent \subseteq listener.queues

\* What is on the way was sent by the dispatcher.
AllGenuine(requests, h) == \A i \in DOMAIN requests : Genuine(requests[i], h)

RequestsInv == AllGenuine(transfers, head) /\ \A s \in Session : AllGenuine(inbox[s], head)

\* Requests are collected in one step of the worker only, and a batch is never empty.
WorkerSound(w, h) ==
    /\ w.pc # "collect" => w.buf = <<>>
    /\ w.pc \in {"acquire", "call"} => DOMAIN w.batch # {}
    /\ AllGenuine(w.buf, h)
    /\ \A t \in DOMAIN w.batch : w.batch[t] = None => Unpinned

WorkerInv == \A s \in Session : WorkerSound(worker[s], head)

\* Who leaves, leaves a cancelled session, and the receiver merges only what was answered.
CancelInv ==
    \A s \in Session :
        /\ entry[s] = "removed" => Cancelled(s)
        /\ receiver[s].pc = "stopped" => Cancelled(s)
        /\ receiver[s].pc = "merge" => receiver[s].result.ok
        /\ worker[s].pc = "gone" => Cancelled(s)

\* The history variables do not run ahead of the chain, nothing is due for a token that is
\* not watched, and nothing is watched before the session is created.
DueInv ==
    /\ \A t \in Token : moved[t] <= head
    /\ \A s \in Session : entry[s] = "none" => watched[s] = {}
    /\ \A s \in Session, t \in Token :
          /\ due[s][t] <= head /\ excused[s][t] <= head
          /\ t \notin watched[s] => due[s][t] = 0

\* The permits that are held can be counted.
CallsFinite == IsFiniteSet(calls)

\* The inductive invariant of the queue.
QueueInv ==
    /\ SubscriptionTypeOK /\ QueueTypeOK
    /\ ListenerInv /\ RequestsInv /\ WorkerInv /\ CancelInv /\ DueInv /\ CallsFinite

-----------------------------------------------------------------------------
(* coalesce_by_token.                                                      *)

\* The later of two blocks.
LEMMA MaxOfTwo ==
    ASSUME NEW a \in Nat, NEW b \in Nat
    PROVE  Max({a, b}) \in {a, b} /\ Max({a, b}) >= a /\ Max({a, b}) >= b
<1>1. a + b \in Nat /\ {a, b} \subseteq 0 .. a + b /\ {a, b} # {}
  OBVIOUS
<1>2. Max({a, b}) \in {a, b} /\ \A y \in {a, b} : Max({a, b}) >= y
  BY <1>1, MaxIsGreatest, Zenon
<1> QED BY <1>2

\* What a batch is, without the union over its domains.
LEMMA BatchIs == \A f : f \in Batch <=> DOMAIN f \subseteq Token /\ f \in [DOMAIN f -> Block]
BY DEF Batch

\* Blocks are numbers up to the bound.
LEMMA BlockIsNat == \A b \in Block : b \in Nat /\ b <= MaxBlock
BY SubscriptionAssumption DEF Block

\* One request more: its token is served, no other token is served worse.
LEMMA CoalesceOneServes ==
    ASSUME NEW acc \in Batch, NEW r \in Request, NEW c, c = CoalesceOne(acc, r)
    PROVE  /\ c \in Batch /\ DOMAIN c = DOMAIN acc \cup {r.token}
           /\ c[r.token] = None \/ (r.block # None /\ c[r.token] >= r.block)
           /\ \A t \in DOMAIN acc : c[t] = None \/ (acc[t] # None /\ c[t] >= acc[t])
           /\ \A t \in DOMAIN c : c[t] = None =>
                 r.block = None \/ (t \in DOMAIN acc /\ acc[t] = None)
<1>1. r.token \in Token /\ r.block \in Block
  BY DEF Request
<1>2. DOMAIN acc \subseteq Token /\ \A t \in DOMAIN acc : acc[t] \in Block
  BY BatchIs
<1>3. /\ DOMAIN c = DOMAIN acc \cup {r.token}
      /\ c = [t \in DOMAIN acc \cup {r.token} |-> c[t]]
      /\ \A t \in DOMAIN c :
            c[t] = IF t # r.token THEN acc[t]
                   ELSE IF t \notin DOMAIN acc THEN r.block
                   ELSE IF acc[t] = None \/ r.block = None THEN None
                   ELSE Max({acc[t], r.block})
  BY DEF CoalesceOne
<1>4. ASSUME NEW t \in DOMAIN c
      PROVE  /\ c[t] \in Block
             /\ t = r.token => c[t] = None \/ (r.block # None /\ c[t] >= r.block)
             /\ t \in DOMAIN acc => c[t] = None \/ (acc[t] # None /\ c[t] >= acc[t])
             /\ c[t] = None => r.block = None \/ (t \in DOMAIN acc /\ acc[t] = None)
  <2>1. r.block \in Nat /\ None \in Block /\ (t \in DOMAIN acc => acc[t] \in Nat)
    BY <1>1, <1>2, BlockIsNat, SubscriptionAssumption DEF None, Block
  <2>2. CASE t # r.token
    <3>1. t \in DOMAIN acc /\ c[t] = acc[t]
      BY <1>3, <2>2
    <3>2. acc[t] \in Block /\ acc[t] >= acc[t]
      BY <1>2, <2>1, <3>1
    <3> QED BY <2>2, <3>1, <3>2
  <2>3. CASE t = r.token /\ t \notin DOMAIN acc
    <3>1. c[t] = r.block
      BY <1>3, <2>3
    <3>2. r.block >= r.block
      BY <2>1
    <3> QED BY <1>1, <2>3, <3>1, <3>2
  <2>4. CASE t = r.token /\ t \in DOMAIN acc /\ (acc[t] = None \/ r.block = None)
    BY <1>3, <2>1, <2>4
  <2>5. CASE t = r.token /\ t \in DOMAIN acc /\ acc[t] # None /\ r.block # None
    <3> PICK m : m = Max({acc[t], r.block})
      OBVIOUS
    <3>1. c[t] = m
      BY <1>3, <2>5
    <3>2. m \in {acc[t], r.block} /\ m >= acc[t] /\ m >= r.block
      BY <2>1, <2>5, MaxOfTwo
    <3> QED BY <1>1, <1>2, <2>1, <2>5, <3>1, <3>2
  <2> QED BY <2>2, <2>3, <2>4, <2>5
<1>5. c \in Batch
  <2>1. c \in [DOMAIN c -> Block] /\ DOMAIN c \subseteq Token
    BY <1>1, <1>2, <1>3, <1>4
  <2> QED BY <2>1, BatchIs
<1>6. /\ c[r.token] = None \/ (r.block # None /\ c[r.token] >= r.block)
      /\ \A t \in DOMAIN acc : c[t] = None \/ (acc[t] # None /\ c[t] >= acc[t])
      /\ \A t \in DOMAIN c : c[t] = None =>
            r.block = None \/ (t \in DOMAIN acc /\ acc[t] = None)
  BY <1>3, <1>4
<1> QED BY <1>3, <1>5, <1>6

\* The fold of a sequence of requests: a function of the number of requests folded.
Folding(acc, requests, n) ==
    acc = [m \in 0 .. n |-> IF m = 0 THEN Empty ELSE CoalesceOne(acc[m - 1], requests[m])]

\* The recursive definition has a solution.
LEMMA FoldingExists ==
    ASSUME NEW requests, NEW n \in Nat
    PROVE  \E acc : Folding(acc, requests, n)
<1> PICK T : T = {k \in Nat : ~(\E acc : Folding(acc, requests, k))}
  OBVIOUS
<1> SUFFICES ASSUME T # {} PROVE FALSE
  OBVIOUS
<1>1. PICK k \in T : \A j \in T : k <= j
  BY LeastNatural
<1>2. k \in Nat /\ ~(\E acc : Folding(acc, requests, k))
  OBVIOUS
<1>3. CASE k = 0
  <2> PICK acc : acc = [m \in 0 .. k |-> Empty]
    OBVIOUS
  <2>1. Folding(acc, requests, k)
    BY <1>3 DEF Folding
  <2> QED BY <1>2, <2>1
<1>4. CASE k # 0
  <2>1. k - 1 \in Nat /\ ~(k <= k - 1)
    BY <1>2, <1>4
  <2>2. PICK f : Folding(f, requests, k - 1)
    BY <1>1, <2>1
  <2> PICK acc : acc = [m \in 0 .. k |-> IF m = k THEN CoalesceOne(f[k - 1], requests[k]) ELSE f[m]]
    OBVIOUS
  <2>3. \A m \in 0 .. k - 1 : acc[m] = f[m]
    BY <1>2, <1>4
  <2>4. \A m \in 0 .. k - 1 : f[m] = IF m = 0 THEN Empty ELSE CoalesceOne(f[m - 1], requests[m])
    BY <2>2 DEF Folding
  <2>5. \A m \in 0 .. k : acc[m] = IF m = 0 THEN Empty ELSE CoalesceOne(acc[m - 1], requests[m])
    <3> SUFFICES ASSUME NEW m \in 0 .. k
                 PROVE  acc[m] = IF m = 0 THEN Empty ELSE CoalesceOne(acc[m - 1], requests[m])
      OBVIOUS
    <3>1. CASE m = k
      <4>1. acc[k - 1] = f[k - 1] /\ acc[k] = CoalesceOne(f[k - 1], requests[k])
        BY <1>2, <1>4, <2>1, <2>3
      <4> QED BY <1>4, <3>1, <4>1
    <3>2. CASE m # k /\ m = 0
      BY <1>2, <2>3, <2>4, <3>2
    <3>3. CASE m # k /\ m # 0
      <4>1. m \in 0 .. k - 1 /\ m - 1 \in 0 .. k - 1
        BY <1>2, <3>3
      <4>2. acc[m] = f[m] /\ acc[m - 1] = f[m - 1] /\ f[m] = CoalesceOne(f[m - 1], requests[m])
        BY <2>3, <2>4, <3>3, <4>1
      <4> QED BY <3>3, <4>2
    <3> QED BY <3>1, <3>2, <3>3
  <2>6. Folding(acc, requests, k)
    <3>1. acc = [m \in 0 .. k |-> acc[m]]
      OBVIOUS
    <3> QED BY <2>5, <3>1 DEF Folding
  <2> QED BY <1>2, <2>6
<1> QED BY <1>3, <1>4

\* CoalesceByToken is the end of the folding over all its requests.
LEMMA CoalesceIsFolding ==
    ASSUME NEW requests, Len(requests) \in Nat
    PROVE  \E acc : /\ Folding(acc, requests, Len(requests))
                    /\ CoalesceByToken(requests) = acc[Len(requests)]
<1> DEFINE acc == CHOOSE f : Folding(f, requests, Len(requests))
<1>1. Folding(acc, requests, Len(requests))
  BY FoldingExists
<1>2. CoalesceByToken(requests) = acc[Len(requests)]
  BY DEF CoalesceByToken, Folding
<1> QED BY <1>1, <1>2

\* coalesce_by_token: every request of the window is served by its token's entry, and an
\* entry is unpinned only if some request was.
LEMMA CoalesceServes ==
    ASSUME NEW requests \in Seq(Request)
    PROVE  LET c == CoalesceByToken(requests) IN
           /\ c \in Batch
           /\ \A i \in DOMAIN requests :
                 /\ requests[i].token \in DOMAIN c
                 /\ \/ c[requests[i].token] = None
                    \/ requests[i].block # None /\ c[requests[i].token] >= requests[i].block
           /\ \A t \in DOMAIN c : c[t] = None => \E i \in DOMAIN requests : requests[i].block = None
           /\ requests # <<>> => DOMAIN c # {}
<1> PICK N : N = Len(requests)
  OBVIOUS
<1>1. N \in Nat /\ DOMAIN requests = 1 .. N /\ (requests # <<>> => N >= 1)
  OBVIOUS
<1>2. PICK acc : Folding(acc, requests, N) /\ CoalesceByToken(requests) = acc[N]
  BY <1>1, CoalesceIsFolding
<1>3. /\ acc[0] = Empty
      /\ \A m \in 1 .. N : acc[m] = CoalesceOne(acc[m - 1], requests[m])
  BY <1>1, <1>2 DEF Folding
<1> DEFINE Good(n) ==
             /\ acc[n] \in Batch
             /\ \A i \in 1 .. n :
                   /\ requests[i].token \in DOMAIN acc[n]
                   /\ \/ acc[n][requests[i].token] = None
                      \/ requests[i].block # None /\ acc[n][requests[i].token] >= requests[i].block
             /\ \A t \in DOMAIN acc[n] : acc[n][t] = None => \E i \in 1 .. n : requests[i].block = None
<1>4. Good(0)
  <2>1. Empty \in Batch /\ DOMAIN Empty = {}
    BY BatchIs DEF Empty
  <2> QED BY <1>3, <2>1
<1>5. ASSUME NEW n \in 1 .. N, Good(n - 1) PROVE Good(n)
  <2> PICK p : p = n - 1
    OBVIOUS
  <2> PICK r : r = requests[n]
    OBVIOUS
  <2> PICK a : a = acc[p]
    OBVIOUS
  <2> PICK c : c = acc[n]
    OBVIOUS
  <2>1. /\ p \in Nat /\ n = p + 1 /\ n \in Nat /\ r \in Request /\ a \in Batch
        /\ c = CoalesceOne(a, r)
        /\ \A i \in 1 .. p : requests[i] \in Request
    BY <1>1, <1>3, <1>5
  <2>2. /\ c \in Batch /\ DOMAIN c = DOMAIN a \cup {r.token}
        /\ c[r.token] = None \/ (r.block # None /\ c[r.token] >= r.block)
        /\ \A t \in DOMAIN a : c[t] = None \/ (a[t] # None /\ c[t] >= a[t])
        /\ \A t \in DOMAIN c : c[t] = None =>
              r.block = None \/ (t \in DOMAIN a /\ a[t] = None)
    BY <2>1, CoalesceOneServes, Zenon
  <2>3. /\ \A i \in 1 .. p : /\ requests[i].token \in DOMAIN a
                             /\ \/ a[requests[i].token] = None
                                \/ requests[i].block # None /\ a[requests[i].token] >= requests[i].block
        /\ \A t \in DOMAIN a : a[t] = None => \E i \in 1 .. p : requests[i].block = None
    BY <1>5
  <2> HIDE DEF Good
  <2>4. \A t \in DOMAIN a : a[t] \in Nat /\ c[t] \in Nat
    BY <2>1, <2>2, BatchIs, BlockIsNat
  <2>5. \A i \in 1 .. p : requests[i].block \in Nat
    BY <2>1, BlockIsNat DEF Request
  <2>6. ASSUME NEW i \in 1 .. n
        PROVE  /\ requests[i].token \in DOMAIN c
               /\ \/ c[requests[i].token] = None
                  \/ requests[i].block # None /\ c[requests[i].token] >= requests[i].block
    <3>1. CASE i = n
      BY <2>2, <3>1
    <3>2. CASE i \in 1 .. p
      <4> PICK t : t = requests[i].token
        OBVIOUS
      <4>1. t \in DOMAIN a /\ t \in DOMAIN c /\ a[t] \in Nat /\ c[t] \in Nat /\ requests[i].block \in Nat
        BY <2>2, <2>3, <2>4, <2>5, <3>2
      <4>2. c[t] = None \/ (a[t] # None /\ c[t] >= a[t])
        BY <2>2, <4>1
      <4>3. a[t] = None \/ (requests[i].block # None /\ a[t] >= requests[i].block)
        BY <2>3, <3>2
      <4> QED BY <4>1, <4>2, <4>3
    <3> QED BY <2>1, <3>1, <3>2
  <2>7. ASSUME NEW t \in DOMAIN c, c[t] = None PROVE \E i \in 1 .. n : requests[i].block = None
    <3>1. CASE r.block = None
      BY <2>1, <3>1
    <3>2. CASE t \in DOMAIN a /\ a[t] = None
      <4>1. PICK i \in 1 .. p : requests[i].block = None
        BY <2>3, <3>2
      <4>2. i \in 1 .. n
        BY <2>1
      <4> QED BY <4>1, <4>2
    <3> QED BY <2>2, <2>7, <3>1, <3>2
  <2> QED BY <2>2, <2>6, <2>7 DEF Good
<1> HIDE DEF Good
<1>6. Good(N)
  <2> PICK T : T = {n \in 0 .. N : ~Good(n)}
    OBVIOUS
  <2> SUFFICES ASSUME T # {} PROVE FALSE
    BY <1>1
  <2>1. T \subseteq Nat
    BY <1>1
  <2>2. PICK n \in T : \A j \in T : n <= j
    BY <2>1, LeastNatural
  <2>3. n \in 1 .. N /\ n - 1 \in 0 .. N /\ ~(n <= n - 1) /\ ~Good(n)
    BY <1>1, <1>4, <2>2
  <2>4. Good(n - 1)
    BY <2>2, <2>3
  <2> QED BY <1>5, <2>3, <2>4
<1>7. requests # <<>> => DOMAIN acc[N] # {}
  BY <1>1, <1>6 DEF Good
<1> QED BY <1>1, <1>2, <1>6, <1>7 DEF Good

-----------------------------------------------------------------------------
(* Records and channels.                                                   *)

\* The type invariant with the names of this module.
LEMMA QueueTypes ==
    QueueTypeOK <=>
        /\ transfers \in Seq(Request) /\ listener \in Listener
        /\ inbox \in [Session -> Seq(Request)] /\ \A o \in Session : Len(inbox[o]) <= InCap
        /\ worker \in [Session -> Worker]
        /\ outbox \in [Session -> Seq(Result)] /\ \A o \in Session : Len(outbox[o]) <= OutCap
        /\ receiver \in [Session -> Receiver]
BY DEF QueueTypeOK, Listener, Worker, Receiver, Batch

\* The states the tasks start and end in.
LEMMA RestingStates ==
    /\ Failed \in Result /\ ~Failed.ok
    /\ Collecting \in Worker /\ Collecting.pc = "collect" /\ Collecting.buf = <<>>
    /\ Collecting.batch = Empty /\ Collecting.tries = 0 /\ Collecting.result = Failed
    /\ Empty \in Batch /\ DOMAIN Empty = {}
    /\ Waiting \in Receiver /\ Waiting.pc = "wait"
    /\ Receiving \in Listener /\ Receiving.pc = "recv" /\ Receiving.todo = {}
    /\ Receiving.queues = {} /\ Receiving.sent = {}
    /\ \A h : WorkerSound(Collecting, h)
<1>1. Failed \in Result /\ ~Failed.ok
  BY SubscriptionAssumption DEF Failed, Result, Block
<1>2. Empty \in Batch /\ DOMAIN Empty = {}
  BY BatchIs DEF Empty
<1>3. MaxRetries \in Nat /\ <<>> \in Seq(Request)
  BY QueueAssumption
<1>4. /\ Collecting \in Worker /\ Collecting.pc = "collect" /\ Collecting.buf = <<>>
      /\ Collecting.batch = Empty /\ Collecting.tries = 0 /\ Collecting.result = Failed
  BY <1>1, <1>2, <1>3 DEF Collecting, Worker
<1>5. Waiting \in Receiver /\ Waiting.pc = "wait"
  BY <1>1 DEF Waiting, Receiver
<1>6. NoEvent \in Request
  <2>1. (CHOOSE t \in Token : TRUE) \in Token
    BY SubscriptionAssumption
  <2> QED BY <2>1, SubscriptionAssumption DEF NoEvent, Request, None, Block
<1>7. /\ Receiving \in Listener /\ Receiving.pc = "recv" /\ Receiving.todo = {}
      /\ Receiving.queues = {} /\ Receiving.sent = {}
  BY <1>6 DEF Receiving, Listener
<1>8. \A h : WorkerSound(Collecting, h)
  BY <1>2, <1>4 DEF WorkerSound, AllGenuine
<1> QED BY <1>1, <1>2, <1>4, <1>5, <1>7, <1>8

\* Sending to a channel.
LEMMA AppendGenuine ==
    ASSUME NEW q \in Seq(Request), NEW r \in Request, NEW h, AllGenuine(q, h), Genuine(r, h)
    PROVE  AllGenuine(Append(q, r), h)
<1>1. /\ DOMAIN Append(q, r) = 1 .. Len(q) + 1 /\ Len(q) \in Nat /\ DOMAIN q = 1 .. Len(q)
      /\ \A i \in 1 .. Len(q) : Append(q, r)[i] = q[i]
      /\ Append(q, r)[Len(q) + 1] = r
  OBVIOUS
<1> PICK f : f = Append(q, r)
  OBVIOUS
<1> PICK n : n = Len(q)
  OBVIOUS
<1>2. \A i \in 1 .. n + 1 : Genuine(f[i], h)
  BY <1>1 DEF AllGenuine
<1> QED BY <1>1, <1>2 DEF AllGenuine

\* Receiving from one.
LEMMA TailGenuine ==
    ASSUME NEW q \in Seq(Request), q # <<>>, NEW h, AllGenuine(q, h)
    PROVE  /\ Tail(q) \in Seq(Request) /\ Head(q) \in Request /\ Len(Tail(q)) = Len(q) - 1
           /\ AllGenuine(Tail(q), h) /\ Genuine(Head(q), h)
<1> PICK n : n = Len(q)
  OBVIOUS
<1> PICK f : f = Tail(q)
  OBVIOUS
<1>1. /\ n \in Nat /\ n >= 1 /\ DOMAIN q = 1 .. n /\ f \in Seq(Request) /\ DOMAIN f = 1 .. n - 1
      /\ Head(q) = q[1] /\ Len(f) = n - 1 /\ q[1] \in Request
      /\ \A i \in 1 .. n - 1 : i + 1 \in 1 .. n /\ f[i] = q[i + 1]
  OBVIOUS
<1>2. Genuine(q[1], h) /\ \A i \in 1 .. n - 1 : Genuine(f[i], h)
  BY <1>1 DEF AllGenuine
<1> QED BY <1>1, <1>2 DEF AllGenuine

\* A higher head makes nothing less genuine.
LEMMA GenuineLater ==
    ASSUME NEW q \in Seq(Request), NEW h \in Nat, NEW k \in Nat, h <= k, AllGenuine(q, h)
    PROVE  AllGenuine(q, k)
<1>1. \A i \in DOMAIN q : q[i] \in Request
  OBVIOUS
<1>2. \A i \in DOMAIN q : q[i].block \in Nat
  BY <1>1, BlockIsNat DEF Request
<1> QED BY <1>2 DEF AllGenuine, Genuine

-----------------------------------------------------------------------------
(* Frames: what a step keeps by not touching it.                           *)

\* A step that leaves the shared state of the sessions alone keeps what is said of it.
LEMMA SubscriptionFrame ==
    ASSUME QueueInv, UNCHANGED subscription
    PROVE  /\ SubscriptionTypeOK' /\ DueInv' /\ CallsFinite'
           /\ head' = head /\ entry' = entry /\ watched' = watched
           /\ \A s : Cancelled(s)' = Cancelled(s)
<1>1. /\ head' = head /\ moved' = moved /\ entry' = entry /\ cancelled' = cancelled
      /\ shutdown' = shutdown /\ closed' = closed /\ watched' = watched /\ put' = put
      /\ snapshot' = snapshot /\ notify' = notify /\ calls' = calls /\ due' = due
      /\ excused' = excused /\ faults' = faults
  BY DEF subscription, chain, lifecycle, tokens, history
<1>2. SubscriptionTypeOK'
  BY <1>1 DEF QueueInv, SubscriptionTypeOK
<1>3. DueInv' /\ CallsFinite'
  BY <1>1 DEF QueueInv, DueInv, CallsFinite
<1> QED BY <1>1, <1>2, <1>3 DEF Cancelled

\* A worker moves on; its own soundness is all there is to show.
LEMMA WorkerFrame ==
    ASSUME QueueInv, NEW s \in Session, NEW w \in Worker, WorkerSound(w, head),
           worker' = [worker EXCEPT ![s] = w],
           head' = head, entry' = entry, UNCHANGED receiver,
           \A o \in Session : Cancelled(o)' = Cancelled(o),
           w.pc = "gone" => Cancelled(s)
    PROVE  /\ worker' \in [Session -> Worker] /\ WorkerInv' /\ CancelInv'
<1>1. worker \in [Session -> Worker]
  BY QueueTypes DEF QueueInv
<1>2. /\ worker' \in [Session -> Worker]
      /\ \A o \in Session : worker'[o] = IF o = s THEN w ELSE worker[o]
  BY <1>1
<1>3. WorkerInv'
  BY <1>2 DEF QueueInv, WorkerInv
<1>4. CancelInv'
  BY <1>2 DEF QueueInv, CancelInv
<1> QED BY <1>2, <1>3, <1>4

-----------------------------------------------------------------------------
(* The worker keeps the invariant.                                         *)

\* What all steps of a worker have in common.
LEMMA WorkerStepKeeps ==
    ASSUME QueueInv, NEW s \in Session, NEW w \in Worker, WorkerSound(w, head),
           worker' = [worker EXCEPT ![s] = w], w.pc = "gone" => Cancelled(s),
           SubscriptionTypeOK', DueInv', CallsFinite',
           head' = head, entry' = entry, \A o \in Session : Cancelled(o)' = Cancelled(o),
           UNCHANGED <<transfers, listener, receiver>>,
           inbox' \in [Session -> Seq(Request)],
           \A o \in Session : Len(inbox'[o]) <= InCap /\ AllGenuine(inbox'[o], head),
           outbox' \in [Session -> Seq(Result)], \A o \in Session : Len(outbox'[o]) <= OutCap
    PROVE  QueueInv'
<1>1. worker' \in [Session -> Worker] /\ WorkerInv' /\ CancelInv'
  BY WorkerFrame
<1>2. QueueTypeOK'
  <2>1. transfers \in Seq(Request) /\ listener \in Listener /\ receiver \in [Session -> Receiver]
    BY QueueTypes DEF QueueInv
  <2> QED BY <1>1, <2>1 DEF QueueTypeOK, Listener, Worker, Receiver, Batch
<1>3. ListenerInv' /\ RequestsInv'
  BY DEF QueueInv, ListenerInv, RequestsInv
<1> QED BY <1>1, <1>2, <1>3 DEF QueueInv

\* A step that touches nothing of the subscription.
LEMMA WorkerAlone ==
    ASSUME QueueInv, NEW s \in Session, NEW w \in Worker, WorkerSound(w, head),
           worker' = [worker EXCEPT ![s] = w], w.pc = "gone" => Cancelled(s),
           UNCHANGED <<subscription, transfers, listener, receiver>>,
           inbox' \in [Session -> Seq(Request)],
           \A o \in Session : Len(inbox'[o]) <= InCap /\ AllGenuine(inbox'[o], head),
           outbox' \in [Session -> Seq(Result)], \A o \in Session : Len(outbox'[o]) <= OutCap
    PROVE  QueueInv'
<1>1. /\ SubscriptionTypeOK' /\ DueInv' /\ CallsFinite'
      /\ head' = head /\ entry' = entry
      /\ \A o : Cancelled(o)' = Cancelled(o)
  BY SubscriptionFrame
<1> QED BY <1>1, WorkerStepKeeps

\* The channels as they are.
LEMMA Channels ==
    ASSUME QueueInv
    PROVE  /\ inbox \in [Session -> Seq(Request)]
           /\ \A o \in Session : Len(inbox[o]) <= InCap /\ AllGenuine(inbox[o], head)
           /\ outbox \in [Session -> Seq(Result)] /\ \A o \in Session : Len(outbox[o]) <= OutCap
           /\ worker \in [Session -> Worker] /\ \A o \in Session : WorkerSound(worker[o], head)
           /\ InCap \in Nat /\ OutCap \in Nat /\ MaxRetries \in Nat
BY QueueTypes, QueueAssumption DEF QueueInv, RequestsInv, WorkerInv

\* The worker takes a request from its channel into its buffer.
LEMMA CollectStep ==
    ASSUME QueueInv, NEW s \in Session, Collect(s)
    PROVE  QueueInv'
<1> PICK q : q = inbox[s]
  OBVIOUS
<1> PICK v : v = worker[s]
  OBVIOUS
<1> PICK w : w = [v EXCEPT !.buf = Append(v.buf, Head(q))]
  OBVIOUS
<1>1. /\ v.pc = "collect" /\ q # <<>> /\ inbox' = [inbox EXCEPT ![s] = Tail(q)]
      /\ UNCHANGED <<subscription, transfers, listener, outbox, receiver>>
  BY DEF Collect
<1>2. worker' = [worker EXCEPT ![s] = w]
  BY DEF Collect
<1>3. /\ inbox \in [Session -> Seq(Request)] /\ q \in Seq(Request) /\ Len(q) <= InCap
      /\ AllGenuine(q, head) /\ v \in Worker /\ WorkerSound(v, head) /\ InCap \in Nat
      /\ \A o \in Session : Len(inbox[o]) <= InCap /\ AllGenuine(inbox[o], head)
      /\ outbox \in [Session -> Seq(Result)] /\ \A o \in Session : Len(outbox[o]) <= OutCap
  BY Channels
<1>4. /\ Tail(q) \in Seq(Request) /\ Head(q) \in Request /\ Len(Tail(q)) = Len(q) - 1
      /\ AllGenuine(Tail(q), head) /\ Genuine(Head(q), head)
  BY <1>1, <1>3, TailGenuine
<1>5. v.buf \in Seq(Request) /\ AllGenuine(v.buf, head)
  BY <1>3 DEF Worker, WorkerSound
<1>6. Append(v.buf, Head(q)) \in Seq(Request) /\ AllGenuine(Append(v.buf, Head(q)), head)
  BY <1>4, <1>5, AppendGenuine
<1>7. /\ w \in Worker /\ w.pc = "collect" /\ w.buf = Append(v.buf, Head(q)) /\ w.batch = v.batch
  BY <1>1, <1>3, <1>6 DEF Worker
<1>8. WorkerSound(w, head)
  BY <1>3, <1>6, <1>7 DEF WorkerSound
<1>9. /\ inbox' \in [Session -> Seq(Request)]
      /\ \A o \in Session : inbox'[o] = IF o = s THEN Tail(q) ELSE inbox[o]
  BY <1>1, <1>3, <1>4
<1>10. Len(Tail(q)) <= InCap
  BY <1>3, <1>4
<1>11. \A o \in Session : Len(inbox'[o]) <= InCap /\ AllGenuine(inbox'[o], head)
  BY <1>3, <1>4, <1>9, <1>10
<1> QED BY <1>1, <1>2, <1>3, <1>7, <1>8, <1>9, <1>11, WorkerAlone

\* The buffer becomes a batch that serves every request in it.
LEMMA FlushStep ==
    ASSUME QueueInv, NEW s \in Session, Flush(s)
    PROVE  QueueInv'
<1> PICK v : v = worker[s]
  OBVIOUS
<1> PICK c : c = CoalesceByToken(v.buf)
  OBVIOUS
<1> PICK w : w = [Collecting EXCEPT !.pc = "acquire", !.batch = c]
  OBVIOUS
<1>1. /\ v.buf # <<>> /\ worker' = [worker EXCEPT ![s] = w]
      /\ UNCHANGED <<subscription, transfers, listener, inbox, outbox, receiver>>
  BY DEF Flush
<1>2. v \in Worker /\ WorkerSound(v, head)
  BY Channels
<1>3. v.buf \in Seq(Request) /\ AllGenuine(v.buf, head)
  BY <1>2 DEF Worker, WorkerSound
<1>4. /\ c \in Batch /\ DOMAIN c # {}
      /\ \A t \in DOMAIN c : c[t] = None => \E i \in DOMAIN v.buf : v.buf[i].block = None
  BY <1>1, <1>3, CoalesceServes
<1>5. w \in Worker /\ w.pc = "acquire" /\ w.buf = <<>> /\ w.batch = c
  BY <1>4, RestingStates DEF Worker
<1>6. WorkerSound(w, head)
  <2>1. \A t \in DOMAIN c : c[t] = None => Unpinned
    BY <1>3, <1>4 DEF AllGenuine, Genuine
  <2>2. AllGenuine(<<>>, head)
    BY DEF AllGenuine
  <2> QED BY <1>4, <1>5, <2>1, <2>2 DEF WorkerSound
<1> QED BY <1>1, <1>5, <1>6, Channels, WorkerAlone

\* A worker ends for the loss of its handle when its session was removed, hence cancelled.
LEMMA WorkerEndsStep ==
    ASSUME QueueInv, NEW s \in Session, WorkerEnds(s)
    PROVE  QueueInv'
<1> PICK w : w = [worker[s] EXCEPT !.pc = "gone"]
  OBVIOUS
<1>1. /\ worker[s].buf = <<>> /\ worker' = [worker EXCEPT ![s] = w] /\ entry[s] # "none"
      /\ ~Registered(s) /\ UNCHANGED <<subscription, transfers, listener, inbox, outbox, receiver>>
  BY DEF WorkerEnds, HandleAlive
<1>2. worker[s] \in Worker /\ WorkerSound(worker[s], head)
  BY Channels
<1>3. /\ w \in Worker /\ w.pc = "gone" /\ w.buf = worker[s].buf /\ w.batch = worker[s].batch
  BY <1>2 DEF Worker
<1>4. WorkerSound(w, head)
  BY <1>1, <1>2, <1>3 DEF WorkerSound
<1>5. Cancelled(s)
  BY <1>1 DEF QueueInv, SubscriptionTypeOK, CancelInv, Registered
<1> QED BY <1>1, <1>3, <1>4, <1>5, Channels, WorkerAlone

\* A retry counts against MaxRetries and keeps batch and permit.
LEMMA CallRetriedStep ==
    ASSUME QueueInv, NEW s \in Session, CallRetried(s)
    PROVE  QueueInv'
<1> PICK w : w = [worker[s] EXCEPT !.tries = worker[s].tries + 1]
  OBVIOUS
<1>1. /\ worker[s].pc = "call" /\ worker[s].tries < MaxRetries
      /\ worker' = [worker EXCEPT ![s] = w]
      /\ UNCHANGED <<subscription, transfers, listener, inbox, outbox, receiver>>
  BY DEF CallRetried
<1>2. worker[s] \in Worker /\ WorkerSound(worker[s], head) /\ MaxRetries \in Nat
  BY Channels
<1>3. worker[s].tries + 1 \in 0 .. MaxRetries
  BY <1>1, <1>2 DEF Worker
<1>4. /\ w \in Worker /\ w.pc = "call" /\ w.buf = worker[s].buf /\ w.batch = worker[s].batch
  BY <1>1, <1>2, <1>3 DEF Worker
<1>5. WorkerSound(w, head)
  BY <1>1, <1>2, <1>4 DEF WorkerSound
<1> QED BY <1>1, <1>4, <1>5, Channels, WorkerAlone

\* The result enters a channel that has room, or the worker ends with a stopped receiver.
LEMMA SendResultStep ==
    ASSUME QueueInv, NEW s \in Session, SendResult(s)
    PROVE  QueueInv'
<1>1. worker[s].pc = "send" /\ UNCHANGED <<subscription, transfers, listener, receiver>>
  BY DEF SendResult
<1>2. CASE /\ receiver[s].pc = "stopped"
           /\ worker' = [worker EXCEPT ![s] = [Collecting EXCEPT !.pc = "gone"]]
           /\ inbox' = [inbox EXCEPT ![s] = <<>>]
           /\ UNCHANGED outbox
  <2> PICK w : w = [Collecting EXCEPT !.pc = "gone"]
    OBVIOUS
  <2>1. w \in Worker /\ w.pc = "gone" /\ w.buf = <<>> /\ w.batch = Empty /\ DOMAIN Empty = {}
    BY RestingStates DEF Worker
  <2>2. WorkerSound(w, head)
    BY <2>1 DEF WorkerSound, AllGenuine
  <2>3. Cancelled(s)
    BY <1>2 DEF QueueInv, CancelInv
  <2>4. /\ inbox' \in [Session -> Seq(Request)]
        /\ \A o \in Session : inbox'[o] = IF o = s THEN <<>> ELSE inbox[o]
    BY <1>2, Channels
  <2>5. Len(<<>>) <= InCap /\ AllGenuine(<<>>, head)
    BY Channels DEF AllGenuine
  <2>6. \A o \in Session : Len(inbox'[o]) <= InCap /\ AllGenuine(inbox'[o], head)
    BY <2>4, <2>5, Channels
  <2>7. worker' = [worker EXCEPT ![s] = w]
    BY <1>2
  <2> QED BY <1>1, <1>2, <2>1, <2>2, <2>3, <2>4, <2>6, <2>7, Channels, WorkerAlone
<1>3. CASE /\ Len(outbox[s]) < OutCap
           /\ outbox' = [outbox EXCEPT ![s] = Append(@, worker[s].result)]
           /\ worker' = [worker EXCEPT ![s] = Collecting]
           /\ UNCHANGED inbox
  <2>1. outbox \in [Session -> Seq(Result)] /\ worker[s] \in Worker /\ OutCap \in Nat
        /\ \A o \in Session : Len(outbox[o]) <= OutCap
    BY Channels
  <2>2. outbox[s] \in Seq(Result) /\ worker[s].result \in Result
    BY <2>1 DEF Worker
  <2> PICK r : r = worker[s].result
    OBVIOUS
  <2>3. Append(outbox[s], r) \in Seq(Result) /\ Len(Append(outbox[s], r)) = Len(outbox[s]) + 1
        /\ Len(outbox[s]) \in Nat
    BY <2>2
  <2>4. /\ outbox' \in [Session -> Seq(Result)]
        /\ \A o \in Session : outbox'[o] = IF o = s THEN Append(outbox[s], r) ELSE outbox[o]
    BY <1>3, <2>1, <2>3
  <2>5. Len(Append(outbox[s], r)) <= OutCap
    BY <1>3, <2>1, <2>3
  <2>6. \A o \in Session : Len(outbox'[o]) <= OutCap
    BY <2>1, <2>4, <2>5
  <2>7. Collecting.pc # "gone"
    BY RestingStates
  <2> QED BY <1>1, <1>3, <2>4, <2>6, <2>7, RestingStates, Channels, WorkerAlone
<1> QED BY <1>2, <1>3 DEF SendResult

\* The semaphore: a permit more if there is one, or one less.
LEMMA PermitsKept ==
    ASSUME QueueInv, NEW caller \in {"queue", "updater"} \X Session,
           Acquire(caller) \/ Release(caller)
    PROVE  /\ calls' \subseteq {"queue", "updater"} \X Session
           /\ Cardinality(calls') <= Permits /\ IsFiniteSet(calls')
<1>1. /\ calls \subseteq {"queue", "updater"} \X Session /\ IsFiniteSet(calls)
      /\ Cardinality(calls) <= Permits /\ Permits \in Nat
  BY SubscriptionAssumption DEF QueueInv, SubscriptionTypeOK, CallsFinite
<1>2. Cardinality(calls) \in Nat
  BY <1>1, FS_CardinalityType
<1>3. CASE Acquire(caller)
  <2>1. Cardinality(calls) < Permits /\ calls' = calls \cup {caller}
    BY <1>3 DEF Acquire
  <2>2. /\ IsFiniteSet(calls \cup {caller})
        /\ Cardinality(calls \cup {caller}) =
             IF caller \in calls THEN Cardinality(calls) ELSE Cardinality(calls) + 1
    BY <1>1, FS_AddElement
  <2>3. Cardinality(calls') <= Permits
    BY <1>1, <1>2, <2>1, <2>2
  <2> QED BY <1>1, <2>1, <2>2, <2>3
<1>4. CASE Release(caller)
  <2>1. calls' = calls \ {caller}
    BY <1>4 DEF Release
  <2>2. /\ IsFiniteSet(calls \ {caller})
        /\ Cardinality(calls \ {caller}) =
             IF caller \in calls THEN Cardinality(calls) - 1 ELSE Cardinality(calls)
    BY <1>1, FS_RemoveElement
  <2>3. Cardinality(calls') <= Permits
    BY <1>1, <1>2, <2>1, <2>2
  <2> QED BY <1>1, <2>1, <2>2, <2>3
<1> QED BY <1>3, <1>4

\* The call starts under a permit of the semaphore.
LEMMA AcquirePermitStep ==
    ASSUME QueueInv, NEW s \in Session, AcquirePermit(s)
    PROVE  QueueInv'
<1> PICK w : w = [worker[s] EXCEPT !.pc = "call"]
  OBVIOUS
<1>1. /\ worker[s].pc = "acquire" /\ Acquire(<<"queue", s>>) /\ worker' = [worker EXCEPT ![s] = w]
      /\ UNCHANGED <<chain, lifecycle, tokens, snapshot, notify, history,
                     transfers, listener, inbox, outbox, receiver>>
  BY DEF AcquirePermit
<1>2. /\ calls' \subseteq {"queue", "updater"} \X Session
      /\ Cardinality(calls') <= Permits /\ IsFiniteSet(calls')
  <2>1. <<"queue", s>> \in {"queue", "updater"} \X Session
    OBVIOUS
  <2> QED BY <1>1, <2>1, PermitsKept
<1>3. SubscriptionTypeOK'
  BY <1>1, <1>2 DEF QueueInv, SubscriptionTypeOK, chain, lifecycle, tokens, history
<1>4. /\ DueInv' /\ CallsFinite' /\ head' = head /\ entry' = entry
      /\ \A o \in Session : Cancelled(o)' = Cancelled(o)
  BY <1>1, <1>2 DEF QueueInv, DueInv, CallsFinite, Cancelled, chain, lifecycle, tokens, history
<1>5. worker[s] \in Worker /\ WorkerSound(worker[s], head)
  BY Channels
<1>6. /\ w \in Worker /\ w.pc = "call" /\ w.buf = worker[s].buf /\ w.batch = worker[s].batch
  BY <1>5 DEF Worker
<1>7. WorkerSound(w, head)
  BY <1>1, <1>5, <1>6 DEF WorkerSound
<1> QED BY <1>1, <1>3, <1>4, <1>6, <1>7, Channels, WorkerStepKeeps

\* A call ends, well or not, and with it the permit.
LEMMA CallEndsKeeps ==
    ASSUME QueueInv, NEW s \in Session, NEW result \in Result, CallEnds(s, result),
           UNCHANGED <<chain, lifecycle, tokens, snapshot, notify, due,
                       transfers, listener, inbox, outbox, receiver>>,
           faults' \in 0 .. MaxFaults,
           excused' \in [Session -> [Token -> Block]],
           \A o \in Session, t \in Token : excused'[o][t] <= head
    PROVE  QueueInv'
<1> PICK w : w = [Collecting EXCEPT !.pc = "send", !.result = result]
  OBVIOUS
<1>1. Release(<<"queue", s>>) /\ worker' = [worker EXCEPT ![s] = w]
  BY DEF CallEnds
<1>2. /\ calls' \subseteq {"queue", "updater"} \X Session
      /\ Cardinality(calls') <= Permits /\ IsFiniteSet(calls')
  <2>1. <<"queue", s>> \in {"queue", "updater"} \X Session
    OBVIOUS
  <2> QED BY <1>1, <2>1, PermitsKept
<1>3. SubscriptionTypeOK'
  BY <1>2 DEF QueueInv, SubscriptionTypeOK, chain, lifecycle, tokens
<1>4. /\ DueInv' /\ CallsFinite' /\ head' = head /\ entry' = entry
      /\ \A o \in Session : Cancelled(o)' = Cancelled(o)
  BY <1>2 DEF QueueInv, DueInv, CallsFinite, Cancelled, chain, lifecycle, tokens
<1>5. /\ w \in Worker /\ w.pc = "send" /\ w.buf = <<>> /\ w.batch = Empty /\ DOMAIN Empty = {}
  BY RestingStates DEF Worker
<1>6. WorkerSound(w, head)
  BY <1>5 DEF WorkerSound, AllGenuine
<1> QED BY <1>1, <1>3, <1>4, <1>5, <1>6, Channels, WorkerStepKeeps

\* Excusing tokens up to the head.
LEMMA ExcuseKeeps ==
    ASSUME QueueInv, NEW s \in Session, NEW lost, Excuse(s, lost)
    PROVE  /\ excused' \in [Session -> [Token -> Block]]
           /\ \A o \in Session, t \in Token :
                 /\ excused'[o][t] = IF o = s /\ t \in lost THEN head ELSE excused[o][t]
                 /\ excused'[o][t] <= head /\ excused'[o][t] >= excused[o][t]
<1>1. /\ excused \in [Session -> [Token -> Block]] /\ head \in Block /\ head \in Nat
      /\ \A o \in Session, t \in Token : excused[o][t] <= head
  BY SubscriptionAssumption DEF QueueInv, SubscriptionTypeOK, DueInv, Block
<1> PICK row : row = [t \in Token |-> IF t \in lost THEN head ELSE excused[s][t]]
  OBVIOUS
<1>2. excused' = [excused EXCEPT ![s] = row]
  BY DEF Excuse
<1>3. row \in [Token -> Block]
  BY <1>1
<1>4. /\ excused' \in [Session -> [Token -> Block]]
      /\ \A o \in Session : excused'[o] = IF o = s THEN row ELSE excused[o]
  BY <1>1, <1>2, <1>3
<1>5. ASSUME NEW o \in Session, NEW t \in Token
      PROVE  /\ excused'[o][t] = IF o = s /\ t \in lost THEN head ELSE excused[o][t]
             /\ excused'[o][t] <= head /\ excused'[o][t] >= excused[o][t]
  <2>1. excused'[o][t] = IF o = s /\ t \in lost THEN head ELSE excused[o][t]
    BY <1>4
  <2>2. excused[o][t] \in Nat /\ excused[o][t] <= head
    BY <1>1, BlockIsNat
  <2> QED BY <1>1, <2>1, <2>2
<1> QED BY <1>4, <1>5

\* Faults are counted up to their bound.
LEMMA FaultKeeps == ASSUME QueueInv, Fault PROVE faults' \in 0 .. MaxFaults
BY SubscriptionAssumption DEF QueueInv, SubscriptionTypeOK, Fault

\* The block a batch is read at: one the node has, and when every request is pinned or
\* the node does not lag, no earlier than any request of the batch.
LEMMA BatchIsReadInTime ==
    ASSUME QueueInv, NEW batch \in Batch, DOMAIN batch # {},
           NEW block \in (IF ResolveBlockId(batch) = Latest THEN LatestBlocks
                          ELSE {ResolveBlockId(batch)})
    PROVE  /\ block \in Block
           /\ \A t \in DOMAIN batch : batch[t] # None /\ None \notin {batch[u] : u \in DOMAIN batch}
                                         => block >= batch[t]
           /\ None \in {batch[u] : u \in DOMAIN batch} => block \in LatestBlocks
<1> PICK blocks : blocks = {batch[u] : u \in DOMAIN batch}
  OBVIOUS
<1>1. /\ blocks \subseteq Block /\ blocks # {} /\ MaxBlock \in Nat
      /\ LatestBlocks \subseteq Block
  BY BatchIs, SubscriptionAssumption DEF LatestBlocks, QueueInv, SubscriptionTypeOK, Block
<1>2. ResolveBlockId(batch) = IF None \in blocks THEN Latest ELSE Max(blocks)
  BY DEF ResolveBlockId
<1>3. CASE None \in blocks
  BY <1>1, <1>2, <1>3
<1>4. CASE None \notin blocks
  <2>1. blocks \subseteq 0 .. MaxBlock
    BY <1>1 DEF Block
  <2>2. Max(blocks) \in blocks /\ \A y \in blocks : Max(blocks) >= y
    BY <1>1, <2>1, MaxIsGreatest
  <2>3. Max(blocks) # Latest
    BY <1>4, <2>2 DEF Latest, None
  <2>4. block = Max(blocks)
    BY <1>2, <1>4, <2>3
  <2>5. \A t \in DOMAIN batch : batch[t] \in blocks
    OBVIOUS
  <2> QED BY <1>1, <1>4, <2>2, <2>4, <2>5
<1> QED BY <1>3, <1>4

\* A call answers some tokens at one block, and the others are excused.
LEMMA CallAnswersStep ==
    ASSUME QueueInv, NEW s \in Session, CallAnswers(s)
    PROVE  QueueInv'
<1> PICK batch : batch = worker[s].batch
  OBVIOUS
<1>1. PICK block \in (IF ResolveBlockId(batch) = Latest THEN LatestBlocks
                      ELSE {ResolveBlockId(batch)}),
           answered \in SUBSET DOMAIN batch :
         /\ CallEnds(s, Answer(answered, block))
         /\ IF answered = DOMAIN batch
            THEN UNCHANGED history
            ELSE Fault /\ Excuse(s, DOMAIN batch \ answered) /\ UNCHANGED due
  BY DEF CallAnswers
<1>2. /\ worker[s].pc = "call"
      /\ UNCHANGED <<chain, lifecycle, tokens, snapshot, notify,
                     transfers, listener, inbox, outbox, receiver>>
  BY DEF CallAnswers
<1>3. batch \in Batch /\ DOMAIN batch # {}
  BY <1>2, Channels DEF Worker, WorkerSound
<1>4. block \in Block
  BY <1>3, BatchIsReadInTime
<1>5. Answer(answered, block) \in Result
  <2>1. answered \subseteq Token
    BY <1>3, BatchIs
  <2> QED BY <1>4, <2>1 DEF Answer, Result
<1>6. /\ due' = due /\ faults' \in 0 .. MaxFaults /\ excused' \in [Session -> [Token -> Block]]
      /\ \A o \in Session, t \in Token : excused'[o][t] <= head
  <2>1. CASE UNCHANGED history
    BY <2>1 DEF history, QueueInv, SubscriptionTypeOK, DueInv
  <2>2. CASE Fault /\ Excuse(s, DOMAIN batch \ answered) /\ UNCHANGED due
    BY <2>2, ExcuseKeeps, FaultKeeps
  <2> QED BY <1>1, <2>1, <2>2
<1> QED BY <1>1, <1>2, <1>5, <1>6, CallEndsKeeps

\* A call whose retries are used up ends with an error.
LEMMA CallExhaustedStep ==
    ASSUME QueueInv, NEW s \in Session, CallExhausted(s)
    PROVE  QueueInv'
<1>1. /\ Fault /\ CallEnds(s, Failed) /\ excused' = excused
      /\ UNCHANGED <<chain, lifecycle, tokens, snapshot, notify, due,
                     transfers, listener, inbox, outbox, receiver>>
  BY DEF CallExhausted
<1>2. /\ faults' \in 0 .. MaxFaults /\ excused' \in [Session -> [Token -> Block]]
      /\ \A o \in Session, t \in Token : excused'[o][t] <= head
  BY <1>1, FaultKeeps DEF QueueInv, SubscriptionTypeOK, DueInv
<1>3. Failed \in Result
  BY RestingStates
<1> QED BY <1>1, <1>2, <1>3, CallEndsKeeps

-----------------------------------------------------------------------------
(* The receiver keeps the invariant.                                       *)

\* What all steps of a receiver have in common.
LEMMA ReceiverStepKeeps ==
    ASSUME QueueInv, NEW s \in Session, NEW x \in Receiver,
           receiver' = [receiver EXCEPT ![s] = x], x.pc = "stopped" => Cancelled(s)',
           x.pc = "merge" => x.result.ok,
           SubscriptionTypeOK', DueInv', CallsFinite',
           head' = head, entry' = entry, \A o \in Session : Cancelled(o) => Cancelled(o)',
           UNCHANGED <<transfers, listener, inbox, worker>>,
           outbox' \in [Session -> Seq(Result)], \A o \in Session : Len(outbox'[o]) <= OutCap
    PROVE  QueueInv'
<1>1. receiver \in [Session -> Receiver] /\ transfers \in Seq(Request) /\ listener \in Listener
  BY QueueTypes DEF QueueInv
<1>2. /\ receiver' \in [Session -> Receiver]
      /\ \A o \in Session : receiver'[o] = IF o = s THEN x ELSE receiver[o]
  BY <1>1
<1>3. QueueTypeOK'
  BY <1>1, <1>2, Channels DEF QueueTypeOK, Listener, Worker, Receiver, Batch
<1>4. CancelInv'
  BY <1>2 DEF QueueInv, CancelInv
<1>5. ListenerInv' /\ RequestsInv' /\ WorkerInv'
  BY DEF QueueInv, ListenerInv, RequestsInv, WorkerInv
<1> QED BY <1>3, <1>4, <1>5 DEF QueueInv

\* One channel is shortened.
LEMMA OutboxShrinks ==
    ASSUME QueueInv, NEW s \in Session, NEW q \in Seq(Result), Len(q) <= Len(outbox[s]),
           outbox' = [outbox EXCEPT ![s] = q]
    PROVE  outbox' \in [Session -> Seq(Result)] /\ \A o \in Session : Len(outbox'[o]) <= OutCap
<1>1. /\ outbox \in [Session -> Seq(Result)] /\ \A o \in Session : Len(outbox[o]) <= OutCap
      /\ OutCap \in Nat
  BY Channels
<1>2. /\ outbox' \in [Session -> Seq(Result)]
      /\ \A o \in Session : outbox'[o] = IF o = s THEN q ELSE outbox[o]
  BY <1>1
<1>3. Len(q) <= OutCap
  <2>1. Len(q) \in Nat /\ Len(outbox[s]) \in Nat /\ Len(outbox[s]) <= OutCap
    BY <1>1
  <2> QED BY <1>1, <2>1
<1> QED BY <1>1, <1>2, <1>3

\* The receiver of a session starts to wait.
LEMMA SpawnReceiverStep ==
    ASSUME QueueInv, NEW s \in Session, SpawnReceiver(s)
    PROVE  QueueInv'
<1>1. /\ receiver' = [receiver EXCEPT ![s] = Waiting]
      /\ UNCHANGED <<subscription, transfers, listener, inbox, worker, outbox>>
  BY DEF SpawnReceiver
<1>2. /\ SubscriptionTypeOK' /\ DueInv' /\ CallsFinite' /\ head' = head /\ entry' = entry
      /\ \A o : Cancelled(o)' = Cancelled(o)
  BY <1>1, SubscriptionFrame
<1>3. Waiting \in Receiver /\ Waiting.pc = "wait"
  BY RestingStates
<1> QED BY <1>1, <1>2, <1>3, Channels, ReceiverStepKeeps

\* The receiver stops only for a cancelled session.
LEMMA ReceiverStopsStep ==
    ASSUME QueueInv, NEW s \in Session, ReceiverStops(s)
    PROVE  QueueInv'
<1> PICK x : x = [Waiting EXCEPT !.pc = "stopped"]
  OBVIOUS
<1>1. /\ Cancelled(s) /\ receiver' = [receiver EXCEPT ![s] = x]
      /\ outbox' = [outbox EXCEPT ![s] = <<>>]
      /\ UNCHANGED <<subscription, transfers, listener, inbox, worker>>
  BY DEF ReceiverStops
<1>2. /\ SubscriptionTypeOK' /\ DueInv' /\ CallsFinite' /\ head' = head /\ entry' = entry
      /\ \A o : Cancelled(o)' = Cancelled(o)
  BY <1>1, SubscriptionFrame
<1>3. x \in Receiver /\ x.pc = "stopped"
  BY RestingStates DEF Receiver
<1>4. outbox' \in [Session -> Seq(Result)] /\ \A o \in Session : Len(outbox'[o]) <= OutCap
  <2>1. outbox[s] \in Seq(Result) /\ <<>> \in Seq(Result) /\ Len(<<>>) <= Len(outbox[s])
    BY Channels
  <2> QED BY <1>1, <2>1, OutboxShrinks
<1> QED BY <1>1, <1>2, <1>3, <1>4, ReceiverStepKeeps

\* An answer is kept for the merge; an error cancels the session and stops the receiver.
LEMMA ReceiveStep ==
    ASSUME QueueInv, NEW s \in Session, Receive(s)
    PROVE  QueueInv'
<1> PICK result : result = Head(outbox[s])
  OBVIOUS
<1>1. /\ outbox[s] # <<>>
      /\ UNCHANGED <<chain, entry, shutdown, closed, tokens, snapshot, notify, calls, history,
                     transfers, listener, inbox, worker>>
  BY DEF Receive
<1>2. /\ outbox[s] \in Seq(Result) /\ cancelled \in [Session -> BOOLEAN]
  BY Channels DEF QueueInv, SubscriptionTypeOK
<1>3. /\ result \in Result /\ Tail(outbox[s]) \in Seq(Result) /\ Len(outbox[s]) \in Nat
      /\ Len(Tail(outbox[s])) = Len(outbox[s]) - 1
      /\ <<>> \in Seq(Result) /\ Len(<<>>) = 0
  BY <1>1, <1>2
<1>4. ASSUME cancelled' \in [Session -> BOOLEAN], \A o \in Session : cancelled[o] => cancelled'[o]
      PROVE  /\ SubscriptionTypeOK' /\ DueInv' /\ CallsFinite' /\ head' = head /\ entry' = entry
             /\ \A o \in Session : Cancelled(o) => Cancelled(o)'
  <2>1. SubscriptionTypeOK'
    BY <1>1, <1>4 DEF QueueInv, SubscriptionTypeOK, chain, tokens, history
  <2> QED BY <1>1, <1>4, <2>1 DEF QueueInv, DueInv, CallsFinite, Cancelled, chain, tokens, history
<1>5. CASE /\ result.ok
           /\ receiver' = [receiver EXCEPT ![s] = [pc |-> "merge", result |-> result]]
           /\ outbox' = [outbox EXCEPT ![s] = Tail(@)]
           /\ UNCHANGED cancelled
  <2> PICK x : x = [pc |-> "merge", result |-> result]
    OBVIOUS
  <2>1. x \in Receiver /\ x.pc # "stopped" /\ x.result.ok
    BY <1>3, <1>5 DEF Receiver
  <2>2. outbox' \in [Session -> Seq(Result)] /\ \A o \in Session : Len(outbox'[o]) <= OutCap
    <3>1. Len(Tail(outbox[s])) <= Len(outbox[s]) /\ outbox' = [outbox EXCEPT ![s] = Tail(outbox[s])]
      BY <1>3, <1>5
    <3> QED BY <1>3, <3>1, OutboxShrinks
  <2>3. cancelled' \in [Session -> BOOLEAN] /\ \A o \in Session : cancelled[o] => cancelled'[o]
    BY <1>2, <1>5
  <2>4. receiver' = [receiver EXCEPT ![s] = x]
    BY <1>5
  <2> QED BY <1>1, <1>4, <2>1, <2>2, <2>3, <2>4, ReceiverStepKeeps
<1>6. CASE /\ receiver' = [receiver EXCEPT ![s] = [Waiting EXCEPT !.pc = "stopped"]]
           /\ outbox' = [outbox EXCEPT ![s] = <<>>]
           /\ cancelled' = [cancelled EXCEPT ![s] = TRUE]
  <2> PICK x : x = [Waiting EXCEPT !.pc = "stopped"]
    OBVIOUS
  <2>1. x \in Receiver /\ x.pc = "stopped"
    BY RestingStates DEF Receiver
  <2>2. outbox' \in [Session -> Seq(Result)] /\ \A o \in Session : Len(outbox'[o]) <= OutCap
    <3>1. Len(<<>>) <= Len(outbox[s]) /\ outbox' = [outbox EXCEPT ![s] = <<>>]
      BY <1>3, <1>6
    <3> QED BY <1>3, <3>1, OutboxShrinks
  <2>3. /\ cancelled' \in [Session -> BOOLEAN] /\ \A o \in Session : cancelled[o] => cancelled'[o]
        /\ cancelled'[s]
    BY <1>2, <1>6
  <2>4. receiver' = [receiver EXCEPT ![s] = x]
    BY <1>6
  <2>5. Cancelled(s)'
    BY <2>3 DEF Cancelled
  <2> QED BY <1>1, <1>4, <2>1, <2>2, <2>3, <2>4, <2>5, ReceiverStepKeeps
<1> QED BY <1>5, <1>6 DEF Receive

\* update_balances_and_take_diff never takes a balance back.
LEMMA MergedGives ==
    ASSUME QueueInv, NEW s \in Session, NEW answered, NEW block \in Block,
           snapshot' = Merged(s, answered, block)
    PROVE  /\ snapshot' \in [Session -> [Token -> Block]]
           /\ \A o \in Session, t \in Token :
                 /\ snapshot'[o][t] \in Nat /\ snapshot[o][t] \in Nat
                 /\ snapshot'[o][t] >= snapshot[o][t]
                 /\ o = s /\ t \in answered => snapshot'[o][t] >= block
<1>1. snapshot \in [Session -> [Token -> Block]] /\ block \in Nat
  BY BlockIsNat DEF QueueInv, SubscriptionTypeOK
<1> PICK row : row = [t \in Token |-> IF t \in answered /\ snapshot[s][t] < block
                                      THEN block ELSE snapshot[s][t]]
  OBVIOUS
<1>2. snapshot' = [snapshot EXCEPT ![s] = row]
  BY DEF Merged
<1>3. row \in [Token -> Block]
  BY <1>1
<1>4. /\ snapshot' \in [Session -> [Token -> Block]]
      /\ \A o \in Session : snapshot'[o] = IF o = s THEN row ELSE snapshot[o]
  BY <1>1, <1>2, <1>3
<1>5. ASSUME NEW o \in Session, NEW t \in Token
      PROVE  /\ snapshot'[o][t] \in Nat /\ snapshot[o][t] \in Nat
             /\ snapshot'[o][t] >= snapshot[o][t]
             /\ o = s /\ t \in answered => snapshot'[o][t] >= block
  <2>1. snapshot[o][t] \in Nat /\ snapshot'[o][t] \in Nat
    BY <1>1, <1>4, BlockIsNat
  <2>2. snapshot'[o][t] = IF o = s /\ t \in answered /\ snapshot[s][t] < block
                          THEN block ELSE snapshot[o][t]
    BY <1>4
  <2> QED BY <1>1, <2>1, <2>2
<1> QED BY <1>4, <1>5

\* The merge changes the snapshot, never back to an earlier block.
LEMMA MergeResultStep ==
    ASSUME QueueInv, NEW s \in Session, MergeResult(s)
    PROVE  QueueInv'
<1>1. /\ snapshot' = Merged(s, receiver[s].result.answered, receiver[s].result.block)
      /\ receiver' = [receiver EXCEPT ![s] = Waiting]
      /\ UNCHANGED <<chain, lifecycle, tokens, notify, calls, history,
                     transfers, listener, inbox, worker, outbox>>
  BY DEF MergeResult
<1>2. receiver[s].result \in Result
  BY QueueTypes DEF QueueInv, Receiver
<1>3. receiver[s].result.block \in Block
  BY <1>2 DEF Result
<1>4. snapshot' \in [Session -> [Token -> Block]]
  BY <1>1, <1>3, MergedGives
<1>5. SubscriptionTypeOK'
  BY <1>1, <1>4 DEF QueueInv, SubscriptionTypeOK, chain, lifecycle, tokens, history
<1>6. /\ DueInv' /\ CallsFinite' /\ head' = head /\ entry' = entry
      /\ \A o \in Session : Cancelled(o) => Cancelled(o)'
  BY <1>1 DEF QueueInv, DueInv, CallsFinite, Cancelled, chain, lifecycle, tokens, history
<1>7. Waiting \in Receiver /\ Waiting.pc = "wait"
  BY RestingStates
<1> QED BY <1>1, <1>5, <1>6, <1>7, Channels, ReceiverStepKeeps

-----------------------------------------------------------------------------
(* The listener keeps the invariant.                                       *)

\* What all steps of the listener have in common.
LEMMA ListenerStepKeeps ==
    ASSUME QueueInv, transfers' \in Seq(Request), listener' \in Listener, ListenerInv',
           AllGenuine(transfers', head),
           inbox' \in [Session -> Seq(Request)],
           \A o \in Session : Len(inbox'[o]) <= InCap /\ AllGenuine(inbox'[o], head),
           SubscriptionTypeOK', DueInv', CallsFinite',
           head' = head, entry' = entry, \A o \in Session : Cancelled(o) => Cancelled(o)',
           UNCHANGED <<worker, outbox, receiver>>
    PROVE  QueueInv'
<1>1. receiver \in [Session -> Receiver]
  BY QueueTypes DEF QueueInv
<1>2. QueueTypeOK'
  BY <1>1, Channels DEF QueueTypeOK, Listener, Worker, Receiver, Batch
<1>3. RequestsInv' /\ WorkerInv' /\ CancelInv'
  BY DEF QueueInv, RequestsInv, WorkerInv, CancelInv
<1> QED BY <1>2, <1>3 DEF QueueInv

\* The listener takes an event and every registered session to ask.
LEMMA TakeTransferKeeps ==
    ASSUME QueueInv, TakeTransfer
    PROVE  QueueInv'
<1> PICK todo : todo = {s \in Session : Registered(s)}
  OBVIOUS
<1>1. /\ transfers # <<>> /\ transfers' = Tail(transfers)
      /\ listener' = [Receiving EXCEPT !.pc = "fanout", !.event = Head(transfers), !.todo = todo]
      /\ UNCHANGED <<subscription, inbox, worker, outbox, receiver>>
  BY DEF TakeTransfer
<1>2. transfers \in Seq(Request) /\ AllGenuine(transfers, head)
  BY QueueTypes DEF QueueInv, RequestsInv
<1>3. /\ transfers' \in Seq(Request) /\ Head(transfers) \in Request
      /\ AllGenuine(transfers', head) /\ Genuine(Head(transfers), head)
  BY <1>1, <1>2, TailGenuine
<1>4. /\ listener' \in Listener /\ listener'.pc = "fanout" /\ listener'.event = Head(transfers)
      /\ listener'.queues = {} /\ listener'.sent = {}
  BY <1>1, <1>3, RestingStates DEF Listener
<1>5. /\ SubscriptionTypeOK' /\ DueInv' /\ CallsFinite' /\ head' = head /\ entry' = entry
      /\ \A o : Cancelled(o)' = Cancelled(o)
  BY <1>1, SubscriptionFrame
<1>6. ListenerInv'
  BY <1>3, <1>4, <1>5 DEF ListenerInv
<1> QED BY <1>1, <1>3, <1>4, <1>5, <1>6, Channels, ListenerStepKeeps

\* The listener drops its handles at the end of a round and when it stops.
LEMMA FanoutDoneKeeps ==
    ASSUME QueueInv, FanoutDone \/ ListenerStops
    PROVE  QueueInv'
<1>1. /\ listener' \in {Receiving, [Receiving EXCEPT !.pc = "stopped"]}
      /\ transfers' \in {transfers, <<>>}
      /\ UNCHANGED <<subscription, inbox, worker, outbox, receiver>>
  BY DEF FanoutDone, ListenerStops
<1>2. /\ listener' \in Listener /\ listener'.pc # "fanout" /\ listener'.todo = {}
      /\ listener'.queues = {} /\ listener'.sent = {}
  BY <1>1, RestingStates DEF Listener
<1>3. transfers' \in Seq(Request) /\ AllGenuine(transfers', head)
  <2>1. transfers \in Seq(Request) /\ AllGenuine(transfers, head)
    BY QueueTypes DEF QueueInv, RequestsInv
  <2>2. <<>> \in Seq(Request) /\ AllGenuine(<<>>, head)
    BY DEF AllGenuine
  <2> QED BY <1>1, <2>1, <2>2
<1>4. /\ SubscriptionTypeOK' /\ DueInv' /\ CallsFinite' /\ head' = head /\ entry' = entry
      /\ \A o : Cancelled(o)' = Cancelled(o)
  BY <1>1, SubscriptionFrame
<1>5. ListenerInv'
  BY <1>2 DEF ListenerInv
<1> QED BY <1>1, <1>2, <1>3, <1>4, <1>5, Channels, ListenerStepKeeps

\* What asking a session changes.
LEMMA AskWatchedGives ==
    ASSUME QueueInv, NEW s \in Session, AskWatched(s)
    PROVE  /\ listener.pc = "fanout" /\ s \in listener.todo
           /\ listener' \in Listener /\ listener'.pc = "fanout"
           /\ listener'.event = listener.event /\ listener'.todo = listener.todo \ {s}
           /\ listener'.sent = listener.sent
           /\ listener'.queues = IF listener.event.token \in watched[s]
                                 THEN listener.queues \cup {s} ELSE listener.queues
           /\ due' \in [Session -> [Token -> Block]]
           /\ \A o \in Session, t \in Token :
                 /\ due'[o][t] \in Nat
                 /\ IF o = s /\ t = listener.event.token /\ t \in watched[s]
                    THEN due'[o][t] \in {due[o][t], listener.event.block}
                    ELSE due'[o][t] = due[o][t]
           /\ UNCHANGED <<chain, lifecycle, tokens, snapshot, notify, calls, excused, faults,
                          transfers, inbox, worker, outbox, receiver>>
<1> PICK e : e = listener.event
  OBVIOUS
<1>1. /\ listener.pc = "fanout" /\ s \in listener.todo
      /\ listener' = [listener EXCEPT !.todo = @ \ {s},
                        !.queues = IF e.token \in watched[s] THEN @ \cup {s} ELSE @]
      /\ due' = IF e.token \in watched[s]
                THEN [due EXCEPT ![s][e.token] = Max({@, e.block})] ELSE due
      /\ UNCHANGED <<chain, lifecycle, tokens, snapshot, notify, calls, excused, faults,
                     transfers, inbox, worker, outbox, receiver>>
  BY DEF AskWatched
<1>2. listener \in Listener /\ due \in [Session -> [Token -> Block]]
  BY QueueTypes DEF QueueInv, SubscriptionTypeOK
<1>3. /\ listener' \in Listener /\ listener'.pc = "fanout"
      /\ listener'.event = e /\ listener'.todo = listener.todo \ {s}
      /\ listener'.sent = listener.sent
      /\ listener'.queues = IF e.token \in watched[s]
                            THEN listener.queues \cup {s} ELSE listener.queues
  BY <1>1, <1>2 DEF Listener
<1>4. e \in Request /\ e.token \in Token /\ e.block \in Block /\ e.block \in Nat
  BY <1>2, BlockIsNat DEF Listener, Request
<1>5. /\ due' \in [Session -> [Token -> Block]]
      /\ \A o \in Session, t \in Token :
            IF o = s /\ t = e.token /\ t \in watched[s]
            THEN due'[o][t] \in {due[o][t], e.block} ELSE due'[o][t] = due[o][t]
  <2>1. CASE e.token \notin watched[s]
    BY <1>1, <1>2, <2>1
  <2>2. CASE e.token \in watched[s]
    <3> PICK m : m = Max({due[s][e.token], e.block})
      OBVIOUS
    <3>1. due[s][e.token] \in Block /\ due[s][e.token] \in Nat
      BY <1>2, <1>4, BlockIsNat
    <3>2. m \in {due[s][e.token], e.block}
      BY <1>4, <3>1, MaxOfTwo
    <3>3. due' = [due EXCEPT ![s] = [due[s] EXCEPT ![e.token] = m]]
      BY <1>1, <1>2, <2>2
    <3>4. m \in Block
      BY <1>4, <3>1, <3>2
    <3> QED BY <1>2, <1>4, <2>2, <3>2, <3>3, <3>4
  <2> QED BY <2>1, <2>2
<1>6. \A o \in Session, t \in Token : due'[o][t] \in Nat
  BY <1>5, BlockIsNat
<1> QED BY <1>1, <1>3, <1>5, <1>6, ZenonT(60)

\* A session watches the token and its read is due, or it is passed over.
LEMMA AskWatchedKeeps ==
    ASSUME QueueInv, NEW s \in Session, AskWatched(s)
    PROVE  QueueInv'
<1>1. /\ listener.pc = "fanout" /\ s \in listener.todo
      /\ listener' \in Listener /\ listener'.pc = "fanout"
      /\ listener'.event = listener.event /\ listener'.todo = listener.todo \ {s}
      /\ listener'.sent = listener.sent
      /\ listener'.queues = IF listener.event.token \in watched[s]
                            THEN listener.queues \cup {s} ELSE listener.queues
  BY AskWatchedGives
<1>2. /\ due' \in [Session -> [Token -> Block]]
      /\ \A o \in Session, t \in Token :
            IF o = s /\ t = listener.event.token /\ t \in watched[s]
            THEN due'[o][t] \in {due[o][t], listener.event.block}
            ELSE due'[o][t] = due[o][t]
      /\ UNCHANGED <<chain, lifecycle, tokens, snapshot, notify, calls, excused, faults,
                     transfers, inbox, worker, outbox, receiver>>
  BY AskWatchedGives, ZenonT(60)
<1>3. SubscriptionTypeOK'
  BY <1>2 DEF QueueInv, SubscriptionTypeOK, chain, lifecycle, tokens
<1>4. /\ CallsFinite' /\ head' = head /\ entry' = entry /\ watched' = watched
      /\ moved' = moved /\ excused' = excused
      /\ \A o \in Session : Cancelled(o) => Cancelled(o)'
  BY <1>2 DEF QueueInv, CallsFinite, Cancelled, chain, lifecycle, tokens
<1>5. listener.event.block <= head
  BY <1>1 DEF QueueInv, ListenerInv, Genuine
<1>6. DueInv'
  BY <1>2, <1>4, <1>5 DEF QueueInv, DueInv
<1>7. ListenerInv'
  BY <1>1, <1>4 DEF QueueInv, ListenerInv
<1>8. transfers \in Seq(Request) /\ AllGenuine(transfers, head)
  BY QueueTypes DEF QueueInv, RequestsInv
<1> QED BY <1>1, <1>2, <1>3, <1>4, <1>6, <1>7, <1>8, Channels, ListenerStepKeeps

\* What a send that got through changes.
LEMMA EnqueueGives ==
    ASSUME QueueInv, NEW s \in Session, Enqueue(s)
    PROVE  /\ listener.pc = "fanout" /\ s \in listener.queues
           /\ listener' \in Listener /\ listener'.pc = "fanout"
           /\ listener'.event = listener.event /\ listener'.todo = listener.todo
           /\ listener'.queues = listener.queues /\ listener'.sent = listener.sent \cup {s}
           /\ UNCHANGED <<subscription, transfers, worker, outbox, receiver>>
           /\ \/ worker[s].pc = "gone" /\ inbox' = inbox
              \/ /\ Len(inbox[s]) < InCap
                 /\ inbox' = [inbox EXCEPT ![s] = Append(inbox[s], listener.event)]
<1>1. /\ listener.pc = "fanout" /\ s \in listener.queues
      /\ listener' = [listener EXCEPT !.sent = @ \cup {s}]
      /\ UNCHANGED <<subscription, transfers, worker, outbox, receiver>>
  BY DEF Enqueue, Pending
<1>2. \/ worker[s].pc = "gone" /\ inbox' = inbox
      \/ /\ Len(inbox[s]) < InCap
         /\ inbox' = [inbox EXCEPT ![s] = Append(inbox[s], listener.event)]
  BY DEF Enqueue
<1>3. listener \in Listener
  BY QueueTypes DEF QueueInv
<1>4. /\ listener' \in Listener /\ listener'.pc = "fanout"
      /\ listener'.event = listener.event /\ listener'.todo = listener.todo
      /\ listener'.queues = listener.queues /\ listener'.sent = listener.sent \cup {s}
  BY <1>1, <1>3 DEF Listener
<1> QED BY <1>1, <1>2, <1>4

\* The event enters the channel of a session that has room, or none.
LEMMA EnqueueKeeps ==
    ASSUME QueueInv, NEW s \in Session, Enqueue(s)
    PROVE  QueueInv'
<1>1. /\ listener.pc = "fanout" /\ s \in listener.queues
      /\ listener' \in Listener /\ listener'.pc = "fanout"
      /\ listener'.event = listener.event /\ listener'.todo = listener.todo
      /\ listener'.queues = listener.queues /\ listener'.sent = listener.sent \cup {s}
      /\ UNCHANGED <<subscription, transfers, worker, outbox, receiver>>
  BY EnqueueGives
<1>2. \/ inbox' = inbox
      \/ /\ Len(inbox[s]) < InCap
         /\ inbox' = [inbox EXCEPT ![s] = Append(inbox[s], listener.event)]
  BY EnqueueGives
<1>3. /\ SubscriptionTypeOK' /\ DueInv' /\ CallsFinite' /\ head' = head /\ entry' = entry
      /\ \A o : Cancelled(o)' = Cancelled(o)
  BY <1>1, SubscriptionFrame
<1>4. ListenerInv'
  BY <1>1, <1>3 DEF QueueInv, ListenerInv
<1>5. listener.event \in Request /\ Genuine(listener.event, head)
  BY <1>1, QueueTypes DEF QueueInv, ListenerInv, Listener
<1>6. /\ inbox' \in [Session -> Seq(Request)]
      /\ \A o \in Session : Len(inbox'[o]) <= InCap /\ AllGenuine(inbox'[o], head)
  <2>1. CASE inbox' = inbox
    BY <2>1, Channels
  <2>2. CASE /\ Len(inbox[s]) < InCap
             /\ inbox' = [inbox EXCEPT ![s] = Append(inbox[s], listener.event)]
    <3> PICK q : q = Append(inbox[s], listener.event)
      OBVIOUS
    <3>1. /\ inbox \in [Session -> Seq(Request)] /\ inbox[s] \in Seq(Request) /\ InCap \in Nat
          /\ AllGenuine(inbox[s], head)
      BY Channels
    <3>2. q \in Seq(Request) /\ Len(q) = Len(inbox[s]) + 1 /\ Len(inbox[s]) \in Nat
      BY <1>5, <3>1
    <3>3. AllGenuine(q, head)
      BY <1>5, <3>1, AppendGenuine
    <3>4. Len(q) <= InCap
      BY <2>2, <3>1, <3>2
    <3>5. /\ inbox' \in [Session -> Seq(Request)]
          /\ \A o \in Session : inbox'[o] = IF o = s THEN q ELSE inbox[o]
      BY <2>2, <3>1, <3>2
    <3> QED BY <3>3, <3>4, <3>5, Channels
  <2> QED BY <1>2, <2>1, <2>2
<1>7. transfers \in Seq(Request) /\ AllGenuine(transfers, head)
  BY QueueTypes DEF QueueInv, RequestsInv
<1> QED BY <1>1, <1>3, <1>4, <1>6, <1>7, ListenerStepKeeps

-----------------------------------------------------------------------------
(* The chain and the life of a session keep the invariant.                 *)

\* A new block and the transfer it may bring are genuine.
LEMMA NewBlockKeeps ==
    ASSUME QueueInv, NEW t \in Token, NewBlock(t)
    PROVE  QueueInv'
<1>1. /\ head < MaxBlock /\ head' = head + 1 /\ moved' = [moved EXCEPT ![t] = head']
      /\ UNCHANGED <<lifecycle, tokens, snapshot, notify, calls, history,
                     listener, inbox, worker, outbox, receiver>>
  BY DEF NewBlock
<1>2. /\ head \in 1 .. MaxBlock /\ MaxBlock \in Nat /\ moved \in [Token -> Block]
      /\ transfers \in Seq(Request) /\ AllGenuine(transfers, head)
      /\ listener \in Listener /\ receiver \in [Session -> Receiver]
  BY QueueTypes, SubscriptionAssumption DEF QueueInv, SubscriptionTypeOK, RequestsInv
<1>3. head \in Nat /\ head' \in Nat /\ head' \in Block /\ head' \in 1 .. MaxBlock /\ head <= head'
  BY <1>1, <1>2 DEF Block
<1>4. transfers' \in Seq(Request) /\ AllGenuine(transfers', head')
  <2>1. AllGenuine(transfers, head')
    BY <1>2, <1>3, GenuineLater
  <2>2. CASE transfers' = transfers
    BY <1>2, <2>1, <2>2
  <2>3. CASE transfers' # transfers
    <3>1. PICK block \in {head'} \cup (IF Unpinned THEN {None} ELSE {}) :
             transfers' = Append(transfers, [token |-> t, block |-> block])
      BY <2>3 DEF NewBlock
    <3> PICK r : r = [token |-> t, block |-> block]
      OBVIOUS
    <3>2. r \in Request /\ r.block = block
      BY <1>3, SubscriptionAssumption DEF Request, None, Block
    <3>3. Genuine(r, head')
      BY <1>2, <1>3, <3>2 DEF Genuine, None
    <3>4. transfers' = Append(transfers, r) /\ transfers' \in Seq(Request)
      BY <1>2, <3>1, <3>2
    <3> QED BY <1>2, <2>1, <3>2, <3>3, <3>4, AppendGenuine
  <2> QED BY <2>2, <2>3
<1>5. moved' \in [Token -> Block] /\ \A u \in Token : moved'[u] <= head'
  <2>1. \A u \in Token : moved[u] \in Nat /\ moved[u] <= head
    BY <1>2, BlockIsNat DEF QueueInv, DueInv
  <2> QED BY <1>1, <1>2, <1>3, <2>1
<1>6. SubscriptionTypeOK'
  BY <1>1, <1>3, <1>5 DEF QueueInv, SubscriptionTypeOK, lifecycle, tokens, history
<1>7. QueueTypeOK'
  BY <1>1, <1>2, <1>4, Channels DEF QueueTypeOK, Listener, Worker, Receiver, Batch
<1>8. DueInv' /\ CallsFinite'
  <2>1. /\ due' = due /\ excused' = excused /\ watched' = watched /\ calls' = calls
        /\ entry' = entry
    BY <1>1 DEF lifecycle, tokens, history
  <2>2. \A o \in Session, u \in Token : due[o][u] \in Nat /\ excused[o][u] \in Nat
    BY BlockIsNat DEF QueueInv, SubscriptionTypeOK
  <2>3. \A o \in Session, u \in Token : due[o][u] <= head' /\ excused[o][u] <= head'
    BY <1>3, <2>2 DEF QueueInv, DueInv
  <2> QED BY <1>5, <2>1, <2>3 DEF QueueInv, DueInv, CallsFinite
<1>9. CancelInv'
  BY <1>1 DEF QueueInv, CancelInv, Cancelled, lifecycle
<1>10. ListenerInv'
  <2>1. listener.event.block \in Nat
    BY <1>2, BlockIsNat DEF Listener, Request
  <2> QED BY <1>1, <1>3, <2>1 DEF QueueInv, ListenerInv, Genuine
<1>11. RequestsInv'
  <2>1. \A s \in Session : AllGenuine(inbox[s], head')
    BY <1>3, Channels, GenuineLater
  <2> QED BY <1>1, <1>4, <2>1 DEF RequestsInv
<1>12. WorkerInv'
  <2>1. ASSUME NEW s \in Session PROVE WorkerSound(worker[s], head')
    <3>1. worker[s].buf \in Seq(Request) /\ WorkerSound(worker[s], head)
      BY Channels DEF Worker
    <3>2. AllGenuine(worker[s].buf, head')
      BY <1>3, <3>1, GenuineLater DEF WorkerSound
    <3> QED BY <3>1, <3>2 DEF WorkerSound
  <2> QED BY <1>1, <2>1 DEF WorkerInv
<1> QED BY <1>6, <1>7, <1>8, <1>9, <1>10, <1>11, <1>12 DEF QueueInv

\* What all steps in the life of a session have in common.
LEMMA LifecycleFrame ==
    ASSUME QueueInv, UNCHANGED queues,
           SubscriptionTypeOK', DueInv', CallsFinite', head' = head,
           \A o \in Session : Cancelled(o) => Cancelled(o)',
           \A o \in Session : entry'[o] = "removed" => Cancelled(o)'
    PROVE  QueueInv'
<1>1. /\ transfers' = transfers /\ listener' = listener /\ inbox' = inbox
      /\ worker' = worker /\ outbox' = outbox /\ receiver' = receiver
  BY DEF queues
<1>2. QueueTypeOK'
  BY <1>1 DEF QueueInv, QueueTypeOK
<1>3. ListenerInv' /\ RequestsInv' /\ WorkerInv' /\ CancelInv'
  BY <1>1 DEF QueueInv, ListenerInv, RequestsInv, WorkerInv, CancelInv
<1> QED BY <1>2, <1>3 DEF QueueInv

\* A new session has nothing due, whatever it watches.
LEMMA CreateSessionKeeps ==
    ASSUME QueueInv, NEW s \in Session, NEW list \in WatchList, CreateSession(s, list),
           UNCHANGED queues
    PROVE  QueueInv'
<1>1. /\ entry[s] = "none" /\ entry' = [entry EXCEPT ![s] = "registered"]
      /\ watched' = [watched EXCEPT ![s] = list]
      /\ UNCHANGED <<chain, cancelled, shutdown, closed, snapshot, notify, put, calls, history>>
  BY DEF CreateSession
<1>2. /\ entry \in [Session -> {"none", "registered", "removed"}]
      /\ watched \in [Session -> SUBSET Token] /\ list \in SUBSET Token
  BY SubscriptionAssumption DEF QueueInv, SubscriptionTypeOK
<1>3. /\ entry' \in [Session -> {"none", "registered", "removed"}]
      /\ watched' \in [Session -> SUBSET Token]
      /\ \A o \in Session : /\ entry'[o] = IF o = s THEN "registered" ELSE entry[o]
                            /\ watched'[o] = IF o = s THEN list ELSE watched[o]
  BY <1>1, <1>2
<1>4. SubscriptionTypeOK'
  BY <1>1, <1>3 DEF QueueInv, SubscriptionTypeOK, chain, history
<1>5. /\ CallsFinite' /\ head' = head /\ moved' = moved /\ due' = due /\ excused' = excused
      /\ \A o \in Session : Cancelled(o) => Cancelled(o)'
  BY <1>1 DEF QueueInv, CallsFinite, Cancelled, chain, history
<1>6. \A t \in Token : due[s][t] = 0
  BY <1>1 DEF QueueInv, DueInv
<1>7. DueInv'
  BY <1>3, <1>5, <1>6 DEF QueueInv, DueInv
<1>8. \A o \in Session : entry'[o] = "removed" => Cancelled(o)'
  BY <1>3, <1>5 DEF QueueInv, CancelInv
<1> QED BY <1>4, <1>5, <1>7, <1>8, LifecycleFrame

\* The entries stay as they are.
LEMMA EntriesStay ==
    ASSUME QueueInv, UNCHANGED lifecycle
    PROVE  /\ entry' = entry
           /\ \A o \in Session : Cancelled(o) <=> Cancelled(o)'
           /\ \A o \in Session : entry'[o] = "removed" => Cancelled(o)'
<1>1. entry' = entry /\ \A o \in Session : Cancelled(o) <=> Cancelled(o)'
  BY DEF lifecycle, Cancelled
<1> QED BY <1>1 DEF QueueInv, CancelInv

\* set_watched_tokens: nothing is due for the tokens it drops.
LEMMA SetWatchedTokensGives ==
    ASSUME QueueInv, NEW s \in Session, NEW list \in WatchList, SetWatchedTokens(s, list)
    PROVE  /\ Registered(s) /\ list \subseteq Token
           /\ watched' \in [Session -> SUBSET Token]
           /\ \A o \in Session : watched'[o] = IF o = s THEN list ELSE watched[o]
           /\ put' \in [Session -> [pc : {"idle", "evicting"}, added : SUBSET Token]]
           /\ due' \in [Session -> [Token -> Block]]
           /\ \A o \in Session, t \in Token :
                 due'[o][t] = IF o = s /\ t \notin list THEN 0 ELSE due[o][t]
           /\ UNCHANGED <<chain, lifecycle, snapshot, notify, calls, excused, faults>>
<1> PICK p : p = [pc |-> "evicting", added |-> list \ watched[s]]
  OBVIOUS
<1> PICK row : row = [t \in Token |-> IF t \in list THEN due[s][t] ELSE 0]
  OBVIOUS
<1>1. /\ Registered(s) /\ watched' = [watched EXCEPT ![s] = list]
      /\ put' = [put EXCEPT ![s] = p] /\ due' = [due EXCEPT ![s] = row]
      /\ UNCHANGED <<chain, lifecycle, snapshot, notify, calls, excused, faults>>
  BY DEF SetWatchedTokens
<1>2. /\ watched \in [Session -> SUBSET Token] /\ list \in SUBSET Token
      /\ put \in [Session -> [pc : {"idle", "evicting"}, added : SUBSET Token]]
      /\ due \in [Session -> [Token -> Block]] /\ 0 \in Block
  BY SubscriptionAssumption DEF QueueInv, SubscriptionTypeOK, Block
<1>3. p \in [pc : {"idle", "evicting"}, added : SUBSET Token] /\ row \in [Token -> Block]
  BY <1>2
<1>4. /\ watched' \in [Session -> SUBSET Token]
      /\ \A o \in Session : watched'[o] = IF o = s THEN list ELSE watched[o]
      /\ put' \in [Session -> [pc : {"idle", "evicting"}, added : SUBSET Token]]
  BY <1>1, <1>2, <1>3
<1>5. /\ due' \in [Session -> [Token -> Block]]
      /\ \A o \in Session : due'[o] = IF o = s THEN row ELSE due[o]
  BY <1>1, <1>2, <1>3
<1> QED BY <1>1, <1>2, <1>4, <1>5

\* A PUT keeps the invariant.
LEMMA SetWatchedTokensKeeps ==
    ASSUME QueueInv, NEW s \in Session, NEW list \in WatchList, SetWatchedTokens(s, list),
           UNCHANGED queues
    PROVE  QueueInv'
<1>1. /\ Registered(s) /\ list \subseteq Token
      /\ watched' \in [Session -> SUBSET Token]
      /\ \A o \in Session : watched'[o] = IF o = s THEN list ELSE watched[o]
      /\ put' \in [Session -> [pc : {"idle", "evicting"}, added : SUBSET Token]]
      /\ due' \in [Session -> [Token -> Block]]
      /\ \A o \in Session, t \in Token :
            due'[o][t] = IF o = s /\ t \notin list THEN 0 ELSE due[o][t]
      /\ UNCHANGED <<chain, lifecycle, snapshot, notify, calls, excused, faults>>
  BY SetWatchedTokensGives
<1>2. SubscriptionTypeOK'
  BY <1>1 DEF QueueInv, SubscriptionTypeOK, chain, lifecycle
<1>3. /\ CallsFinite' /\ head' = head /\ moved' = moved /\ excused' = excused /\ head \in Nat
  BY <1>1 DEF QueueInv, CallsFinite, chain, SubscriptionTypeOK
<1>4. /\ entry' = entry /\ \A o \in Session : Cancelled(o) => Cancelled(o)'
      /\ \A o \in Session : entry'[o] = "removed" => Cancelled(o)'
  BY <1>1, EntriesStay
<1>5. entry[s] # "none"
  BY <1>1 DEF Registered
<1>6. ASSUME NEW o \in Session, NEW t \in Token
      PROVE  /\ due'[o][t] <= head /\ excused'[o][t] <= head
             /\ t \notin watched'[o] => due'[o][t] = 0
  BY <1>1, <1>3 DEF QueueInv, DueInv
<1>7. DueInv'
  BY <1>1, <1>3, <1>4, <1>5, <1>6 DEF QueueInv, DueInv
<1> QED BY <1>2, <1>3, <1>4, <1>7, LifecycleFrame

\* The end of a PUT, with or without the eviction.
LEMMA EvictKeeps ==
    ASSUME QueueInv, NEW s \in Session, EvictAndNotify(s) \/ PutDropped(s), UNCHANGED queues
    PROVE  QueueInv'
<1>1. NoPut \in [pc : {"idle", "evicting"}, added : SUBSET Token]
  BY DEF NoPut
<1>2. put' \in [Session -> [pc : {"idle", "evicting"}, added : SUBSET Token]]
  BY <1>1 DEF EvictAndNotify, PutDropped, QueueInv, SubscriptionTypeOK
<1>3. CASE EvictAndNotify(s)
  <2> PICK row : row = [t \in Token |-> IF t \in watched[s] THEN snapshot[s][t] ELSE 0]
    OBVIOUS
  <2>1. /\ snapshot' = [snapshot EXCEPT ![s] = row] /\ notify' = [notify EXCEPT ![s] = TRUE]
        /\ UNCHANGED <<chain, lifecycle, watched, calls, history>>
    BY <1>3 DEF EvictAndNotify
  <2>2. row \in [Token -> Block]
    BY SubscriptionAssumption DEF QueueInv, SubscriptionTypeOK, Block
  <2>3. snapshot' \in [Session -> [Token -> Block]] /\ notify' \in [Session -> BOOLEAN]
    BY <2>1, <2>2 DEF QueueInv, SubscriptionTypeOK
  <2>4. SubscriptionTypeOK'
    BY <1>2, <2>1, <2>3 DEF QueueInv, SubscriptionTypeOK, chain, lifecycle, history
  <2>5. DueInv' /\ CallsFinite' /\ head' = head
    BY <2>1 DEF QueueInv, DueInv, CallsFinite, chain, lifecycle, history
  <2> QED BY <2>1, <2>4, <2>5, EntriesStay, LifecycleFrame
<1>4. CASE PutDropped(s)
  <2>1. /\ Fault /\ Excuse(s, put[s].added)
        /\ UNCHANGED <<chain, lifecycle, watched, snapshot, notify, calls, due>>
    BY <1>4 DEF PutDropped
  <2>2. /\ faults' \in 0 .. MaxFaults /\ excused' \in [Session -> [Token -> Block]]
        /\ \A o \in Session, t \in Token : excused'[o][t] <= head
    BY <2>1, ExcuseKeeps, FaultKeeps
  <2>3. SubscriptionTypeOK'
    BY <1>2, <2>1, <2>2 DEF QueueInv, SubscriptionTypeOK, chain, lifecycle
  <2>4. DueInv' /\ CallsFinite' /\ head' = head
    BY <2>1, <2>2 DEF QueueInv, DueInv, CallsFinite, chain, lifecycle
  <2> QED BY <2>1, <2>3, <2>4, EntriesStay, LifecycleFrame
<1> QED BY <1>3, <1>4

\* Expiry and shutdown: whoever leaves the map is cancelled.
LEMMA RemovalKeeps ==
    ASSUME QueueInv, UNCHANGED queues,
           (\E s \in Session : ExpireSession(s)) \/ ShutdownSignal \/ CloseSseConnections
    PROVE  QueueInv'
<1>1. /\ UNCHANGED <<chain, tokens, snapshot, notify, calls, history>>
      /\ entry' \in [Session -> {"none", "registered", "removed"}]
      /\ cancelled' \in [Session -> BOOLEAN] /\ shutdown' \in BOOLEAN /\ closed' \in BOOLEAN
      /\ \A o \in Session : entry'[o] = "none" <=> entry[o] = "none"
      /\ \A o \in Session : Cancelled(o) => Cancelled(o)'
      /\ \A o \in Session : entry'[o] = "removed" => Cancelled(o)'
  <2>1. /\ entry \in [Session -> {"none", "registered", "removed"}]
        /\ cancelled \in [Session -> BOOLEAN] /\ shutdown \in BOOLEAN /\ closed \in BOOLEAN
        /\ \A o \in Session : entry[o] = "removed" => Cancelled(o)
    BY DEF QueueInv, SubscriptionTypeOK, CancelInv
  <2>2. CASE \E s \in Session : ExpireSession(s)
    <3>1. PICK s \in Session : ExpireSession(s)
      BY <2>2
    <3>2. /\ entry' = [entry EXCEPT ![s] = "removed"] /\ entry[s] = "registered"
          /\ cancelled' = [cancelled EXCEPT ![s] = TRUE]
          /\ UNCHANGED <<chain, shutdown, closed, tokens, snapshot, notify, calls, history>>
      BY <3>1 DEF ExpireSession, Registered
    <3> QED BY <2>1, <3>2 DEF Cancelled
  <2>3. CASE ShutdownSignal
    BY <2>1, <2>3 DEF ShutdownSignal, Cancelled
  <2>4. CASE CloseSseConnections
    <3>1. /\ shutdown /\ closed' = TRUE
          /\ entry' = [s \in Session |-> IF Registered(s) THEN "removed" ELSE entry[s]]
          /\ UNCHANGED <<chain, cancelled, shutdown, tokens, snapshot, notify, calls, history>>
      BY <2>4 DEF CloseSseConnections
    <3> QED BY <2>1, <3>1 DEF Cancelled, Registered
  <2> QED BY <2>2, <2>3, <2>4
<1>2. SubscriptionTypeOK'
  BY <1>1 DEF QueueInv, SubscriptionTypeOK, chain, tokens, history
<1>3. DueInv' /\ CallsFinite' /\ head' = head
  BY <1>1 DEF QueueInv, DueInv, CallsFinite, chain, tokens, history
<1> QED BY <1>1, <1>2, <1>3, LifecycleFrame

-----------------------------------------------------------------------------
(* The invariant.                                                          *)

\* The invariant holds at the start.
LEMMA QueueInitInv == ASSUME QueueInit PROVE QueueInv
<1>1. SubscriptionTypeOK /\ CallsFinite
  <2>1. IsFiniteSet(calls) /\ Cardinality(calls) = 0
    BY FS_EmptySet DEF QueueInit, SubscriptionInit
  <2>2. put \in [Session -> [pc : {"idle", "evicting"}, added : SUBSET Token]]
    BY DEF QueueInit, SubscriptionInit, NoPut
  <2>3. 0 \in Block /\ 1 \in 1 .. MaxBlock /\ 0 \in 0 .. MaxFaults /\ Permits \in Nat
    BY SubscriptionAssumption DEF Block
  <2>4. /\ snapshot \in [Session -> [Token -> Block]] /\ due \in [Session -> [Token -> Block]]
        /\ excused \in [Session -> [Token -> Block]] /\ moved \in [Token -> Block]
    BY <2>3 DEF QueueInit, SubscriptionInit
  <2>5. /\ head \in 1 .. MaxBlock /\ faults \in 0 .. MaxFaults /\ Cardinality(calls) <= Permits
        /\ calls = {}
    BY <2>1, <2>3 DEF QueueInit, SubscriptionInit
  <2>6. /\ entry \in [Session -> {"none", "registered", "removed"}]
        /\ cancelled \in [Session -> BOOLEAN] /\ shutdown \in BOOLEAN /\ closed \in BOOLEAN
        /\ watched \in [Session -> SUBSET Token] /\ notify \in [Session -> BOOLEAN]
    BY DEF QueueInit, SubscriptionInit
  <2> QED BY <2>1, <2>2, <2>4, <2>5, <2>6 DEF SubscriptionTypeOK, CallsFinite
<1>2. QueueTypeOK
  <2> PICK x : x = [Waiting EXCEPT !.pc = "unborn"]
    OBVIOUS
  <2>1. x \in Receiver
    BY RestingStates DEF Receiver
  <2>2. <<>> \in Seq(Request) /\ <<>> \in Seq(Result) /\ Len(<<>>) <= InCap /\ Len(<<>>) <= OutCap
    BY QueueAssumption
  <2>3. /\ transfers = <<>> /\ listener = Receiving /\ inbox = [s \in Session |-> <<>>]
        /\ worker = [s \in Session |-> Collecting] /\ outbox = [s \in Session |-> <<>>]
        /\ receiver = [s \in Session |-> x]
    BY DEF QueueInit
  <2> QED BY <2>1, <2>2, <2>3, RestingStates, QueueTypes
<1>3. ListenerInv /\ RequestsInv /\ WorkerInv
  BY RestingStates DEF QueueInit, ListenerInv, RequestsInv, WorkerInv, AllGenuine
<1>4. CancelInv
  <2>1. \A s \in Session : /\ entry[s] = "none" /\ worker[s] = Collecting
                           /\ receiver[s] = [Waiting EXCEPT !.pc = "unborn"]
    BY DEF QueueInit, SubscriptionInit
  <2>2. [Waiting EXCEPT !.pc = "unborn"].pc = "unborn"
    BY DEF Waiting
  <2> QED BY <2>1, <2>2, RestingStates DEF CancelInv
<1>5. DueInv
  BY DEF QueueInit, SubscriptionInit, DueInv
<1> QED BY <1>1, <1>2, <1>3, <1>4, <1>5 DEF QueueInv

\* A step of the queue or of a session's life.
QueueStep == QueueNext \/ (LifecycleNext /\ UNCHANGED queues)

\* It is preserved by what happens to the sessions,
LEMMA LifecycleKeeps == ASSUME QueueInv, LifecycleNext, UNCHANGED queues PROVE QueueInv'
BY CreateSessionKeeps, SetWatchedTokensKeeps, EvictKeeps, RemovalKeeps DEF LifecycleNext

\* by listener, workers and receivers,
LEMMA QueueStepKeeps == ASSUME QueueInv, QueueStep PROVE QueueInv'
<1>1. CASE \E t \in Token : NewBlock(t)
  BY <1>1, NewBlockKeeps
<1>2. CASE ListenerStep
  BY <1>2, TakeTransferKeeps, FanoutDoneKeeps, AskWatchedKeeps, EnqueueKeeps DEF ListenerStep
<1>3. CASE \E s \in Session : WorkerStep(s)
  BY <1>3, CollectStep, FlushStep, WorkerEndsStep, AcquirePermitStep, CallAnswersStep,
     CallRetriedStep, CallExhaustedStep, SendResultStep DEF WorkerStep
<1>4. CASE \E s \in Session : ReceiverStep(s)
  BY <1>4, SpawnReceiverStep, ReceiveStep, MergeResultStep, ReceiverStopsStep DEF ReceiverStep
<1> QED BY <1>1, <1>2, <1>3, <1>4, LifecycleKeeps DEF QueueStep, QueueNext

\* and by the steps of others.
LEMMA QueueStutterKeeps == ASSUME QueueInv, UNCHANGED queueVars PROVE QueueInv'
<1>1. UNCHANGED subscription /\ UNCHANGED queues
  BY DEF queueVars
<1>2. /\ SubscriptionTypeOK' /\ DueInv' /\ CallsFinite' /\ head' = head
      /\ \A o : Cancelled(o)' = Cancelled(o)
  BY <1>1, SubscriptionFrame
<1>3. UNCHANGED lifecycle
  BY <1>1 DEF subscription
<1> QED BY <1>1, <1>2, <1>3, EntriesStay, LifecycleFrame

\* So it holds in every state.
LEMMA QueueInvariant == QueueSpec => []QueueInv
<1>1. QueueInv /\ [QueueNext \/ (LifecycleNext /\ UNCHANGED queues)]_queueVars => QueueInv'
  BY QueueStepKeeps, QueueStutterKeeps DEF QueueStep
<1> QED BY <1>1, QueueInitInv, PTL DEF QueueSpec

\* The worker of a session leaves only after the session was cancelled: an enqueue fails, and
\* the receiver's recv returns None, for nobody who is still served.
THEOREM WorkersOutliveSessions == QueueSpec => []WorkerOutlivesSession
<1>1. QueueInv => WorkerOutlivesSession
  BY DEF QueueInv, CancelInv, WorkerOutlivesSession
<1> QED BY <1>1, QueueInvariant, PTL

-----------------------------------------------------------------------------
(* On the way from the listener to the snapshot.                           *)

\* Some message of the channel is one of these.
Has(q, messages) == \E i \in DOMAIN q : q[i] \in messages

\* The requests that will be read at block b or later, and the results that bring it.
Requests(t, b) == {r \in Request : r.token = t /\ Serves(r.block, b)}
Results(t, b) == {r \in Result : Brings(r, t, b)}

\* What a worker does about block b of token t.
Working(w, t, b) ==
    \/ Has(w.buf, Requests(t, b))
    \/ w.pc \in {"acquire", "call"} /\ t \in DOMAIN w.batch /\ Serves(w.batch[t], b)
    \/ w.pc = "send" /\ w.result \in Results(t, b)

\* Underway, as a predicate of the values along the way of one session.
Way(pending, event, in, w, out, r, t, b) ==
    \/ pending /\ event \in Requests(t, b)
    \/ Has(in, Requests(t, b))
    \/ Working(w, t, b)
    \/ Has(out, Results(t, b))
    \/ r.pc = "merge" /\ r.result \in Results(t, b)

OnWay(s, t, b) ==
    Way(s \in Pending, listener.event, inbox[s], worker[s], outbox[s], receiver[s], t, b)

\* Block b of token t is in the snapshot of s, excused or on the way.
Reflected(s, t, b) == b <= snapshot[s][t] \/ b <= excused[s][t] \/ OnWay(s, t, b)

\* A message more in a channel.
LEMMA AppendHas ==
    ASSUME NEW S, NEW q \in Seq(S), NEW r \in S, NEW H, Has(q, H) \/ r \in H
    PROVE  Has(Append(q, r), H)
<1> PICK f : f = Append(q, r)
  OBVIOUS
<1> PICK n : n = Len(q)
  OBVIOUS
<1>1. /\ n \in Nat /\ DOMAIN q = 1 .. n /\ DOMAIN f = 1 .. n + 1
      /\ \A i \in 1 .. n : f[i] = q[i]
      /\ f[n + 1] = r
  OBVIOUS
<1>2. CASE r \in H
  BY <1>1, <1>2 DEF Has
<1>3. CASE Has(q, H)
  <2>1. PICK i \in DOMAIN q : q[i] \in H
    BY <1>3 DEF Has
  <2>2. i \in DOMAIN f /\ f[i] \in H
    BY <1>1, <2>1
  <2> QED BY <2>2 DEF Has
<1> QED BY <1>2, <1>3

\* A message taken out of it.
LEMMA TailHas ==
    ASSUME NEW S, NEW q \in Seq(S), q # <<>>, NEW H, Has(q, H)
    PROVE  Head(q) \in H \/ Has(Tail(q), H)
<1> PICK f : f = Tail(q)
  OBVIOUS
<1> PICK n : n = Len(q)
  OBVIOUS
<1>1. /\ n \in Nat /\ n >= 1 /\ DOMAIN q = 1 .. n /\ DOMAIN f = 1 .. n - 1 /\ Head(q) = q[1]
      /\ \A i \in 1 .. n - 1 : f[i] = q[i + 1]
  OBVIOUS
<1>2. PICK i \in DOMAIN q : q[i] \in H
  BY DEF Has
<1>3. CASE i = 1
  BY <1>1, <1>2, <1>3
<1>4. CASE i # 1
  <2>1. i - 1 \in 1 .. n - 1 /\ i \in Nat
    BY <1>1, <1>4
  <2>2. f[i - 1] = q[i - 1 + 1] /\ i - 1 + 1 = i /\ i - 1 \in DOMAIN f
    BY <1>1, <2>1
  <2>3. f[i - 1] \in H
    BY <1>2, <2>2
  <2> QED BY <2>2, <2>3 DEF Has
<1> QED BY <1>3, <1>4

\* The predicate is Underway's.
LEMMA OnWayIs ==
    ASSUME QueueTypeOK, NEW s \in Session, NEW t, NEW b
    PROVE  OnWay(s, t, b) <=> Underway(s, t, b)
<1>1. /\ listener.event \in Request /\ inbox[s] \in Seq(Request) /\ worker[s].buf \in Seq(Request)
      /\ worker[s].result \in Result /\ outbox[s] \in Seq(Result) /\ receiver[s].result \in Result
  BY DEF QueueTypeOK
<1>2. /\ listener.event \in Requests(t, b)
           <=> listener.event.token = t /\ Serves(listener.event.block, b)
      /\ worker[s].result \in Results(t, b) <=> Brings(worker[s].result, t, b)
      /\ receiver[s].result \in Results(t, b) <=> Brings(receiver[s].result, t, b)
  BY <1>1 DEF Requests, Results
<1>3. /\ Has(inbox[s], Requests(t, b))
           <=> \E r \in Range(inbox[s]) : r.token = t /\ Serves(r.block, b)
      /\ Has(worker[s].buf, Requests(t, b))
           <=> \E r \in Range(worker[s].buf) : r.token = t /\ Serves(r.block, b)
  BY <1>1, SMTT(60) DEF Has, Requests, Range
<1>4. Has(outbox[s], Results(t, b)) <=> \E r \in Range(outbox[s]) : Brings(r, t, b)
  BY <1>1 DEF Has, Results, Range
<1> QED BY <1>2, <1>3, <1>4 DEF OnWay, Way, Working, Underway

\* Every transfer the listener found watched is reflected.
AllReflected == \A s \in Session : Live(s) => \A t \in watched[s] : Reflected(s, t, due[s][t])

\* The invariant in these words.
LEMMA ReflectedIs == ASSUME QueueInv PROVE TransferReflected <=> AllReflected
<1>1. ASSUME NEW s \in Session, NEW t \in watched[s]
      PROVE  /\ due[s][t] <= Max({snapshot[s][t], excused[s][t]})
                  <=> due[s][t] <= snapshot[s][t] \/ due[s][t] <= excused[s][t]
             /\ OnWay(s, t, due[s][t]) <=> Underway(s, t, due[s][t])
  <2>1. t \in Token
    BY DEF QueueInv, SubscriptionTypeOK
  <2>2. due[s][t] \in Nat /\ snapshot[s][t] \in Nat /\ excused[s][t] \in Nat
    BY <2>1, BlockIsNat DEF QueueInv, SubscriptionTypeOK
  <2> PICK m : m = Max({snapshot[s][t], excused[s][t]})
    OBVIOUS
  <2>3. m \in {snapshot[s][t], excused[s][t]} /\ m >= snapshot[s][t] /\ m >= excused[s][t]
    BY <2>2, MaxOfTwo
  <2>4. due[s][t] <= m <=> due[s][t] <= snapshot[s][t] \/ due[s][t] <= excused[s][t]
    BY <2>2, <2>3
  <2> QED BY <2>4, OnWayIs DEF QueueInv
<1> QED BY <1>1, Zenon DEF TransferReflected, AllReflected, Reflected

-----------------------------------------------------------------------------
(* No step loses what is on the way.                                       *)

\* A step that leaves the way of a session alone, but for the listener.
LEMMA WayUntouched ==
    ASSUME NEW s \in Session, NEW t, NEW b,
           s \in Pending => s \in Pending' /\ listener'.event = listener.event,
           inbox'[s] = inbox[s], worker'[s] = worker[s], outbox'[s] = outbox[s],
           receiver'[s] = receiver[s], OnWay(s, t, b)
    PROVE  OnWay(s, t, b)'
<1> PICK p : p = (s \in Pending)
  OBVIOUS
<1>1. Way(p, listener.event, inbox[s], worker[s], outbox[s], receiver[s], t, b)
  BY DEF OnWay
<1>2. Way(s \in Pending', listener'.event, inbox'[s], worker'[s], outbox'[s], receiver'[s], t, b)
  BY <1>1 DEF Way
<1> QED BY <1>2 DEF OnWay

\* The listener.
LEMMA ListenerKeepsWay ==
    ASSUME QueueInv, ListenerStep, NEW s \in Session, NEW t, NEW b, ~Cancelled(s), OnWay(s, t, b)
    PROVE  OnWay(s, t, b)'
<1>1. inbox[s] \in Seq(Request) /\ listener.event \in Request
  BY Channels, QueueTypes DEF QueueInv, Listener
<1>2. CASE TakeTransfer
  <2>1. /\ listener.pc = "recv" /\ UNCHANGED <<inbox, worker, outbox, receiver>>
    BY <1>2 DEF TakeTransfer
  <2>2. s \notin Pending
    BY <2>1 DEF QueueInv, ListenerInv, Pending
  <2> QED BY <2>1, <2>2, WayUntouched
<1>3. CASE FanoutDone \/ ListenerStops
  <2>1. UNCHANGED <<inbox, worker, outbox, receiver>>
    BY <1>3 DEF FanoutDone, ListenerStops
  <2>2. s \notin Pending
    BY <1>3 DEF FanoutDone, ListenerStops, QueueInv, ListenerInv, Pending
  <2> QED BY <2>1, <2>2, WayUntouched
<1>4. CASE \E o \in Session : AskWatched(o)
  <2>1. PICK o \in Session : AskWatched(o)
    BY <1>4
  <2>2. /\ listener'.event = listener.event /\ listener'.sent = listener.sent
        /\ listener'.queues = IF listener.event.token \in watched[o]
                              THEN listener.queues \cup {o} ELSE listener.queues
        /\ UNCHANGED <<inbox, worker, outbox, receiver>>
    BY <2>1, AskWatchedGives
  <2>3. s \in Pending => s \in Pending'
    BY <2>2 DEF Pending
  <2> QED BY <2>2, <2>3, WayUntouched
<1>5. CASE \E o \in Session : Enqueue(o)
  <2>1. PICK o \in Session : Enqueue(o)
    BY <1>5
  <2>2. /\ listener'.event = listener.event /\ listener'.queues = listener.queues
        /\ listener'.sent = listener.sent \cup {o}
        /\ UNCHANGED <<worker, outbox, receiver>>
        /\ \/ worker[o].pc = "gone" /\ inbox' = inbox
           \/ inbox' = [inbox EXCEPT ![o] = Append(inbox[o], listener.event)]
    BY <2>1, EnqueueGives
  <2>3. inbox \in [Session -> Seq(Request)]
    BY Channels
  <2>4. CASE o # s
    <3>1. inbox'[s] = inbox[s] /\ (s \in Pending => s \in Pending')
      BY <2>2, <2>3, <2>4 DEF Pending
    <3> QED BY <2>2, <3>1, WayUntouched
  <2>5. CASE o = s
    <3>1. inbox'[s] = Append(inbox[s], listener.event)
      BY <2>2, <2>3, <2>5 DEF QueueInv, CancelInv
    <3>2. CASE Has(inbox[s], Requests(t, b)) \/ listener.event \in Requests(t, b)
      <4>1. Has(inbox'[s], Requests(t, b))
        BY <1>1, <3>1, <3>2, AppendHas
      <4> QED BY <4>1 DEF OnWay, Way
    <3>3. CASE ~(Has(inbox[s], Requests(t, b)) \/ listener.event \in Requests(t, b))
      BY <2>2, <3>3 DEF OnWay, Way
    <3> QED BY <3>2, <3>3
  <2> QED BY <2>4, <2>5
<1> QED BY <1>2, <1>3, <1>4, <1>5 DEF ListenerStep

\* What is on the way of a session, stage by stage.
LEMMA WorkingKeepsWay ==
    ASSUME NEW s \in Session, NEW t, NEW b, UNCHANGED <<listener, receiver>>, OnWay(s, t, b),
           Has(inbox[s], Requests(t, b)) => Has(inbox'[s], Requests(t, b)) \/ Working(worker'[s], t, b),
           Has(outbox[s], Results(t, b)) => Has(outbox'[s], Results(t, b)),
           Working(worker[s], t, b) => Working(worker'[s], t, b) \/ Has(outbox'[s], Results(t, b))
    PROVE  OnWay(s, t, b)'
<1>1. Pending' = Pending
  BY DEF Pending
<1> QED BY <1>1 DEF OnWay, Way

\* The steps of the worker before and after the call.
LEMMA WorkerKeepsWay ==
    ASSUME QueueInv, NEW s \in Session, NEW t, NEW b \in Nat, ~Cancelled(s), OnWay(s, t, b),
           \/ Collect(s) \/ Flush(s) \/ WorkerEnds(s) \/ AcquirePermit(s) \/ CallRetried(s)
           \/ SendResult(s)
    PROVE  OnWay(s, t, b)'
<1> PICK w : w = worker[s]
  OBVIOUS
<1>1. /\ worker \in [Session -> Worker] /\ w \in Worker /\ WorkerSound(w, head)
      /\ inbox \in [Session -> Seq(Request)] /\ outbox \in [Session -> Seq(Result)]
  BY Channels
<1>2. /\ w.buf \in Seq(Request) /\ w.batch \in Batch /\ w.result \in Result
      /\ inbox[s] \in Seq(Request) /\ outbox[s] \in Seq(Result)
  BY <1>1 DEF Worker
<1>3. CASE Collect(s)
  <2> PICK r : r = Head(inbox[s])
    OBVIOUS
  <2>1. /\ w.pc = "collect" /\ inbox[s] # <<>> /\ inbox'[s] = Tail(inbox[s])
        /\ worker' = [worker EXCEPT ![s] = [w EXCEPT !.buf = Append(w.buf, r)]]
        /\ UNCHANGED <<listener, outbox, receiver>>
    BY <1>1, <1>3 DEF Collect
  <2>2. /\ worker'[s] = [w EXCEPT !.buf = Append(w.buf, r)]
    BY <1>1, <2>1
  <2>3. worker'[s].buf = Append(w.buf, r) /\ r \in Request
    BY <1>1, <1>2, <2>1, <2>2 DEF Worker
  <2>4. Has(w.buf, Requests(t, b)) \/ r \in Requests(t, b) => Has(worker'[s].buf, Requests(t, b))
    BY <1>2, <2>3, AppendHas
  <2>5. Has(inbox[s], Requests(t, b)) => r \in Requests(t, b) \/ Has(inbox'[s], Requests(t, b))
    BY <1>2, <2>1, TailHas
  <2>6. Working(w, t, b) => Working(worker'[s], t, b)
    BY <2>1, <2>4 DEF Working
  <2>7. Has(worker'[s].buf, Requests(t, b)) => Working(worker'[s], t, b)
    BY DEF Working
  <2> QED BY <2>1, <2>4, <2>5, <2>6, <2>7, WorkingKeepsWay
<1>4. CASE Flush(s)
  <2> PICK c : c = CoalesceByToken(w.buf)
    OBVIOUS
  <2>1. /\ w.pc = "collect" /\ w.buf # <<>>
        /\ worker' = [worker EXCEPT ![s] = [Collecting EXCEPT !.pc = "acquire", !.batch = c]]
        /\ UNCHANGED <<listener, inbox, outbox, receiver>>
    BY <1>4 DEF Flush
  <2>2. worker'[s] = [Collecting EXCEPT !.pc = "acquire", !.batch = c]
    BY <1>1, <2>1
  <2>3. worker'[s].pc = "acquire" /\ worker'[s].batch = c
    BY <2>2 DEF Collecting
  <2>4. /\ c \in Batch
        /\ \A i \in DOMAIN w.buf :
              /\ w.buf[i].token \in DOMAIN c
              /\ \/ c[w.buf[i].token] = None
                 \/ w.buf[i].block # None /\ c[w.buf[i].token] >= w.buf[i].block
    BY <1>2, CoalesceServes
  <2>5. ASSUME Has(w.buf, Requests(t, b)) PROVE t \in DOMAIN c /\ Serves(c[t], b)
    <3>1. PICK i \in DOMAIN w.buf : w.buf[i] \in Requests(t, b)
      BY <2>5 DEF Has
    <3>2. w.buf[i] \in Request /\ w.buf[i].token = t /\ Serves(w.buf[i].block, b)
      BY <3>1 DEF Requests
    <3>3. t \in DOMAIN c /\ (c[t] = None \/ (w.buf[i].block # None /\ c[t] >= w.buf[i].block))
      BY <2>4, <3>2
    <3>4. c[t] \in Nat /\ w.buf[i].block \in Nat
      BY <2>4, <3>2, <3>3, BatchIs, BlockIsNat DEF Request
    <3> QED BY <3>2, <3>3, <3>4 DEF Serves
  <2> QED BY <2>1, <2>3, <2>5, WorkingKeepsWay DEF Working
<1>5. CASE WorkerEnds(s)
  <2>1. /\ w.pc = "collect" /\ entry[s] # "none" /\ ~Registered(s)
    BY <1>5 DEF WorkerEnds, HandleAlive
  <2>2. Cancelled(s)
    BY <2>1 DEF QueueInv, SubscriptionTypeOK, CancelInv, Registered
  <2> QED BY <2>2
<1>6. CASE AcquirePermit(s) \/ CallRetried(s)
  <2>1. /\ worker' \in {[worker EXCEPT ![s] = [w EXCEPT !.pc = "call"]],
                        [worker EXCEPT ![s] = [w EXCEPT !.tries = w.tries + 1]]}
        /\ w.pc \in {"acquire", "call"}
        /\ UNCHANGED <<listener, inbox, outbox, receiver>>
    BY <1>6 DEF AcquirePermit, CallRetried
  <2>2. worker'[s] \in {[w EXCEPT !.pc = "call"], [w EXCEPT !.tries = w.tries + 1]}
    BY <1>1, <2>1
  <2>3. /\ worker'[s].pc \in {"acquire", "call"} /\ worker'[s].buf = w.buf
        /\ worker'[s].batch = w.batch
    BY <1>1, <2>1, <2>2 DEF Worker
  <2>4. Working(w, t, b) => Working(worker'[s], t, b)
    BY <2>1, <2>3 DEF Working
  <2> QED BY <2>1, <2>4, WorkingKeepsWay
<1>7. CASE SendResult(s)
  <2>1. w.pc = "send" /\ UNCHANGED <<listener, receiver>>
    BY <1>7 DEF SendResult
  <2>2. receiver[s].pc # "stopped"
    BY DEF QueueInv, CancelInv
  <2>3. /\ outbox'[s] = Append(outbox[s], w.result) /\ inbox' = inbox
    BY <1>1, <1>7, <2>2 DEF SendResult
  <2>4. Has(outbox[s], Results(t, b)) \/ w.result \in Results(t, b)
          => Has(outbox'[s], Results(t, b))
    BY <1>2, <2>3, AppendHas
  <2>5. ~Has(w.buf, Requests(t, b))
    BY <1>1, <2>1 DEF WorkerSound, Has
  <2>6. Working(w, t, b) => Has(outbox'[s], Results(t, b))
    BY <2>1, <2>4, <2>5 DEF Working
  <2> QED BY <2>1, <2>3, <2>4, <2>6, WorkingKeepsWay
<1> QED BY <1>3, <1>4, <1>5, <1>6, <1>7

\* With nothing but pinned requests, or a node that does not lag, the answer is in time.
NodeKeepsUp == ~Unpinned \/ MaxLag = 0

\* The call ends: with an answer in time, an excuse or an error.
LEMMA CallKeepsWay ==
    ASSUME QueueInv, NodeKeepsUp, NEW s \in Session, NEW t \in Token, NEW b \in Nat, b <= head,
           OnWay(s, t, b), CallAnswers(s) \/ CallExhausted(s)
    PROVE  OnWay(s, t, b)' \/ b <= excused'[s][t]
<1> PICK w : w = worker[s]
  OBVIOUS
<1> PICK batch : batch = w.batch
  OBVIOUS
<1>1. /\ worker \in [Session -> Worker] /\ w \in Worker /\ WorkerSound(w, head)
  BY Channels
<1>2. w.pc = "call" /\ UNCHANGED <<listener, inbox, outbox, receiver>>
  BY DEF CallAnswers, CallExhausted
<1>3. /\ batch \in Batch /\ DOMAIN batch # {} /\ ~Has(w.buf, Requests(t, b))
      /\ \A u \in DOMAIN batch : batch[u] = None => Unpinned
  BY <1>1, <1>2 DEF Worker, WorkerSound, Has
<1>4. ASSUME NEW result \in Result, CallEnds(s, result),
             t \in DOMAIN batch /\ Serves(batch[t], b) => Brings(result, t, b)
      PROVE  OnWay(s, t, b)'
  <2>1. worker'[s] = [Collecting EXCEPT !.pc = "send", !.result = result]
    BY <1>1, <1>4 DEF CallEnds
  <2>2. worker'[s].pc = "send" /\ worker'[s].result = result
    BY <2>1 DEF Collecting
  <2>3. Working(w, t, b) => Working(worker'[s], t, b)
    BY <1>2, <1>3, <1>4, <2>2 DEF Working, Results
  <2> QED BY <1>2, <2>3, WorkingKeepsWay
<1>5. CASE CallExhausted(s)
  <2>1. CallEnds(s, Failed) /\ Failed \in Result /\ ~Failed.ok
    BY <1>5, RestingStates DEF CallExhausted
  <2> QED BY <1>4, <2>1 DEF Brings
<1>6. CASE CallAnswers(s)
  <2>1. PICK block \in (IF ResolveBlockId(batch) = Latest THEN LatestBlocks
                        ELSE {ResolveBlockId(batch)}),
             answered \in SUBSET DOMAIN batch :
           /\ CallEnds(s, Answer(answered, block))
           /\ IF answered = DOMAIN batch
              THEN UNCHANGED history
              ELSE Fault /\ Excuse(s, DOMAIN batch \ answered) /\ UNCHANGED due
    BY <1>6 DEF CallAnswers
  <2>2. /\ block \in Block
        /\ \A u \in DOMAIN batch : batch[u] # None /\ None \notin {batch[o] : o \in DOMAIN batch}
                                      => block >= batch[u]
        /\ None \in {batch[o] : o \in DOMAIN batch} => block \in LatestBlocks
    BY <1>3, BatchIsReadInTime
  <2>3. Answer(answered, block) \in Result
    BY <1>3, <2>2, BatchIs DEF Answer, Result
  <2>4. /\ Answer(answered, block).answered = answered /\ Answer(answered, block).block = block
    BY DEF Answer
  <2>5. CASE t \in DOMAIN batch \ answered
    <3>1. excused'[s][t] = head
      BY <2>1, <2>5, ExcuseKeeps
    <3> QED BY <3>1
  <2>6. CASE t \notin DOMAIN batch
    BY <1>4, <2>1, <2>3, <2>6
  <2>7. CASE t \in answered
    <3>1. ASSUME Serves(batch[t], b) PROVE block >= b
      <4>1. block \in Nat /\ batch[t] \in Nat /\ head \in Nat /\ t \in DOMAIN batch
        BY <1>3, <2>2, <2>7, BatchIs, BlockIsNat, SubscriptionAssumption
           DEF QueueInv, SubscriptionTypeOK
      <4>2. CASE None \in {batch[o] : o \in DOMAIN batch}
        <5>1. MaxLag = 0
          BY <1>3, <4>2 DEF NodeKeepsUp
        <5> QED BY <2>2, <4>1, <4>2, <5>1 DEF LatestBlocks
      <4>3. CASE None \notin {batch[o] : o \in DOMAIN batch}
        <5>1. batch[t] # None
          BY <4>1, <4>3
        <5>2. block >= batch[t] /\ batch[t] >= b
          BY <2>2, <3>1, <4>1, <4>3, <5>1 DEF Serves
        <5> QED BY <4>1, <5>2
      <4> QED BY <4>2, <4>3
    <3>2. t \in DOMAIN batch /\ Serves(batch[t], b) => Brings(Answer(answered, block), t, b)
      BY <2>4, <2>7, <3>1 DEF Brings
    <3> QED BY <1>4, <2>1, <2>3, <3>2
  <2> QED BY <2>5, <2>6, <2>7
<1> QED BY <1>5, <1>6

\* The receiver: what it merges is in the snapshot, and an error ends the session.
LEMMA ReceiverKeepsWay ==
    ASSUME QueueInv, NEW s \in Session, NEW t \in Token, NEW b \in Nat,
           OnWay(s, t, b), ReceiverStep(s), ~Cancelled(s)'
    PROVE  OnWay(s, t, b)' \/ b <= snapshot'[s][t]
<1>1. /\ outbox \in [Session -> Seq(Result)] /\ receiver \in [Session -> Receiver]
      /\ cancelled \in [Session -> BOOLEAN]
  BY Channels, QueueTypes DEF QueueInv, SubscriptionTypeOK
<1>2. UNCHANGED <<listener, inbox, worker>>
  BY DEF ReceiverStep, SpawnReceiver, Receive, MergeResult, ReceiverStops
<1>3. Pending' = Pending
  BY <1>2 DEF Pending
<1>4. CASE SpawnReceiver(s)
  <2>1. receiver[s].pc = "unborn" /\ outbox' = outbox
    BY <1>4 DEF SpawnReceiver
  <2> QED BY <1>2, <1>3, <2>1 DEF OnWay, Way
<1>5. CASE ReceiverStops(s)
  BY <1>5 DEF ReceiverStops, subscription, lifecycle, Cancelled
<1>6. CASE Receive(s)
  <2> PICK r : r = Head(outbox[s])
    OBVIOUS
  <2>1. receiver[s].pc = "wait" /\ outbox[s] # <<>>
    BY <1>6 DEF Receive
  <2>2. r.ok
    <3> SUFFICES ASSUME ~r.ok PROVE FALSE
      OBVIOUS
    <3>1. cancelled'[s]
      BY <1>1, <1>6 DEF Receive
    <3> QED BY <3>1 DEF Cancelled
  <2>3. receiver'[s] = [pc |-> "merge", result |-> r] /\ outbox'[s] = Tail(outbox[s])
    BY <1>1, <1>6, <2>2 DEF Receive
  <2>4. receiver'[s].pc = "merge" /\ receiver'[s].result = r
    BY <2>3
  <2>5. Has(outbox[s], Results(t, b)) => r \in Results(t, b) \/ Has(outbox'[s], Results(t, b))
    BY <1>1, <2>1, <2>3, TailHas
  <2> QED BY <1>2, <1>3, <2>1, <2>4, <2>5 DEF OnWay, Way
<1>7. CASE MergeResult(s)
  <2> PICK r : r = receiver[s].result
    OBVIOUS
  <2>1. /\ receiver[s].pc = "merge" /\ snapshot' = Merged(s, r.answered, r.block) /\ outbox' = outbox
    BY <1>7 DEF MergeResult
  <2>2. r \in Result /\ r.ok
    BY <1>1, <2>1 DEF Receiver, QueueInv, CancelInv
  <2>3. CASE r \in Results(t, b)
    <3>1. t \in r.answered /\ r.block >= b /\ r.block \in Block /\ r.block \in Nat
      BY <2>2, <2>3, BlockIsNat DEF Results, Brings, Result
    <3>2. snapshot'[s][t] \in Nat /\ snapshot'[s][t] >= r.block
      BY <2>1, <3>1, MergedGives
    <3> QED BY <3>1, <3>2
  <2>4. CASE r \notin Results(t, b)
    BY <1>2, <1>3, <2>1, <2>4 DEF OnWay, Way
  <2> QED BY <2>3, <2>4
<1> QED BY <1>4, <1>5, <1>6, <1>7 DEF ReceiverStep

\* The tasks of the other sessions do not touch the way of this one.
LEMMA OthersKeepWay ==
    ASSUME QueueInv, NEW s \in Session, NEW o \in Session, o # s, NEW t, NEW b,
           WorkerStep(o) \/ ReceiverStep(o), OnWay(s, t, b)
    PROVE  OnWay(s, t, b)'
<1>1. /\ worker \in [Session -> Worker] /\ inbox \in [Session -> Seq(Request)]
      /\ outbox \in [Session -> Seq(Result)] /\ receiver \in [Session -> Receiver]
  BY Channels, QueueTypes DEF QueueInv
<1>2. CASE WorkerStep(o)
  <2>1. UNCHANGED <<listener, receiver>>
    BY <1>2 DEF WorkerStep, Collect, Flush, WorkerEnds, AcquirePermit, CallAnswers, CallRetried,
                CallExhausted, SendResult
  <2>2. inbox'[s] = inbox[s]
    BY <1>1, <1>2 DEF WorkerStep, Collect, Flush, WorkerEnds, AcquirePermit, CallAnswers,
                      CallRetried, CallExhausted, SendResult
  <2>3. outbox'[s] = outbox[s]
    BY <1>1, <1>2 DEF WorkerStep, Collect, Flush, WorkerEnds, AcquirePermit, CallAnswers,
                      CallRetried, CallExhausted, SendResult
  <2>4. worker'[s] = worker[s]
    BY <1>1, <1>2 DEF WorkerStep, Collect, Flush, WorkerEnds, AcquirePermit, CallAnswers,
                      CallRetried, CallExhausted, SendResult, CallEnds
  <2>5. Pending' = Pending
    BY <2>1 DEF Pending
  <2> QED BY <2>1, <2>2, <2>3, <2>4, <2>5, WayUntouched
<1>3. CASE ReceiverStep(o)
  <2>1. UNCHANGED <<listener, inbox, worker>> /\ outbox'[s] = outbox[s] /\ receiver'[s] = receiver[s]
    BY <1>1, <1>3 DEF ReceiverStep, SpawnReceiver, Receive, MergeResult, ReceiverStops
  <2>2. Pending' = Pending
    BY <2>1 DEF Pending
  <2> QED BY <2>1, <2>2, WayUntouched
<1> QED BY <1>2, <1>3

\* No task of the queue takes a balance or an excuse back.
LEMMA QueueKeepsBalances ==
    ASSUME QueueInv, QueueNext, NEW s \in Session, NEW t \in Token
    PROVE  /\ snapshot[s][t] \in Nat /\ snapshot'[s][t] \in Nat /\ snapshot'[s][t] >= snapshot[s][t]
           /\ excused[s][t] \in Nat /\ excused'[s][t] \in Nat /\ excused'[s][t] >= excused[s][t]
<1>1. snapshot[s][t] \in Nat /\ excused[s][t] \in Nat /\ head \in Nat
  BY BlockIsNat, SubscriptionAssumption DEF QueueInv, SubscriptionTypeOK
<1>2. CASE snapshot' = snapshot /\ excused' = excused
  BY <1>1, <1>2
<1>3. CASE \E o \in Session : MergeResult(o)
  <2>1. PICK o \in Session : MergeResult(o)
    BY <1>3
  <2>2. /\ snapshot' = Merged(o, receiver[o].result.answered, receiver[o].result.block)
        /\ excused' = excused
    BY <2>1 DEF MergeResult, history
  <2>3. receiver[o].result.block \in Block
    BY QueueTypes DEF QueueInv, Receiver, Result
  <2> QED BY <1>1, <2>2, <2>3, MergedGives
<1>4. CASE \E o \in Session : CallAnswers(o)
  <2>1. PICK o \in Session : CallAnswers(o)
    BY <1>4
  <2>2. /\ snapshot' = snapshot
        /\ excused' = excused \/ \E lost : Excuse(o, lost)
    BY <2>1 DEF CallAnswers, history
  <2>3. CASE excused' = excused
    BY <1>1, <2>2, <2>3
  <2>4. CASE \E lost : Excuse(o, lost)
    <3>1. PICK lost : Excuse(o, lost)
      BY <2>4
    <3>2. /\ excused' \in [Session -> [Token -> Block]] /\ excused'[s][t] >= excused[s][t]
      BY <3>1, ExcuseKeeps
    <3>3. excused'[s][t] \in Nat
      BY <3>2, BlockIsNat
    <3> QED BY <1>1, <2>2, <3>2, <3>3
  <2> QED BY <2>2, <2>3, <2>4
<1>5. \/ snapshot' = snapshot /\ excused' = excused
      \/ \E o \in Session : MergeResult(o)
      \/ \E o \in Session : CallAnswers(o)
  <2>1. CASE (\E u \in Token : NewBlock(u)) \/ ListenerStep
    BY <2>1 DEF NewBlock, ListenerStep, TakeTransfer, FanoutDone, ListenerStops, AskWatched, Enqueue,
                subscription, history
  <2>2. CASE \E o \in Session : WorkerStep(o) \/ ReceiverStep(o)
    BY <2>2 DEF WorkerStep, Collect, Flush, WorkerEnds, AcquirePermit, CallRetried, CallExhausted,
                SendResult, ReceiverStep, SpawnReceiver, Receive, ReceiverStops, subscription, history
  <2> QED BY <2>1, <2>2, SMTT(60) DEF QueueNext
<1> QED BY <1>2, <1>3, <1>4, <1>5

\* No task of the queue forgets a transfer, for a session that is still served.
LEMMA QueueKeepsReflected ==
    ASSUME QueueInv, NodeKeepsUp, QueueNext, NEW s \in Session, NEW t \in Token, NEW b \in Nat,
           b <= head, ~Cancelled(s), ~Cancelled(s)', Reflected(s, t, b)
    PROVE  Reflected(s, t, b)'
<1>1. /\ snapshot[s][t] \in Nat /\ snapshot'[s][t] \in Nat /\ snapshot'[s][t] >= snapshot[s][t]
      /\ excused[s][t] \in Nat /\ excused'[s][t] \in Nat /\ excused'[s][t] >= excused[s][t]
  BY QueueKeepsBalances
<1>2. CASE b <= snapshot[s][t] \/ b <= excused[s][t]
  <2>1. b <= snapshot'[s][t] \/ b <= excused'[s][t]
    BY <1>1, <1>2
  <2> QED BY <2>1 DEF Reflected
<1>3. CASE OnWay(s, t, b)
  <2>1. CASE \E u \in Token : NewBlock(u)
    <3>1. UNCHANGED <<listener, inbox, worker, outbox, receiver>>
      BY <2>1 DEF NewBlock
    <3>2. Pending' = Pending
      BY <3>1 DEF Pending
    <3> QED BY <1>3, <3>1, <3>2, WayUntouched DEF Reflected
  <2>2. CASE ListenerStep
    BY <1>3, <2>2, ListenerKeepsWay DEF Reflected
  <2>3. CASE WorkerStep(s)
    <3>1. CASE CallAnswers(s) \/ CallExhausted(s)
      BY <1>3, <3>1, CallKeepsWay DEF Reflected
    <3>2. CASE ~(CallAnswers(s) \/ CallExhausted(s))
      <4>1. OnWay(s, t, b)'
        BY <1>3, <2>3, <3>2, WorkerKeepsWay DEF WorkerStep
      <4> QED BY <4>1 DEF Reflected
    <3> QED BY <3>1, <3>2
  <2>4. CASE ReceiverStep(s)
    BY <1>3, <2>4, ReceiverKeepsWay DEF Reflected
  <2>5. CASE \E o \in Session : o # s /\ (WorkerStep(o) \/ ReceiverStep(o))
    BY <1>3, <2>5, OthersKeepWay DEF Reflected
  <2> QED BY <2>1, <2>2, <2>3, <2>4, <2>5 DEF QueueNext
<1> QED BY <1>2, <1>3 DEF Reflected

\* Nor does the life of the session, for a token it keeps watching.
LEMMA LifecycleKeepsReflected ==
    ASSUME QueueInv, LifecycleNext, UNCHANGED queues, NEW s \in Session, NEW t \in watched[s],
           NEW b \in Nat, Reflected(s, t, b)
    PROVE  Reflected(s, t, b)'
<1>1. t \in Token /\ excused[s][t] \in Nat /\ snapshot[s][t] \in Nat
  BY BlockIsNat DEF QueueInv, SubscriptionTypeOK
<1>2. snapshot'[s][t] = snapshot[s][t]
  <2>1. CASE \E o \in Session : EvictAndNotify(o)
    <3>1. PICK o \in Session : EvictAndNotify(o)
      BY <2>1
    <3>2. snapshot' = [snapshot EXCEPT ![o] =
                         [u \in Token |-> IF u \in watched[o] THEN snapshot[o][u] ELSE 0]]
      BY <3>1 DEF EvictAndNotify
    <3> QED BY <1>1, <3>2 DEF QueueInv, SubscriptionTypeOK
  <2>2. CASE snapshot' = snapshot
    BY <2>2
  <2> QED BY <2>1, <2>2 DEF LifecycleNext, CreateSession, SetWatchedTokens, PutDropped, ExpireSession,
                            ShutdownSignal, CloseSseConnections
<1>3. excused'[s][t] \in Nat /\ excused'[s][t] >= excused[s][t]
  <2>1. CASE \E o \in Session : PutDropped(o)
    <3>1. PICK o \in Session : PutDropped(o)
      BY <2>1
    <3>2. Excuse(o, put[o].added)
      BY <3>1 DEF PutDropped
    <3>3. excused' \in [Session -> [Token -> Block]] /\ excused'[s][t] >= excused[s][t]
      BY <1>1, <3>2, ExcuseKeeps
    <3> QED BY <1>1, <3>3, BlockIsNat
  <2>2. CASE excused' = excused
    BY <1>1, <2>2
  <2> QED BY <2>1, <2>2 DEF LifecycleNext, CreateSession, SetWatchedTokens, EvictAndNotify,
                            ExpireSession, ShutdownSignal, CloseSseConnections, history
<1>4. OnWay(s, t, b) => OnWay(s, t, b)'
  <2>1. UNCHANGED <<listener, inbox, worker, outbox, receiver>>
    BY DEF queues
  <2>2. Pending' = Pending
    BY <2>1 DEF Pending
  <2> QED BY <2>1, <2>2, WayUntouched
<1>5. CASE b <= snapshot[s][t] \/ b <= excused[s][t]
  <2>1. b <= snapshot'[s][t] \/ b <= excused'[s][t]
    BY <1>1, <1>2, <1>3, <1>5
  <2> QED BY <2>1 DEF Reflected
<1> QED BY <1>4, <1>5 DEF Reflected

\* Who is served now and existed before, was served before.
LEMMA LiveBefore ==
    ASSUME QueueInv, QueueStep, NEW s \in Session, Live(s)', entry[s] # "none"
    PROVE  Live(s)
<1>1. /\ entry \in [Session -> {"none", "registered", "removed"}]
      /\ cancelled \in [Session -> BOOLEAN] /\ entry'[s] = "registered" /\ ~Cancelled(s)'
  BY DEF QueueInv, SubscriptionTypeOK, Live, Registered
<1>2. (Cancelled(s) => Cancelled(s)') /\ (entry[s] = "removed" => entry'[s] # "registered")
  <2>1. CASE QueueNext
    <3>1. CASE \E o \in Session : Receive(o)
      <4>1. PICK o \in Session : Receive(o)
        BY <3>1
      <4>2. /\ cancelled' = cancelled \/ cancelled' = [cancelled EXCEPT ![o] = TRUE]
            /\ entry' = entry /\ shutdown' = shutdown
        BY <4>1 DEF Receive
      <4> QED BY <1>1, <4>2 DEF Cancelled
    <3>2. CASE UNCHANGED lifecycle
      BY <3>2 DEF lifecycle, Cancelled
    <3>3. (\E o \in Session : Receive(o)) \/ UNCHANGED lifecycle
      <4>1. CASE (\E u \in Token : NewBlock(u)) \/ ListenerStep
        BY <4>1 DEF NewBlock, ListenerStep, TakeTransfer, FanoutDone, ListenerStops, AskWatched,
                    Enqueue, subscription
      <4>2. CASE \E o \in Session : WorkerStep(o) \/ ReceiverStep(o)
        BY <4>2 DEF WorkerStep, Collect, Flush, WorkerEnds, AcquirePermit, CallAnswers, CallRetried,
                    CallExhausted, SendResult, ReceiverStep, SpawnReceiver, MergeResult, ReceiverStops,
                    subscription
      <4> QED BY <2>1, <4>1, <4>2, SMTT(60) DEF QueueNext
    <3> QED BY <3>1, <3>2, <3>3
  <2>2. CASE LifecycleNext
    <3>1. Cancelled(s) => Cancelled(s)'
      BY <1>1, <2>2 DEF LifecycleNext, CreateSession, SetWatchedTokens, EvictAndNotify, PutDropped,
                 ExpireSession, ShutdownSignal, CloseSseConnections, lifecycle, Cancelled
    <3>2. entry[s] = "removed" => entry'[s] # "registered"
      BY <1>1, <2>2 DEF LifecycleNext, CreateSession, SetWatchedTokens, EvictAndNotify, PutDropped,
                 ExpireSession, ShutdownSignal, CloseSseConnections, lifecycle, Registered
    <3> QED BY <3>1, <3>2
  <2> QED BY <2>1, <2>2 DEF QueueStep
<1> QED BY <1>1, <1>2 DEF Live, Registered

\* What is due changes when the listener asks, and when a PUT drops the token.
LEMMA DueBefore ==
    ASSUME QueueInv, QueueStep, NEW s \in Session, NEW t \in Token
    PROVE  \/ due'[s][t] \in {0, due[s][t]}
           \/ QueueNext /\ s \in Pending' /\ listener'.event \in Requests(t, due'[s][t])
<1>1. CASE due' = due
  BY <1>1
<1>2. CASE \E o \in Session, list \in WatchList : SetWatchedTokens(o, list)
  BY <1>2, SetWatchedTokensGives
<1>3. CASE \E o \in Session : AskWatched(o)
  <2>1. PICK o \in Session : AskWatched(o)
    BY <1>3
  <2> PICK e : e = listener.event
    OBVIOUS
  <2>2. /\ o \in listener.todo /\ listener'.event = e /\ listener'.sent = listener.sent
        /\ listener'.queues = IF e.token \in watched[o]
                              THEN listener.queues \cup {o} ELSE listener.queues
    BY <2>1, AskWatchedGives
  <2>3. /\ due'[s][t] \in Nat
        /\ IF s = o /\ t = e.token /\ t \in watched[o]
           THEN due'[s][t] \in {due[s][t], e.block} ELSE due'[s][t] = due[s][t]
    BY <2>1, AskWatchedGives, ZenonT(60)
  <2>4. CASE due'[s][t] # due[s][t]
    <3>1. s = o /\ t = e.token /\ t \in watched[o] /\ due'[s][t] = e.block
      BY <2>3, <2>4
    <3>2. s \in listener'.queues /\ s \notin listener'.sent
      BY <2>2, <3>1 DEF QueueInv, ListenerInv
    <3>3. e \in Request
      BY QueueTypes DEF QueueInv, Listener
    <3>4. e \in Requests(t, due'[s][t])
      <4>1. e.block >= due'[s][t]
        BY <2>3, <3>1
      <4> QED BY <3>1, <3>3, <4>1 DEF Requests, Serves
    <3>5. QueueNext
      BY <1>3 DEF QueueNext, ListenerStep
    <3> QED BY <2>2, <3>2, <3>4, <3>5 DEF Pending
  <2> QED BY <2>4
<1>4. \/ due' = due
      \/ \E o \in Session : AskWatched(o)
      \/ \E o \in Session, list \in WatchList : SetWatchedTokens(o, list)
  <2>1. CASE (\E u \in Token : NewBlock(u)) \/ ListenerStep
    BY <2>1 DEF NewBlock, ListenerStep, TakeTransfer, FanoutDone, ListenerStops, Enqueue,
                subscription, history
  <2>2. CASE \E o \in Session : WorkerStep(o) \/ ReceiverStep(o)
    BY <2>2, ZenonT(60) DEF WorkerStep, Collect, Flush, WorkerEnds, AcquirePermit, CallAnswers,
           CallRetried, CallExhausted, SendResult, ReceiverStep, SpawnReceiver, Receive,
           MergeResult, ReceiverStops, subscription, history
  <2>3. CASE LifecycleNext
    BY <2>3 DEF LifecycleNext, CreateSession, EvictAndNotify, PutDropped, ExpireSession,
                ShutdownSignal, CloseSseConnections, history
  <2> QED BY <2>1, <2>2, <2>3 DEF QueueStep, QueueNext
<1> QED BY <1>1, <1>2, <1>3, <1>4

\* One step keeps every transfer reflected.
LEMMA AllReflectedStep ==
    ASSUME QueueInv, QueueInv', NodeKeepsUp, AllReflected, QueueStep
    PROVE  AllReflected'
<1> SUFFICES ASSUME NEW s \in Session, Live(s)', NEW t \in watched'[s], NEW d, d = due'[s][t]
             PROVE  Reflected(s, t, d)'
  BY Zenon DEF AllReflected, Reflected, OnWay, Pending
<1>1. /\ t \in Token /\ due[s][t] \in Nat /\ due[s][t] <= head
  BY BlockIsNat DEF QueueInv, SubscriptionTypeOK, DueInv
<1>2. d \in Nat /\ snapshot'[s][t] \in Nat
  BY <1>1, BlockIsNat DEF QueueInv, SubscriptionTypeOK
<1>3. CASE d = 0
  <2>1. d <= snapshot'[s][t]
    BY <1>2, <1>3
  <2> QED BY <2>1 DEF Reflected
<1>4. CASE d # 0 /\ d = due[s][t]
  <2>1. t \in watched[s] /\ entry[s] # "none"
    BY <1>1, <1>4 DEF QueueInv, DueInv
  <2>2. Live(s)
    BY <2>1, LiveBefore
  <2>3. Reflected(s, t, d)
    BY <1>4, <2>1, <2>2 DEF AllReflected
  <2>4. ~Cancelled(s) /\ ~Cancelled(s)'
    BY <2>2 DEF Live
  <2>5. CASE QueueNext
    BY <1>1, <1>2, <1>4, <2>3, <2>4, <2>5, QueueKeepsReflected
  <2>6. CASE LifecycleNext /\ UNCHANGED queues
    BY <1>2, <2>1, <2>3, <2>6, LifecycleKeepsReflected
  <2> QED BY <2>5, <2>6 DEF QueueStep
<1>5. CASE s \in Pending' /\ listener'.event \in Requests(t, d)
  <2>1. OnWay(s, t, d)'
    BY <1>5 DEF OnWay, Way
  <2> QED BY <2>1 DEF Reflected
<1>6. d \in {0, due[s][t]} \/ (s \in Pending' /\ listener'.event \in Requests(t, d))
  BY <1>1, DueBefore
<1> QED BY <1>3, <1>4, <1>5, <1>6

\* No transfer is lost between the listener and the snapshot of a session that is served:
\* through full channels, coalesced batches, retries, partial answers, PUTs, expiries and
\* shutdown, the balance is read at the transfer's block or later unless the read failed.
\* The hypothesis is needed: a batch with an unpinned request is read at latest, which a
\* lagging node answers from before the transfer.
THEOREM TransfersReachTheSnapshot ==
    ASSUME NodeKeepsUp
    PROVE  QueueSpec => []TransferReflected
<1>1. QueueInit => AllReflected
  <2> SUFFICES ASSUME QueueInit, NEW s \in Session, NEW t \in watched[s]
               PROVE  Reflected(s, t, due[s][t])
    BY DEF AllReflected
  <2> QED BY DEF QueueInit, SubscriptionInit
<1>2. /\ QueueInv /\ QueueInv' /\ AllReflected
      /\ [QueueNext \/ (LifecycleNext /\ UNCHANGED queues)]_queueVars
      => AllReflected'
  <2>1. ASSUME QueueInv, AllReflected, UNCHANGED queueVars PROVE AllReflected'
    BY <2>1 DEF AllReflected, Reflected, OnWay, Pending, Live, Registered, Cancelled, queueVars,
                subscription, queues, lifecycle, tokens, history
  <2> QED BY <2>1, AllReflectedStep DEF QueueStep
<1>3. QueueInv /\ AllReflected => TransferReflected
  BY ReflectedIs
<1> QED BY <1>1, <1>2, <1>3, QueueInvariant, PTL DEF QueueSpec
=============================================================================
