-------------------------- MODULE BalanceFeedProofs --------------------------
(***************************************************************************)
(* Theorems about the balance feed of a session, for any tokens, amounts,  *)
(* clients, chunk size, ring capacity, node lag and number of faults.      *)
(***************************************************************************)
EXTENDS BalanceFeed, TLAPS

-----------------------------------------------------------------------------
(* Partial maps and the operators of BalanceSnapshot.                      *)

\* A partial map is a function from a subset.
LEMMA PartialMapIntro ==
    ASSUME NEW S, NEW T, NEW D \in SUBSET S, NEW f \in [D -> T]
    PROVE  f \in PartialMap(S, T)
BY DEF PartialMap

\* And nothing else is.
LEMMA PartialMapElim ==
    ASSUME NEW S, NEW T, NEW f \in PartialMap(S, T)
    PROVE  DOMAIN f \subseteq S /\ f \in [DOMAIN f -> T]
<1>1. PICK D \in SUBSET S : f \in [D -> T]
  BY DEF PartialMap
<1> QED BY <1>1

\* The empty map is one.
LEMMA EmptyMap ==
    ASSUME NEW S, NEW T
    PROVE  DOMAIN Empty = {} /\ Empty \in PartialMap(S, T)
<1>1. DOMAIN Empty = {} /\ Empty \in [{} -> T]
  BY DEF Empty
<1> QED BY <1>1, PartialMapIntro

Cached == [amount : Amount, block_number : 1 .. MaxBlock]
Snapshot == PartialMap(Token, Cached)

\* What `retain` leaves.
LEMMA RetainLeaves ==
    ASSUME NEW s \in Snapshot, NEW tokens
    PROVE  /\ Retain(s, tokens) \in Snapshot
           /\ DOMAIN Retain(s, tokens) \subseteq DOMAIN s
           /\ \A t \in DOMAIN Retain(s, tokens) : Retain(s, tokens)[t] = s[t]
<1>1. DOMAIN s \subseteq Token /\ s \in [DOMAIN s -> Cached]
  BY PartialMapElim DEF Snapshot
<1>2. Retain(s, tokens) \in [DOMAIN s \cap tokens -> Cached]
  BY <1>1 DEF Retain
<1>3. Retain(s, tokens) \in Snapshot
  BY <1>1, <1>2, PartialMapIntro DEF Snapshot
<1> QED BY <1>3 DEF Retain

\* What the block-guarded merge does to each token.
LEMMA MergeWrites ==
    ASSUME NEW s \in Snapshot, NEW b \in Balances, NEW n \in 1 .. MaxBlock
    PROVE  /\ Merge(s, b, n) \in Snapshot
           /\ DOMAIN Merge(s, b, n) = DOMAIN s \cup DOMAIN b
           /\ \A t \in DOMAIN s \cup DOMAIN b :
                 Merge(s, b, n)[t] = IF t \in DOMAIN b /\ Applies(s, t, n)
                                     THEN [amount |-> b[t], block_number |-> n]
                                     ELSE s[t]
<1>1. /\ DOMAIN s \subseteq Token /\ s \in [DOMAIN s -> Cached]
      /\ DOMAIN b \subseteq Token /\ b \in [DOMAIN b -> Amount]
  BY PartialMapElim DEF Snapshot, Balances
<1>2. ASSUME NEW t \in DOMAIN s \cup DOMAIN b
      PROVE  Merge(s, b, n)[t] \in Cached
  <2>1. CASE t \in DOMAIN b /\ Applies(s, t, n)
    BY <1>1, <2>1 DEF Merge, Cached
  <2>2. CASE ~(t \in DOMAIN b /\ Applies(s, t, n))
    <3>1. t \in DOMAIN s
      BY <2>2 DEF Applies
    <3> QED BY <1>1, <2>2, <3>1 DEF Merge
  <2> QED BY <2>1, <2>2
<1>3. Merge(s, b, n) \in [DOMAIN s \cup DOMAIN b -> Cached]
  BY <1>2 DEF Merge
<1>4. Merge(s, b, n) \in Snapshot
  BY <1>1, <1>3, PartialMapIntro DEF Snapshot
<1> QED BY <1>4 DEF Merge

\* What the diff says.
LEMMA DiffSays ==
    ASSUME NEW s \in Snapshot, NEW b \in Balances, NEW n \in 1 .. MaxBlock
    PROVE  /\ Diff(s, b, n) \in Balances
           /\ \A t : t \in DOMAIN Diff(s, b, n) <=>
                 /\ t \in DOMAIN b /\ Applies(s, t, n)
                 /\ t \in DOMAIN s => s[t].amount # b[t]
           /\ \A t \in DOMAIN Diff(s, b, n) : Diff(s, b, n)[t] = b[t]
<1>1. DOMAIN b \subseteq Token /\ b \in [DOMAIN b -> Amount]
  BY PartialMapElim DEF Balances
<1> DEFINE D == {u \in DOMAIN b : /\ Applies(s, u, n)
                                  /\ u \in DOMAIN s => s[u].amount # b[u]}
<1>2. Diff(s, b, n) = [t \in D |-> b[t]]
  BY DEF Diff
<1>3. Diff(s, b, n) \in [D -> Amount] /\ D \subseteq Token
  BY <1>1, <1>2
<1>4. Diff(s, b, n) \in Balances
  <2> HIDE DEF D
  <2> QED BY <1>3, PartialMapIntro DEF Balances
<1> QED BY <1>2, <1>4

\* A merge and its diff together: every token whose cached amount the merge changes
\* or adds is in the diff with the new amount, and nothing else is.
LEMMA DiffIsTheChange ==
    ASSUME NEW s \in Snapshot, NEW b \in Balances, NEW n \in 1 .. MaxBlock,
           NEW t \in DOMAIN Merge(s, b, n)
    PROVE  IF t \in DOMAIN Diff(s, b, n)
           THEN Diff(s, b, n)[t] = Merge(s, b, n)[t].amount
           ELSE t \in DOMAIN s /\ Merge(s, b, n)[t].amount = s[t].amount
<1>1. t \in DOMAIN s \cup DOMAIN b
  BY MergeWrites
<1>2. CASE t \in DOMAIN b /\ Applies(s, t, n)
  <2>1. Merge(s, b, n)[t] = [amount |-> b[t], block_number |-> n]
    BY <1>1, <1>2, MergeWrites
  <2> QED BY <1>2, <2>1, DiffSays
<1>3. CASE ~(t \in DOMAIN b /\ Applies(s, t, n))
  <2>1. Merge(s, b, n)[t] = s[t] /\ t \in DOMAIN s
    BY <1>1, <1>3, MergeWrites DEF Applies
  <2> QED BY <1>3, <2>1, DiffSays
<1> QED BY <1>2, <1>3

\* What a new client is seeded with.
LEMMA AmountsType ==
    ASSUME NEW s \in Snapshot
    PROVE  /\ Amounts(s) \in Balances /\ DOMAIN Amounts(s) = DOMAIN s
           /\ \A t \in DOMAIN s : Amounts(s)[t] = s[t].amount
<1>1. DOMAIN s \subseteq Token /\ s \in [DOMAIN s -> Cached]
  BY PartialMapElim DEF Snapshot
<1>2. Amounts(s) \in [DOMAIN s -> Amount]
  BY <1>1 DEF Amounts, Cached
<1> QED BY <1>1, <1>2, PartialMapIntro DEF Balances, Amounts

\* An update wins over what the client had.
LEMMA OverlayType ==
    ASSUME NEW v \in Balances, NEW u \in Balances
    PROVE  /\ Overlay(v, u) \in Balances
           /\ DOMAIN Overlay(v, u) = DOMAIN v \cup DOMAIN u
           /\ \A t \in DOMAIN v \cup DOMAIN u :
                 Overlay(v, u)[t] = IF t \in DOMAIN u THEN u[t] ELSE v[t]
<1>1. /\ DOMAIN v \subseteq Token /\ v \in [DOMAIN v -> Amount]
      /\ DOMAIN u \subseteq Token /\ u \in [DOMAIN u -> Amount]
  BY PartialMapElim DEF Balances
<1>2. Overlay(v, u) \in [DOMAIN v \cup DOMAIN u -> Amount]
  BY <1>1 DEF Overlay
<1>3. Overlay(v, u) \in Balances
  BY <1>1, <1>2, PartialMapIntro DEF Balances
<1> QED BY <1>3 DEF Overlay

-----------------------------------------------------------------------------
(* Type correctness.                                                       *)

Task == [pc : {"idle", "fetch", "merge", "send", "stopped"}, todo : SUBSET Token,
         answer : Balances, block : 0 .. MaxBlock, diff : Balances]
Connection == [pc : {"off", "subscribed", "streaming", "closed"},
               rx : Seq(Event), lagged : BOOLEAN]

\* The producers' part of the type invariant, and the clients'.
TaskType == task \in [Producer -> Task]
ClientType ==
    /\ client \in [Client -> Connection]
    /\ \A c \in Client : Len(client[c].rx) <= Capacity
    /\ view \in [Client -> Balances]
    /\ told \in [Client -> SUBSET (Token \X Amount)]
FeedType ==
    /\ chain \in Seq([Token -> Amount]) /\ head \in 1 .. MaxBlock
    /\ watched \in WatchList
    /\ snapshot \in Snapshot
    /\ put \in {"idle", "evicting"}
    /\ cancelled \in BOOLEAN
    /\ faults \in 0 .. MaxFaults

\* The three parts are the type invariant.
LEMMA TypeParts == TypeOK <=> TaskType /\ ClientType /\ FeedType
BY DEF TypeOK, TaskType, ClientType, FeedType, Task, Connection, Snapshot, Cached

\* A task between two rounds of reading.
LEMMA IdleTaskType == IdleTask \in Task /\ IdleTask.pc = "idle"
<1>1. Empty \in Balances /\ 0 \in 0 .. MaxBlock
  BY EmptyMap, FeedAssumption DEF Balances
<1> HIDE DEF Empty
<1> QED BY <1>1 DEF IdleTask, Task

\* A task that has ended.
LEMMA StoppedTask ==
    /\ [IdleTask EXCEPT !.pc = "stopped"] \in Task
    /\ [IdleTask EXCEPT !.pc = "stopped"].pc = "stopped"
BY IdleTaskType DEF Task

\* A task that holds no answer: it begins to read or is between two chunks.
LEMMA RestingTask ==
    ASSUME NEW pc \in {"idle", "fetch"}, NEW todo \in SUBSET Token
    PROVE  LET rest == [IdleTask EXCEPT !.pc = pc, !.todo = todo]
           IN  rest \in Task /\ rest.pc = pc /\ rest.todo = todo
BY IdleTaskType DEF Task

\* Events carry balances.
LEMMA EventType ==
    /\ Error \in Event
    /\ \A b \in Balances : Update(b) \in Event /\ Update(b).balances = b
BY EmptyMap DEF Error, Update, Event, Balances

\* A connection with an empty receiver.
LEMMA OfflineType ==
    /\ Offline \in Connection /\ Offline.pc = "off" /\ Offline.rx = <<>>
    /\ \A pc \in {"subscribed", "closed"} :
          /\ [Offline EXCEPT !.pc = pc] \in Connection
          /\ [Offline EXCEPT !.pc = pc].pc = pc
          /\ [Offline EXCEPT !.pc = pc].rx = <<>>
<1>1. <<>> \in Seq(Event) /\ FALSE \in BOOLEAN
  OBVIOUS
<1>2. Offline \in Connection /\ Offline.pc = "off" /\ Offline.rx = <<>>
  BY <1>1 DEF Offline, Connection
<1> QED BY <1>2 DEF Connection

\* `sender.send`: whoever is not lagged afterwards has the event at the end of the
\* receiver, behind all that was there.
LEMMA BroadcastAppends ==
    ASSUME ClientType, NEW e \in Event, Broadcast(e)
    PROVE  /\ client' \in [Client -> Connection]
           /\ \A c \in Client :
                 /\ Len(client'[c].rx) <= Capacity
                 /\ client'[c].pc = client[c].pc
                 /\ ~Receiving(c) => client'[c] = client[c]
                 /\ Receiving(c) /\ ~client'[c].lagged =>
                       ~client[c].lagged /\ client'[c].rx = Append(client[c].rx, e)
<1> SUFFICES ASSUME NEW c \in Client
             PROVE  /\ client'[c] \in Connection
                    /\ Len(client'[c].rx) <= Capacity
                    /\ client'[c].pc = client[c].pc
                    /\ ~Receiving(c) => client'[c] = client[c]
                    /\ Receiving(c) /\ ~client'[c].lagged =>
                          ~client[c].lagged /\ client'[c].rx = Append(client[c].rx, e)
  BY ZenonT(60) DEF Broadcast
<1>1. client[c] \in Connection /\ Len(client[c].rx) <= Capacity /\ client[c].rx \in Seq(Event)
  BY DEF ClientType, Connection
<1>2. CASE ~Receiving(c)
  BY <1>1, <1>2 DEF Broadcast
<1>3. CASE Receiving(c) /\ Len(client[c].rx) < Capacity
  <2> DEFINE rx == Append(client[c].rx, e)
  <2>1. client'[c] = [client[c] EXCEPT !.rx = rx]
    BY <1>3 DEF Broadcast
  <2>2. rx \in Seq(Event) /\ Len(rx) <= Capacity
    BY <1>1, <1>3, FeedAssumption
  <2> HIDE DEF rx
  <2>3. /\ client'[c] \in Connection
        /\ client'[c].rx = rx /\ client'[c].pc = client[c].pc
        /\ client'[c].lagged = client[c].lagged
    BY <1>1, <2>1, <2>2 DEF Connection
  <2> QED BY <1>3, <2>2, <2>3 DEF rx
<1>4. CASE Receiving(c) /\ ~(Len(client[c].rx) < Capacity)
  <2> DEFINE rx == Append(Tail(client[c].rx), e)
  <2>1. client'[c] = [client[c] EXCEPT !.rx = rx, !.lagged = TRUE]
    BY <1>4 DEF Broadcast
  <2>2. rx \in Seq(Event) /\ Len(rx) <= Capacity
    BY <1>1, <1>4, FeedAssumption
  <2> HIDE DEF rx
  <2>3. /\ client'[c] \in Connection
        /\ client'[c].rx = rx /\ client'[c].pc = client[c].pc
        /\ client'[c].lagged
    BY <1>1, <2>1, <2>2 DEF Connection
  <2> QED BY <1>4, <2>2, <2>3
<1> QED BY <1>2, <1>3, <1>4

\* A producer's new record is all a producer's step writes to `task`.
LEMMA TaskUpdate ==
    ASSUME TaskType, NEW p \in Producer, NEW r \in Task, task' = [task EXCEPT ![p] = r]
    PROVE  TaskType' /\ task'[p] = r /\ \A q \in Producer \ {p} : task'[q] = task[q]
BY DEF TaskType

\* The two steps of a task after a chunk.
LEMMA AfterChunkTask ==
    ASSUME NEW todo \in SUBSET Token
    PROVE  LET rest == [IdleTask EXCEPT !.pc = AfterChunk(todo), !.todo = todo]
           IN  rest \in Task /\ rest.pc \in {"idle", "fetch"}
<1>1. AfterChunk(todo) \in {"idle", "fetch"}
  BY DEF AfterChunk
<1> QED BY <1>1, RestingTask, ZenonT(60)

\* A chunk is part of what is left to read.
LEMMA ChunkOfTodo ==
    ASSUME NEW p \in Producer, NEW chunk \in Chunks(p)
    PROVE  chunk \subseteq task[p].todo
BY DEF Chunks

\* What a fetch leaves in the task: the balances of one block of the chain.
LEMMA FetchAnswers ==
    ASSUME TypeOK, NEW p \in Producer, Fetch(p)
    PROVE  /\ TaskType'
           /\ \A q \in Producer \ {p} : task'[q] = task[q]
           /\ task'[p].pc = "merge" /\ task'[p].block \in 1 .. head
           /\ \A t \in DOMAIN task'[p].answer :
                 task'[p].answer[t] = chain[task'[p].block][t]
<1>1. TaskType /\ FeedType /\ task[p] \in Task
  BY TypeParts DEF TaskType
<1>2. PICK chunk \in Chunks(p), block \in {b \in 1 .. head : b + MaxLag >= head} :
        \E answered \in SUBSET chunk :
           /\ IF answered = chunk THEN UNCHANGED faults ELSE Fault
           /\ task' = [task EXCEPT ![p] =
                         [task[p] EXCEPT !.pc = "merge", !.todo = @ \ chunk, !.block = block,
                                   !.answer = [t \in answered |-> chain[block][t]]]]
  BY Zenon DEF Fetch
<1>3. PICK answered \in SUBSET chunk :
        task' = [task EXCEPT ![p] =
                   [task[p] EXCEPT !.pc = "merge", !.todo = @ \ chunk, !.block = block,
                             !.answer = [t \in answered |-> chain[block][t]]]]
  BY <1>2
<1> DEFINE answer == [t \in answered |-> chain[block][t]]
           left == task[p].todo \ chunk
<1>4. block \in 1 .. head /\ block \in 0 .. MaxBlock /\ chain[block] \in [Token -> Amount]
  <2>1. block \in 1 .. head
    OBVIOUS
  <2>2. chain \in Seq([Token -> Amount]) /\ Len(chain) \in 1 .. MaxBlock
    BY <1>1 DEF FeedType, head
  <2> QED BY <2>1, <2>2, FeedAssumption DEF head
<1>5. left \in SUBSET Token /\ answered \in SUBSET Token
  BY <1>1, ChunkOfTodo DEF Task
<1>6. answer \in [answered -> Amount]
  BY <1>4, <1>5
<1>7. /\ answer \in Balances /\ DOMAIN answer = answered
      /\ \A t \in DOMAIN answer : answer[t] = chain[block][t]
  BY <1>5, <1>6, PartialMapIntro DEF Balances
<1> DEFINE r == [task[p] EXCEPT !.pc = "merge", !.todo = left, !.block = block,
                                !.answer = answer]
<1>8. task' = [task EXCEPT ![p] = r]
  BY <1>1, <1>3 DEF TaskType
<1> HIDE DEF answer, left
<1>9. r \in Task /\ r.pc = "merge" /\ r.block = block /\ r.answer = answer
  BY <1>1, <1>4, <1>5, <1>7 DEF Task
<1> HIDE DEF r
<1>10. TaskType' /\ task'[p] = r /\ \A q \in Producer \ {p} : task'[q] = task[q]
  BY <1>1, <1>8, <1>9, TaskUpdate
<1> QED BY <1>4, <1>7, <1>9, <1>10

\* What a merge leaves: the merged snapshot, and the diff to send if there is one.
LEMMA MergeLeaves ==
    ASSUME TypeOK, NEW p \in Producer, MergeAnswer(p), task[p].block \in 1 .. MaxBlock
    PROVE  LET diff == Diff(snapshot, task[p].answer, task[p].block)
           IN  /\ snapshot' = Merge(snapshot, task[p].answer, task[p].block)
               /\ snapshot' \in Snapshot
               /\ TaskType'
               /\ \A q \in Producer \ {p} : task'[q] = task[q]
               /\ task'[p].pc \in {"idle", "fetch", "send"}
               /\ DOMAIN diff # {} => task'[p].pc = "send" /\ task'[p].diff = diff
               /\ DOMAIN diff = {} => task'[p].pc # "send"
<1> DEFINE diff == Diff(snapshot, task[p].answer, task[p].block)
<1>1. TaskType /\ FeedType /\ task[p] \in Task
  BY TypeParts DEF TaskType
<1>2. snapshot \in Snapshot /\ task[p].answer \in Balances /\ task[p].todo \in SUBSET Token
  BY <1>1 DEF FeedType, Task
<1>3. diff \in Balances /\ Merge(snapshot, task[p].answer, task[p].block) \in Snapshot
  <2>1. diff \in Balances
    BY <1>2, DiffSays
  <2>2. Merge(snapshot, task[p].answer, task[p].block) \in Snapshot
    BY <1>2, MergeWrites
  <2> QED BY <2>1, <2>2
<1>4. snapshot' = Merge(snapshot, task[p].answer, task[p].block)
  BY DEF MergeAnswer
<1>5. CASE DOMAIN diff = {}
  <2> DEFINE r == [IdleTask EXCEPT !.pc = AfterChunk(task[p].todo), !.todo = task[p].todo]
  <2>1. task' = [task EXCEPT ![p] = r]
    BY <1>5 DEF MergeAnswer
  <2>2. r \in Task /\ r.pc \in {"idle", "fetch"}
    BY <1>2, AfterChunkTask
  <2> HIDE DEF r, diff
  <2>3. TaskType' /\ task'[p] = r /\ \A q \in Producer \ {p} : task'[q] = task[q]
    BY <1>1, <2>1, <2>2, TaskUpdate
  <2> QED BY <1>3, <1>4, <1>5, <2>2, <2>3 DEF diff
<1>6. CASE DOMAIN diff # {}
  <2> DEFINE r == [task[p] EXCEPT !.pc = "send", !.answer = Empty, !.block = 0, !.diff = diff]
  <2>1. task' = [task EXCEPT ![p] = r]
    BY <1>1, <1>6 DEF MergeAnswer, TaskType
  <2>2. Empty \in Balances /\ 0 \in 0 .. MaxBlock
    BY EmptyMap, FeedAssumption DEF Balances
  <2> HIDE DEF diff, Empty
  <2>3. r \in Task /\ r.pc = "send" /\ r.diff = diff
    BY <1>1, <1>3, <2>2 DEF Task
  <2> HIDE DEF r
  <2>4. TaskType' /\ task'[p] = r /\ \A q \in Producer \ {p} : task'[q] = task[q]
    BY <1>1, <2>1, <2>3, TaskUpdate
  <2> QED BY <1>3, <1>4, <1>6, <2>3, <2>4 DEF diff
<1> QED BY <1>5, <1>6

\* What telling a client changes.
LEMMA TellAllTells ==
    ASSUME ClientType, NEW c \in Client, NEW b \in Balances, TellAll(c, b)
    PROVE  /\ view' \in [Client -> Balances]
           /\ told' \in [Client -> SUBSET (Token \X Amount)]
           /\ view'[c] = Overlay(view[c], b)
           /\ told'[c] = told[c] \cup {<<t, b[t]>> : t \in DOMAIN b}
           /\ \A d \in Client \ {c} : view'[d] = view[d] /\ told'[d] = told[d]
<1>1. view[c] \in Balances /\ Overlay(view[c], b) \in Balances
  BY OverlayType DEF ClientType
<1>2. DOMAIN b \subseteq Token /\ b \in [DOMAIN b -> Amount]
  BY PartialMapElim DEF Balances
<1>3. {<<t, b[t]>> : t \in DOMAIN b} \subseteq Token \X Amount
  BY <1>2
<1>4. told[c] \cup {<<t, b[t]>> : t \in DOMAIN b} \in SUBSET (Token \X Amount)
  BY <1>3 DEF ClientType
<1> QED BY <1>1, <1>4 DEF ClientType, TellAll

\* An answer waiting to be merged is the chain's at the block it is labelled with.
AnswersTrue ==
    \A p \in Producer : task[p].pc = "merge" =>
        /\ task[p].block \in 1 .. head
        /\ \A t \in DOMAIN task[p].answer : task[p].answer[t] = chain[task[p].block][t]

\* No cached balance is labelled with a block of the future.
LabelsKnown == \A t \in DOMAIN snapshot : snapshot[t].block_number \in 1 .. head

FeedInv == TypeOK /\ AnswersTrue /\ LabelsKnown /\ SnapshotTrue

\* A chunk of the updater that fails, a diff that is sent, a producer that stops:
\* the producer's record afterwards.
LEMMA ProducerRests ==
    ASSUME TypeOK, NEW p \in Producer,
           \/ \E todo \in SUBSET Token :
                 task' = [task EXCEPT ![p] = [IdleTask EXCEPT !.pc = AfterChunk(todo),
                                                              !.todo = todo]]
           \/ task' = [task EXCEPT ![p] = [IdleTask EXCEPT !.pc = "stopped"]]
    PROVE  /\ TaskType' /\ task'[p].pc \in {"idle", "fetch", "stopped"}
           /\ \A q \in Producer \ {p} : task'[q] = task[q]
<1>1. TaskType
  BY TypeParts
<1>2. ASSUME NEW r \in Task, task' = [task EXCEPT ![p] = r], r.pc \in {"idle", "fetch", "stopped"}
      PROVE  /\ TaskType' /\ task'[p].pc \in {"idle", "fetch", "stopped"}
             /\ \A q \in Producer \ {p} : task'[q] = task[q]
  BY <1>1, <1>2, TaskUpdate
<1>3. CASE task' = [task EXCEPT ![p] = [IdleTask EXCEPT !.pc = "stopped"]]
  BY <1>2, <1>3, StoppedTask
<1>4. ASSUME NEW todo \in SUBSET Token,
             task' = [task EXCEPT ![p] = [IdleTask EXCEPT !.pc = AfterChunk(todo),
                                                          !.todo = todo]]
      PROVE  /\ TaskType' /\ task'[p].pc \in {"idle", "fetch", "stopped"}
             /\ \A q \in Producer \ {p} : task'[q] = task[q]
  BY <1>2, <1>4, AfterChunkTask
<1> QED BY <1>3, <1>4

\* A read begins.
LEMMA StartReadTask ==
    ASSUME TypeOK, NEW p \in Producer, StartRead(p)
    PROVE  /\ TaskType' /\ task'[p].pc = "fetch"
           /\ \A q \in Producer \ {p} : task'[q] = task[q]
<1>1. TaskType /\ watched \in SUBSET Token
  BY TypeParts, FeedAssumption DEF FeedType
<1>2. PICK tokens \in SUBSET watched :
        task' = [task EXCEPT ![p] = [IdleTask EXCEPT !.pc = "fetch", !.todo = tokens]]
  BY DEF StartRead
<1>3. tokens \in SUBSET Token
  BY <1>1
<1> DEFINE r == [IdleTask EXCEPT !.pc = "fetch", !.todo = tokens]
<1>4. r \in Task /\ r.pc = "fetch"
  BY <1>3, RestingTask
<1>5. task' = [task EXCEPT ![p] = r]
  BY <1>2
<1> HIDE DEF r
<1> QED BY <1>1, <1>4, <1>5, TaskUpdate

\* The three steps of a producer that end in a broadcast.
LEMMA SendDiffTask ==
    ASSUME TypeOK, NEW p \in Producer, SendDiff(p)
    PROVE  /\ TaskType' /\ task'[p].pc \in {"idle", "fetch", "stopped"}
           /\ \A q \in Producer \ {p} : task'[q] = task[q]
           /\ Update(task[p].diff) \in Event /\ Update(task[p].diff).balances = task[p].diff
<1>1. task[p] \in Task
  BY TypeParts DEF TaskType
<1>2. task[p].todo \in SUBSET Token /\ task[p].diff \in Balances
  BY <1>1 DEF Task
<1> QED BY <1>2, ProducerRests, EventType DEF SendDiff

\* ChunkFails ends one read of the updater and leaves the other producer alone.
LEMMA ChunkFailsTask ==
    ASSUME TypeOK, ChunkFails
    PROVE  /\ TaskType' /\ "snapshot" \in Producer /\ task["snapshot"].pc = "fetch"
           /\ task'["snapshot"].pc \in {"idle", "fetch", "stopped"}
           /\ \A q \in Producer \ {"snapshot"} : task'[q] = task[q]
<1>1. "snapshot" \in Producer /\ task["snapshot"].pc = "fetch"
  BY DEF ChunkFails
<1>2. task["snapshot"] \in Task
  BY <1>1, TypeParts DEF TaskType
<1>3. PICK todo \in SUBSET task["snapshot"].todo :
        task' = [task EXCEPT !["snapshot"] = [IdleTask EXCEPT !.pc = AfterChunk(todo),
                                                              !.todo = todo]]
  BY DEF ChunkFails
<1>4. todo \in SUBSET Token
  BY <1>2 DEF Task
<1> QED BY <1>1, <1>3, <1>4, ProducerRests

\* QueueFails ends one read of the queue and leaves the other producer alone.
LEMMA QueueFailsTask ==
    ASSUME TypeOK, QueueFails
    PROVE  /\ TaskType' /\ "queue" \in Producer /\ task["queue"].pc = "fetch"
           /\ task'["queue"].pc \in {"idle", "fetch", "stopped"}
           /\ \A q \in Producer \ {"queue"} : task'[q] = task[q]
BY ProducerRests DEF QueueFails

\* Every step keeps the shape of the state.
LEMMA TypeStep ==
    ASSUME TypeOK, AnswersTrue, Next
    PROVE  TypeOK'
<1>1. TaskType /\ ClientType /\ FeedType
  BY TypeParts
<1>2. SUFFICES TaskType' /\ ClientType' /\ FeedType'
  BY TypeParts, PTL
<1>3. CASE NewBlock
  <2>1. PICK b \in [Token -> Amount] : chain' = Append(chain, b)
    BY <1>3 DEF NewBlock
  <2>2. chain' \in Seq([Token -> Amount]) /\ Len(chain)' \in 1 .. MaxBlock
    BY <1>1, <1>3, <2>1, FeedAssumption DEF NewBlock, FeedType, head
  <2> QED BY <1>1, <1>3, <2>2 DEF NewBlock, feed, TaskType, ClientType, FeedType, head
<1>4. ASSUME NEW new \in WatchList, SetWatchedTokens(new)
      PROVE  TaskType' /\ ClientType' /\ FeedType'
  BY <1>1, <1>4 DEF SetWatchedTokens, TaskType, ClientType, FeedType, head
<1>5. CASE EvictUnwatched
  <2>1. snapshot' \in Snapshot
    BY <1>1, <1>5, RetainLeaves DEF EvictUnwatched, FeedType
  <2> QED BY <1>1, <1>5, <2>1 DEF EvictUnwatched, TaskType, ClientType, FeedType, head
<1>6. CASE PutDropped
  BY <1>1, <1>6, FeedAssumption
     DEF PutDropped, Fault, TaskType, ClientType, FeedType, head
<1>7. ASSUME NEW p \in Producer, StartRead(p)
      PROVE  TaskType' /\ ClientType' /\ FeedType'
  <2>1. TaskType'
    BY <1>7, StartReadTask
  <2> QED BY <1>1, <1>7, <2>1 DEF StartRead, feed, ClientType, FeedType, head
<1>8. ASSUME NEW p \in Producer, Fetch(p)
      PROVE  TaskType' /\ ClientType' /\ FeedType'
  <2>1. TaskType'
    BY <1>8, FetchAnswers
  <2>2. faults' \in 0 .. MaxFaults
    BY <1>1, <1>8, FeedAssumption DEF Fetch, Fault, FeedType
  <2>3. UNCHANGED <<chain, feed, client, view, told>>
    BY <1>8 DEF Fetch
  <2> QED BY <1>1, <2>1, <2>2, <2>3 DEF feed, ClientType, FeedType, head
<1>9. ASSUME NEW p \in Producer, MergeAnswer(p)
      PROVE  TaskType' /\ ClientType' /\ FeedType'
  <2>1. task[p].block \in 1 .. MaxBlock
    BY <1>1, <1>9, FeedAssumption DEF MergeAnswer, AnswersTrue, FeedType
  <2>2. TaskType' /\ snapshot' \in Snapshot
    BY <1>9, <2>1, MergeLeaves
  <2> QED BY <1>1, <1>9, <2>2 DEF MergeAnswer, ClientType, FeedType, head
<1>10. ASSUME NEW p \in Producer, SendDiff(p)
       PROVE  TaskType' /\ ClientType' /\ FeedType'
  <2>1. TaskType' /\ Update(task[p].diff) \in Event
    BY <1>10, SendDiffTask
  <2>2. client' \in [Client -> Connection] /\ \A c \in Client : Len(client'[c].rx) <= Capacity
    BY <1>1, <1>10, <2>1, BroadcastAppends DEF SendDiff
  <2> QED BY <1>1, <1>10, <2>1, <2>2 DEF SendDiff, feed, ClientType, FeedType, head
<1>11. ASSUME NEW p \in Producer, StopProducer(p)
       PROVE  TaskType' /\ ClientType' /\ FeedType'
  <2>1. TaskType'
    BY <1>11, ProducerRests DEF StopProducer
  <2> QED BY <1>1, <1>11, <2>1 DEF StopProducer, feed, ClientType, FeedType, head
<1>12. CASE ChunkFails
  <2>1. TaskType'
    BY <1>12, ChunkFailsTask
  <2>2. client' \in [Client -> Connection] /\ \A c \in Client : Len(client'[c].rx) <= Capacity
    BY <1>1, <1>12, BroadcastAppends, EventType DEF ChunkFails
  <2>3. faults' \in 0 .. MaxFaults
    BY <1>1, <1>12, FeedAssumption DEF ChunkFails, Fault, FeedType
  <2> QED BY <1>1, <1>12, <2>1, <2>2, <2>3 DEF ChunkFails, feed, ClientType, FeedType, head
<1>13. CASE QueueFails
  <2>1. TaskType'
    BY <1>13, QueueFailsTask
  <2>2. client' \in [Client -> Connection] /\ \A c \in Client : Len(client'[c].rx) <= Capacity
    BY <1>1, <1>13, BroadcastAppends, EventType DEF QueueFails
  <2>3. faults' \in 0 .. MaxFaults
    BY <1>1, <1>13, FeedAssumption DEF QueueFails, Fault, FeedType
  <2> QED BY <1>1, <1>13, <2>1, <2>2, <2>3 DEF QueueFails, ClientType, FeedType, head
<1>14. ASSUME NEW c \in Client, SubscribeClient(c)
       PROVE  TaskType' /\ ClientType' /\ FeedType'
  <2>1. client' \in [Client -> Connection] /\ \A d \in Client : Len(client'[d].rx) <= Capacity
    BY <1>1, <1>14, OfflineType, FeedAssumption DEF SubscribeClient, ClientType
  <2> QED BY <1>1, <1>14, <2>1 DEF SubscribeClient, feed, TaskType, ClientType, FeedType, head
<1>15. ASSUME NEW c \in Client, SeedClient(c)
       PROVE  TaskType' /\ ClientType' /\ FeedType'
  <2>1. client' \in [Client -> Connection] /\ \A d \in Client : Len(client'[d].rx) <= Capacity
    BY <1>1, <1>15 DEF SeedClient, ClientType, Connection
  <2>2. /\ view' \in [Client -> Balances]
        /\ told' \in [Client -> SUBSET (Token \X Amount)]
    BY <1>1, <1>15, AmountsType, TellAllTells DEF SeedClient, FeedType
  <2> QED BY <1>1, <1>15, <2>1, <2>2 DEF SeedClient, feed, TaskType, ClientType, FeedType, head
<1>16. ASSUME NEW c \in Client, Deliver(c)
       PROVE  TaskType' /\ ClientType' /\ FeedType'
  <2>1. client[c] \in Connection /\ client[c].rx \in Seq(Event) /\ client[c].rx # <<>>
    BY <1>1, <1>16 DEF Deliver, ClientType, Connection
  <2>2. /\ Head(client[c].rx) \in Event /\ Tail(client[c].rx) \in Seq(Event)
        /\ Len(Tail(client[c].rx)) <= Capacity
    BY <1>1, <2>1, FeedAssumption DEF ClientType
  <2>3. Head(client[c].rx).balances \in Balances
    BY <2>2 DEF Event
  <2>4. client' \in [Client -> Connection] /\ \A d \in Client : Len(client'[d].rx) <= Capacity
    BY <1>1, <1>16, <2>1, <2>2 DEF Deliver, ClientType, Connection
  <2>5. /\ view' \in [Client -> Balances]
        /\ told' \in [Client -> SUBSET (Token \X Amount)]
    BY <1>1, <1>16, <2>3, TellAllTells DEF Deliver
  <2> QED BY <1>1, <1>16, <2>4, <2>5 DEF Deliver, feed, TaskType, ClientType, FeedType, head
<1>17. ASSUME NEW c \in Client, LagClose(c)
       PROVE  TaskType' /\ ClientType' /\ FeedType'
  <2>1. client' \in [Client -> Connection] /\ \A d \in Client : Len(client'[d].rx) <= Capacity
    BY <1>1, <1>17, OfflineType, FeedAssumption DEF LagClose, ClientType
  <2> QED BY <1>1, <1>17, <2>1 DEF LagClose, feed, TaskType, ClientType, FeedType, head
<1>18. ASSUME NEW c \in Client, Disconnect(c)
       PROVE  TaskType' /\ ClientType' /\ FeedType'
  <2>1. client' \in [Client -> Connection] /\ \A d \in Client : Len(client'[d].rx) <= Capacity
    BY <1>1, <1>18, OfflineType, FeedAssumption DEF Disconnect, ClientType
  <2>2. Empty \in Balances
    BY EmptyMap DEF Balances
  <2> QED BY <1>1, <1>18, <2>1, <2>2
          DEF Disconnect, feed, TaskType, ClientType, FeedType, head
<1> QED BY <1>3, <1>4, <1>5, <1>6, <1>7, <1>8, <1>9, <1>10, <1>11, <1>12, <1>13, <1>14,
           <1>15, <1>16, <1>17, <1>18 DEF Next

-----------------------------------------------------------------------------
(* The snapshot is true to the chain.                                      *)

\* Steps that leave the chain, the snapshot and every waiting answer alone.
LEMMA TruthKept ==
    ASSUME AnswersTrue, LabelsKnown, SnapshotTrue, UNCHANGED <<chain, snapshot>>,
           \A p \in Producer : task'[p] = task[p] \/ task'[p].pc # "merge"
    PROVE  AnswersTrue' /\ LabelsKnown' /\ SnapshotTrue'
BY DEF AnswersTrue, LabelsKnown, SnapshotTrue, head

\* A longer chain agrees with the old one on the old blocks.
LEMMA BlocksKept ==
    ASSUME TypeOK, NewBlock
    PROVE  head' = head + 1 /\ \A n \in 1 .. head : n \in 1 .. head' /\ chain'[n] = chain[n]
<1>1. chain \in Seq([Token -> Amount])
  BY DEF TypeOK
<1>2. PICK b \in [Token -> Amount] : chain' = Append(chain, b)
  BY DEF NewBlock
<1> QED BY <1>1, <1>2, SMTT(60) DEF head

\* So a new block makes no answer and no label wrong.
LEMMA NewBlockTruth ==
    ASSUME FeedInv, NewBlock
    PROVE  AnswersTrue' /\ LabelsKnown' /\ SnapshotTrue'
<1>1. /\ head' = head + 1
      /\ \A n \in 1 .. head : n \in 1 .. head' /\ chain'[n] = chain[n]
  BY BlocksKept DEF FeedInv
<1>2. task' = task /\ snapshot' = snapshot
  BY DEF NewBlock, feed
<1> QED BY <1>1, <1>2 DEF FeedInv, AnswersTrue, LabelsKnown, SnapshotTrue

\* A merge writes what its answer says, under the answer's block.
LEMMA MergeTruth ==
    ASSUME FeedInv, NEW p \in Producer, MergeAnswer(p)
    PROVE  AnswersTrue' /\ LabelsKnown' /\ SnapshotTrue'
<1>1. TypeOK /\ TaskType /\ FeedType
  BY TypeParts DEF FeedInv
<1>2. task[p].pc = "merge" /\ chain' = chain /\ head' = head
  BY DEF MergeAnswer, head
<1> DEFINE n == task[p].block
           b == task[p].answer
<1>3. n \in 1 .. head /\ \A t \in DOMAIN b : b[t] = chain[n][t]
  BY <1>2 DEF FeedInv, AnswersTrue
<1>4. n \in 1 .. MaxBlock
  BY <1>1, <1>3, FeedAssumption DEF FeedType
<1>5. snapshot \in Snapshot /\ b \in Balances
  BY <1>1 DEF FeedType, TaskType, Task
<1>6. /\ snapshot' = Merge(snapshot, b, n) /\ task'[p].pc \in {"idle", "fetch", "send"}
      /\ \A q \in Producer \ {p} : task'[q] = task[q]
  BY <1>1, <1>4, MergeLeaves
<1> HIDE DEF n, b
<1>7. AnswersTrue'
  <2> SUFFICES ASSUME NEW q \in Producer, task'[q].pc = "merge"
               PROVE  /\ task'[q].block \in 1 .. head'
                      /\ \A t \in DOMAIN task'[q].answer :
                            task'[q].answer[t] = chain'[task'[q].block][t]
    BY DEF AnswersTrue
  <2>1. task'[q] = task[q]
    BY <1>6
  <2> QED BY <1>2, <2>1 DEF FeedInv, AnswersTrue
<1>8. ASSUME NEW t \in DOMAIN snapshot'
      PROVE  /\ snapshot'[t].block_number \in 1 .. head
             /\ snapshot'[t].amount = chain[snapshot'[t].block_number][t]
  <2>1. /\ t \in DOMAIN snapshot \cup DOMAIN b
        /\ snapshot'[t] = IF t \in DOMAIN b /\ Applies(snapshot, t, n)
                          THEN [amount |-> b[t], block_number |-> n] ELSE snapshot[t]
    BY <1>4, <1>5, <1>6, MergeWrites
  <2>2. CASE t \in DOMAIN b /\ Applies(snapshot, t, n)
    BY <1>3, <2>1, <2>2
  <2>3. CASE ~(t \in DOMAIN b /\ Applies(snapshot, t, n))
    <3>1. t \in DOMAIN snapshot /\ snapshot'[t] = snapshot[t]
      BY <2>1, <2>3 DEF Applies
    <3> QED BY <3>1 DEF FeedInv, LabelsKnown, SnapshotTrue
  <2> QED BY <2>2, <2>3
<1> QED BY <1>2, <1>7, <1>8 DEF LabelsKnown, SnapshotTrue

\* The invariant is inductive.
LEMMA FeedStep ==
    ASSUME FeedInv, [Next]_vars
    PROVE  FeedInv'
<1>1. TypeOK /\ AnswersTrue /\ LabelsKnown /\ SnapshotTrue /\ FeedType
  BY TypeParts DEF FeedInv
<1>2. CASE UNCHANGED vars
  <2>1. UNCHANGED <<chain, watched, snapshot, put, cancelled, task, client, view, told, faults>>
    BY <1>2 DEF vars, feed
  <2>2. TypeOK'
    BY <1>1, <2>1 DEF TypeOK, head
  <2> QED BY <1>1, <2>1, <2>2, TruthKept DEF FeedInv
<1>3. CASE Next
  <2>1. TypeOK'
    BY <1>1, <1>3, TypeStep
  <2>2. SUFFICES AnswersTrue' /\ LabelsKnown' /\ SnapshotTrue'
    BY <2>1 DEF FeedInv
  <2>3. CASE NewBlock
    BY <2>3, NewBlockTruth
  <2>4. ASSUME NEW new \in WatchList, SetWatchedTokens(new)
        PROVE  AnswersTrue' /\ LabelsKnown' /\ SnapshotTrue'
    BY <1>1, <2>4, TruthKept DEF SetWatchedTokens
  <2>5. CASE EvictUnwatched
    <3>1. /\ DOMAIN snapshot' \subseteq DOMAIN snapshot
          /\ \A t \in DOMAIN snapshot' : snapshot'[t] = snapshot[t]
      BY <1>1, <2>5, RetainLeaves DEF EvictUnwatched, FeedType
    <3>2. UNCHANGED <<chain, task>>
      BY <2>5 DEF EvictUnwatched
    <3> QED BY <1>1, <3>1, <3>2 DEF AnswersTrue, LabelsKnown, SnapshotTrue, head
  <2>6. CASE PutDropped
    BY <1>1, <2>6, TruthKept DEF PutDropped
  <2>7. ASSUME NEW p \in Producer, StartRead(p)
        PROVE  AnswersTrue' /\ LabelsKnown' /\ SnapshotTrue'
    <3>1. UNCHANGED <<chain, snapshot>>
      BY <2>7 DEF StartRead, feed
    <3> QED BY <1>1, <2>7, <3>1, StartReadTask, TruthKept
  <2>8. ASSUME NEW p \in Producer, Fetch(p)
        PROVE  AnswersTrue' /\ LabelsKnown' /\ SnapshotTrue'
    <3>1. UNCHANGED <<chain, snapshot>> /\ head' = head
      BY <2>8 DEF Fetch, feed, head
    <3>2. AnswersTrue'
      BY <1>1, <2>8, <3>1, FetchAnswers DEF AnswersTrue
    <3> QED BY <1>1, <3>1, <3>2 DEF LabelsKnown, SnapshotTrue
  <2>9. ASSUME NEW p \in Producer, MergeAnswer(p)
        PROVE  AnswersTrue' /\ LabelsKnown' /\ SnapshotTrue'
    BY <2>9, MergeTruth
  <2>10. ASSUME NEW p \in Producer, SendDiff(p)
         PROVE  AnswersTrue' /\ LabelsKnown' /\ SnapshotTrue'
    <3>1. UNCHANGED <<chain, snapshot>>
      BY <2>10 DEF SendDiff, feed
    <3> QED BY <1>1, <2>10, <3>1, SendDiffTask, TruthKept
  <2>11. ASSUME NEW p \in Producer, StopProducer(p)
         PROVE  AnswersTrue' /\ LabelsKnown' /\ SnapshotTrue'
    <3>1. UNCHANGED <<chain, snapshot>>
      BY <2>11 DEF StopProducer, feed
    <3>2. /\ task'[p].pc \in {"idle", "fetch", "stopped"}
          /\ \A q \in Producer \ {p} : task'[q] = task[q]
      BY <1>1, <2>11, ProducerRests DEF StopProducer
    <3> QED BY <1>1, <3>1, <3>2, TruthKept
  <2>12. CASE ChunkFails
    <3>1. UNCHANGED <<chain, snapshot>>
      BY <2>12 DEF ChunkFails, feed
    <3> QED BY <1>1, <2>12, <3>1, ChunkFailsTask, TruthKept
  <2>13. CASE QueueFails
    <3>1. UNCHANGED <<chain, snapshot>>
      BY <2>13 DEF QueueFails
    <3> QED BY <1>1, <2>13, <3>1, QueueFailsTask, TruthKept
  <2>14. ASSUME NEW c \in Client,
                SubscribeClient(c) \/ SeedClient(c) \/ Deliver(c) \/ LagClose(c) \/ Disconnect(c)
         PROVE  AnswersTrue' /\ LabelsKnown' /\ SnapshotTrue'
    <3>1. UNCHANGED <<chain, snapshot, task>>
      BY <2>14 DEF SubscribeClient, SeedClient, Deliver, LagClose, Disconnect, feed
    <3> QED BY <1>1, <3>1, TruthKept
  <2> QED BY <1>3, <2>3, <2>4, <2>5, <2>6, <2>7, <2>8, <2>9, <2>10, <2>11, <2>12, <2>13,
             <2>14 DEF Next
<1> QED BY <1>2, <1>3

\* And it holds when the session is created.
LEMMA FeedInit == ASSUME Init PROVE FeedInv
<1>1. TypeOK
  <2>1. PICK b \in [Token -> Amount] : chain = <<b>>
    BY DEF Init
  <2>2. chain \in Seq([Token -> Amount]) /\ head \in 1 .. MaxBlock
    BY <2>1, FeedAssumption DEF head
  <2>3. FeedType
    <3>1. Empty \in Snapshot /\ 0 \in 0 .. MaxFaults
      BY EmptyMap, FeedAssumption DEF Snapshot
    <3> HIDE DEF Empty
    <3> QED BY <2>2, <3>1 DEF Init, FeedType
  <2>4. TaskType
    BY IdleTaskType DEF Init, TaskType
  <2>5. Empty \in Balances
    BY EmptyMap DEF Balances
  <2>6. ClientType
    BY <2>5, OfflineType, FeedAssumption DEF Init, ClientType
  <2> QED BY <2>3, <2>4, <2>6, TypeParts
<1>2. LabelsKnown /\ SnapshotTrue
  BY EmptyMap DEF Init, LabelsKnown, SnapshotTrue
<1>3. AnswersTrue
  BY IdleTaskType DEF Init, AnswersTrue
<1> QED BY <1>1, <1>2, <1>3 DEF FeedInv

\* The invariant behind the theorems of this module.
LEMMA FeedInvariant == Spec => []FeedInv
BY FeedInit, FeedStep, PTL DEF Spec

\* The shape of the feed's state: receivers keep to the ring's capacity, diffs and
\* answers stay partial maps of tokens to amounts.
THEOREM FeedTypeCorrect == Spec => []TypeOK
BY FeedInvariant, PTL DEF FeedInv

\* Every cached balance is the chain's at the block it is labelled with, whatever
\* answers were held across other merges, evictions and new blocks.
THEOREM SnapshotIsTrue == Spec => []SnapshotTrue
BY FeedInvariant, PTL DEF FeedInv

\* Only a merge and an eviction write the snapshot, and neither takes a cached token
\* back to an older block.
THEOREM LateAnswersLose == Spec => StaleNeverOverwrites
<1> DEFINE Keeps == \A t \in DOMAIN snapshot \cap DOMAIN snapshot' :
                       snapshot'[t].block_number >= snapshot[t].block_number
<1>1. ASSUME FeedInv, [Next]_vars
      PROVE  [Keeps]_vars
  <2>1. TypeOK /\ AnswersTrue /\ FeedType /\ TaskType
    BY <1>1, TypeParts DEF FeedInv
  <2>2. snapshot \in Snapshot /\ snapshot \in [DOMAIN snapshot -> Cached]
    BY <2>1, PartialMapElim DEF FeedType, Snapshot
  <2>3. \A t \in DOMAIN snapshot : snapshot[t].block_number \in Nat
    BY <2>2, FeedAssumption DEF Cached
  <2>4. CASE snapshot' = snapshot
    BY <2>3, <2>4
  <2>5. CASE EvictUnwatched
    <3>1. \A t \in DOMAIN snapshot' : snapshot'[t] = snapshot[t]
      BY <2>2, <2>5, RetainLeaves DEF EvictUnwatched
    <3> QED BY <2>3, <3>1
  <2>6. ASSUME NEW p \in Producer, MergeAnswer(p)
        PROVE  Keeps
    <3>1. task[p].block \in 1 .. MaxBlock /\ task[p].answer \in Balances
      BY <2>1, <2>6, FeedAssumption DEF MergeAnswer, AnswersTrue, FeedType, TaskType, Task
    <3>2. snapshot' = Merge(snapshot, task[p].answer, task[p].block)
      BY <2>6 DEF MergeAnswer
    <3> SUFFICES ASSUME NEW t \in DOMAIN snapshot
                 PROVE  snapshot'[t].block_number >= snapshot[t].block_number
      OBVIOUS
    <3>3. snapshot'[t] = IF t \in DOMAIN task[p].answer /\ Applies(snapshot, t, task[p].block)
                         THEN [amount |-> task[p].answer[t], block_number |-> task[p].block]
                         ELSE snapshot[t]
      BY <2>2, <3>1, <3>2, MergeWrites, ZenonT(60)
    <3>4. CASE t \in DOMAIN task[p].answer /\ Applies(snapshot, t, task[p].block)
      <4>1. snapshot'[t].block_number = task[p].block
        BY <3>3, <3>4
      <4> QED BY <2>3, <3>1, <3>4, <4>1, FeedAssumption DEF Applies
    <3>5. CASE ~(t \in DOMAIN task[p].answer /\ Applies(snapshot, t, task[p].block))
      <4>1. snapshot'[t] = snapshot[t]
        BY <3>3, <3>5
      <4> QED BY <2>3, <4>1
    <3> QED BY <3>4, <3>5
  <2>7. \/ snapshot' = snapshot \/ EvictUnwatched \/ \E p \in Producer : MergeAnswer(p)
    BY <1>1 DEF Next, vars, feed, NewBlock, SetWatchedTokens, PutDropped, StartRead, Fetch,
                SendDiff, StopProducer, ChunkFails, QueueFails, SubscribeClient, SeedClient,
                Deliver, LagClose, Disconnect
  <2> QED BY <2>4, <2>5, <2>6, <2>7
<1> QED BY <1>1, FeedInvariant, PTL DEF Spec, StaleNeverOverwrites

-----------------------------------------------------------------------------
(* No diff is lost on the way to a client.                                 *)

Listening(c) == client[c].pc = "streaming" /\ ~client[c].lagged

\* Where the cached amount of t can be on its way to c.
Waiting(c, t) ==
    \E i \in DOMAIN client[c].rx :
        /\ t \in DOMAIN client[c].rx[i].balances
        /\ client[c].rx[i].balances[t] = snapshot[t].amount
Held(p, t) ==
    task[p].pc = "send" /\ t \in DOMAIN task[p].diff /\ task[p].diff[t] = snapshot[t].amount
Reaches(c, t) ==
    <<t, snapshot[t].amount>> \in told[c] \/ Waiting(c, t) \/ \E p \in Producer : Held(p, t)

\* EveryChangeTold, client by client and token by token.
LEMMA ReachesEveryone ==
    EveryChangeTold <=>
        \A c \in Client : Listening(c) => \A t \in DOMAIN snapshot : Reaches(c, t)
BY DEF EveryChangeTold, Listening, Reaches, Waiting, Held

\* An amount on its way stays on its way while nobody touches the receiver and no
\* producer drops its diff.
LEMMA ReachKept ==
    ASSUME NEW c \in Client, NEW t, Reaches(c, t), snapshot'[t].amount = snapshot[t].amount,
           client'[c].rx = client[c].rx, told'[c] = told[c],
           \A p \in Producer : task[p].pc = "send" => task'[p] = task[p]
    PROVE  Reaches(c, t)'
<1>1. CASE <<t, snapshot[t].amount>> \in told[c]
  BY <1>1 DEF Reaches
<1>2. CASE Waiting(c, t)
  BY <1>2 DEF Reaches, Waiting
<1>3. ASSUME NEW p \in Producer, Held(p, t) PROVE Reaches(c, t)'
  BY <1>3 DEF Reaches, Held
<1> QED BY <1>1, <1>2, <1>3 DEF Reaches

\* A broadcast leaves a listener that has not lagged with more on its way, not less.
LEMMA ReachAfterBroadcast ==
    ASSUME ClientType, NEW e \in Event, Broadcast(e), NEW c \in Client, Listening(c)', NEW t,
           Reaches(c, t), UNCHANGED <<snapshot, told>>,
           \A p \in Producer :
              task[p].pc = "send" => task'[p] = task[p] \/ e.balances = task[p].diff
    PROVE  Listening(c) /\ Reaches(c, t)'
<1>1. Listening(c) /\ client'[c].rx = Append(client[c].rx, e)
  BY BroadcastAppends DEF Listening, Receiving
<1>2. client[c].rx \in Seq(Event)
  BY DEF ClientType, Connection
<1> DEFINE n == Len(client[c].rx)
<1>3. /\ n + 1 \in DOMAIN client'[c].rx /\ client'[c].rx[n + 1] = e
      /\ \A i \in DOMAIN client[c].rx : i \in DOMAIN client'[c].rx
                                        /\ client'[c].rx[i] = client[c].rx[i]
  BY <1>1, <1>2, SMTT(60)
<1> HIDE DEF n
<1>4. CASE <<t, snapshot[t].amount>> \in told[c]
  BY <1>1, <1>4 DEF Reaches
<1>5. CASE Waiting(c, t)
  BY <1>1, <1>3, <1>5 DEF Reaches, Waiting
<1>6. ASSUME NEW p \in Producer, Held(p, t) PROVE Reaches(c, t)'
  <2>1. CASE task'[p] = task[p]
    BY <1>6, <2>1 DEF Reaches, Held
  <2>2. CASE e.balances = task[p].diff
    BY <1>3, <1>6, <2>2 DEF Reaches, Waiting, Held
  <2> QED BY <1>6, <2>1, <2>2 DEF Held
<1> QED BY <1>1, <1>4, <1>5, <1>6 DEF Reaches

\* Handing the first event of the receiver to the client.
LEMMA ReachAfterDelivery ==
    ASSUME TypeOK, NEW c \in Client, Deliver(c), NEW t, Reaches(c, t)
    PROVE  Reaches(c, t)'
<1>1. ClientType
  BY TypeParts
<1>2. client[c] \in Connection /\ client[c].rx \in Seq(Event) /\ client[c].rx # <<>>
  BY <1>1 DEF Deliver, ClientType, Connection
<1>3. client'[c].rx = Tail(client[c].rx) /\ UNCHANGED <<snapshot, task>>
  BY <1>1, <1>2 DEF Deliver, ClientType, Connection, feed
<1>4. Head(client[c].rx) \in Event /\ Head(client[c].rx) = client[c].rx[1]
  BY <1>2
<1>5. Head(client[c].rx).balances \in Balances
  BY <1>4 DEF Event
<1> DEFINE b == Head(client[c].rx).balances
<1>6. told'[c] = told[c] \cup {<<u, b[u]>> : u \in DOMAIN b}
  BY <1>1, <1>5, TellAllTells DEF Deliver
<1>7. CASE <<t, snapshot[t].amount>> \in told[c]
  BY <1>3, <1>6, <1>7 DEF Reaches
<1>8. CASE Waiting(c, t)
  <2>1. PICK i \in DOMAIN client[c].rx :
           /\ t \in DOMAIN client[c].rx[i].balances
           /\ client[c].rx[i].balances[t] = snapshot[t].amount
    BY <1>8 DEF Waiting
  <2>2. CASE i = 1
    <3>1. t \in DOMAIN b /\ b[t] = snapshot[t].amount
      BY <1>4, <2>1, <2>2
    <3>2. <<t, b[t]>> \in {<<u, b[u]>> : u \in DOMAIN b}
      BY <3>1
    <3> HIDE DEF b
    <3>3. <<t, snapshot[t].amount>> \in told'[c]
      BY <1>6, <3>1, <3>2
    <3> QED BY <1>3, <3>3 DEF Reaches
  <2>3. CASE i # 1
    <3>1. i - 1 \in DOMAIN client'[c].rx /\ client'[c].rx[i - 1] = client[c].rx[i]
      BY <1>2, <1>3, <2>1, <2>3
    <3> QED BY <1>3, <2>1, <3>1 DEF Reaches, Waiting
  <2> QED BY <2>2, <2>3
<1>9. ASSUME NEW p \in Producer, Held(p, t) PROVE Reaches(c, t)'
  BY <1>3, <1>9 DEF Reaches, Held
<1> QED BY <1>7, <1>8, <1>9 DEF Reaches

\* What a merge changes is held by its producer until it is broadcast.
LEMMA ReachAfterMerge ==
    ASSUME FeedInv, NEW p \in Producer, MergeAnswer(p), NEW c \in Client,
           NEW t \in DOMAIN snapshot', t \in DOMAIN snapshot => Reaches(c, t)
    PROVE  Reaches(c, t)'
<1>1. TypeOK /\ AnswersTrue /\ TaskType /\ FeedType
  BY TypeParts DEF FeedInv
<1> DEFINE n == task[p].block
           b == task[p].answer
<1>2. n \in 1 .. MaxBlock /\ b \in Balances /\ snapshot \in Snapshot
  BY <1>1, FeedAssumption DEF MergeAnswer, AnswersTrue, FeedType, TaskType, Task
<1>3. /\ snapshot' = Merge(snapshot, b, n)
      /\ \A q \in Producer \ {p} : task'[q] = task[q]
      /\ DOMAIN Diff(snapshot, b, n) # {} =>
            task'[p].pc = "send" /\ task'[p].diff = Diff(snapshot, b, n)
  BY <1>1, <1>2, MergeLeaves
<1> HIDE DEF n, b
<1>4. CASE t \in DOMAIN Diff(snapshot, b, n)
  <2>1. Diff(snapshot, b, n)[t] = snapshot'[t].amount
    BY <1>2, <1>3, <1>4, DiffIsTheChange
  <2> QED BY <1>3, <1>4, <2>1 DEF Reaches, Held
<1>5. CASE t \notin DOMAIN Diff(snapshot, b, n)
  <2>1. t \in DOMAIN snapshot /\ snapshot'[t].amount = snapshot[t].amount
    BY <1>2, <1>3, <1>5, DiffIsTheChange
  <2>2. UNCHANGED <<client, told>> /\ task[p].pc = "merge"
    BY DEF MergeAnswer
  <2> QED BY <1>3, <2>1, <2>2, ReachKept
<1> QED BY <1>4, <1>5

\* A seeded client has been told everything that is cached.
LEMMA ReachAfterSeed ==
    ASSUME TypeOK, NEW c \in Client, SeedClient(c), NEW t \in DOMAIN snapshot
    PROVE  Reaches(c, t)'
<1>1. ClientType /\ snapshot \in Snapshot
  BY TypeParts DEF FeedType
<1> DEFINE b == Amounts(snapshot)
<1>2. b \in Balances /\ t \in DOMAIN b /\ b[t] = snapshot[t].amount
  BY <1>1, AmountsType
<1>3. told'[c] = told[c] \cup {<<u, b[u]>> : u \in DOMAIN b}
  BY <1>1, <1>2, TellAllTells DEF SeedClient
<1>4. <<t, b[t]>> \in {<<u, b[u]>> : u \in DOMAIN b}
  BY <1>2
<1> HIDE DEF b
<1>5. snapshot' = snapshot
  BY DEF SeedClient, feed
<1> QED BY <1>2, <1>3, <1>4, <1>5 DEF Reaches

\* A step of one client touches no other.
LEMMA ClientStep ==
    ASSUME TypeOK, NEW c \in Client,
           SubscribeClient(c) \/ SeedClient(c) \/ Deliver(c) \/ LagClose(c) \/ Disconnect(c)
    PROVE  /\ UNCHANGED <<snapshot, task>>
           /\ \A d \in Client \ {c} :
                 client'[d] = client[d] /\ told'[d] = told[d] /\ view'[d] = view[d]
           /\ client'[c].pc = "streaming" => SeedClient(c) \/ Deliver(c)
<1>1. ClientType
  BY TypeParts
<1>2. UNCHANGED <<snapshot, task>>
  BY DEF SubscribeClient, SeedClient, Deliver, LagClose, Disconnect, feed
<1>3. \A d \in Client \ {c} :
         client'[d] = client[d] /\ told'[d] = told[d] /\ view'[d] = view[d]
  BY <1>1 DEF SubscribeClient, SeedClient, Deliver, LagClose, Disconnect, TellAll, ClientType
<1>4. SubscribeClient(c) => client'[c].pc = "subscribed"
  BY <1>1, OfflineType DEF SubscribeClient, ClientType
<1>5. LagClose(c) => client'[c].pc = "closed"
  BY <1>1, OfflineType DEF LagClose, ClientType
<1>6. Disconnect(c) => client'[c].pc = "off"
  BY <1>1, OfflineType DEF Disconnect, ClientType
<1> QED BY <1>2, <1>3, <1>4, <1>5, <1>6

\* Steps that only prepare: no diff, receiver or cached amount is touched.
LEMMA QuietStep ==
    ASSUME TypeOK,
           \/ UNCHANGED vars \/ NewBlock \/ PutDropped
           \/ \E new \in WatchList : SetWatchedTokens(new)
           \/ \E p \in Producer : StartRead(p) \/ Fetch(p) \/ StopProducer(p)
    PROVE  /\ UNCHANGED <<snapshot, client, view, told>>
           /\ \A p \in Producer : \/ task'[p] = task[p]
                                  \/ task[p].pc # "send" /\ task'[p].pc # "send"
<1>1. UNCHANGED <<snapshot, client, view, told>>
  BY DEF NewBlock, PutDropped, SetWatchedTokens, StartRead, Fetch, StopProducer, feed, vars
<1>2. CASE \/ UNCHANGED vars \/ NewBlock \/ PutDropped
           \/ \E new \in WatchList : SetWatchedTokens(new)
  BY <1>1, <1>2 DEF NewBlock, PutDropped, SetWatchedTokens, vars
<1>3. ASSUME NEW p \in Producer, StartRead(p)
      PROVE  \A q \in Producer : \/ task'[q] = task[q]
                                 \/ task[q].pc # "send" /\ task'[q].pc # "send"
  BY <1>3, StartReadTask, ZenonT(60) DEF StartRead
<1>4. ASSUME NEW p \in Producer, Fetch(p)
      PROVE  \A q \in Producer : \/ task'[q] = task[q]
                                 \/ task[q].pc # "send" /\ task'[q].pc # "send"
  BY <1>4, FetchAnswers DEF Fetch
<1>5. ASSUME NEW p \in Producer, StopProducer(p)
      PROVE  \A q \in Producer : \/ task'[q] = task[q]
                                 \/ task[q].pc # "send" /\ task'[q].pc # "send"
  <2>1. /\ task'[p].pc \in {"idle", "fetch", "stopped"}
        /\ \A q \in Producer \ {p} : task'[q] = task[q]
    BY <1>5, ProducerRests DEF StopProducer
  <2> QED BY <1>5, <2>1 DEF StopProducer
<1> QED BY <1>1, <1>2, <1>3, <1>4, <1>5

\* EveryChangeTold is preserved by every step.
LEMMA ToldStep ==
    ASSUME FeedInv, EveryChangeTold, [Next]_vars
    PROVE  EveryChangeTold'
<1>1. TypeOK /\ ClientType /\ FeedType /\ TaskType
  BY TypeParts DEF FeedInv
<1>2. \A c \in Client : Listening(c) => \A t \in DOMAIN snapshot : Reaches(c, t)
  BY ReachesEveryone
<1> SUFFICES (\A c \in Client : Listening(c) => \A t \in DOMAIN snapshot : Reaches(c, t))'
  BY ReachesEveryone, PTL
<1> SUFFICES ASSUME NEW c \in Client, Listening(c)', NEW t \in DOMAIN snapshot'
             PROVE  Reaches(c, t)'
  OBVIOUS
<1>3. CASE \/ UNCHANGED vars \/ NewBlock \/ PutDropped
           \/ \E new \in WatchList : SetWatchedTokens(new)
           \/ \E p \in Producer : StartRead(p) \/ Fetch(p) \/ StopProducer(p)
  <2>1. /\ UNCHANGED <<snapshot, client, told>>
        /\ \A p \in Producer : task[p].pc = "send" => task'[p] = task[p]
    BY <1>1, <1>3, QuietStep
  <2>2. Reaches(c, t)
    BY <1>2, <2>1 DEF Listening
  <2> QED BY <2>1, <2>2, ReachKept
<1>4. CASE EvictUnwatched
  <2>1. t \in DOMAIN snapshot /\ snapshot'[t] = snapshot[t]
    BY <1>1, <1>4, RetainLeaves DEF EvictUnwatched, FeedType
  <2>2. UNCHANGED <<client, told, task>>
    BY <1>4 DEF EvictUnwatched
  <2>3. Reaches(c, t)
    BY <1>2, <2>1, <2>2 DEF Listening
  <2> QED BY <2>1, <2>2, <2>3, ReachKept
<1>5. ASSUME NEW p \in Producer, MergeAnswer(p) PROVE Reaches(c, t)'
  <2>1. Listening(c)
    BY <1>5 DEF MergeAnswer, Listening
  <2> QED BY <1>2, <1>5, <2>1, ReachAfterMerge
<1>6. ASSUME NEW e \in Event, Broadcast(e), UNCHANGED <<snapshot, told>>,
             \A p \in Producer :
                task[p].pc = "send" => task'[p] = task[p] \/ e.balances = task[p].diff
      PROVE  Reaches(c, t)'
  <2>1. Listening(c)
    BY <1>1, <1>6, BroadcastAppends DEF Listening, Receiving
  <2> QED BY <1>1, <1>2, <1>6, <2>1, ReachAfterBroadcast
<1>7. ASSUME NEW p \in Producer, SendDiff(p) PROVE Reaches(c, t)'
  <2>1. /\ Update(task[p].diff) \in Event /\ Update(task[p].diff).balances = task[p].diff
        /\ \A q \in Producer \ {p} : task'[q] = task[q]
    BY <1>1, <1>7, SendDiffTask
  <2>2. Broadcast(Update(task[p].diff)) /\ UNCHANGED <<snapshot, told>>
    BY <1>7 DEF SendDiff, feed
  <2> QED BY <1>6, <2>1, <2>2
<1>8. CASE ChunkFails
  <2>1. Broadcast(Error) /\ UNCHANGED <<snapshot, told>>
    BY <1>8 DEF ChunkFails, feed
  <2> QED BY <1>1, <1>6, <1>8, <2>1, ChunkFailsTask, EventType
<1>9. CASE QueueFails
  <2>1. Broadcast(Error) /\ UNCHANGED <<snapshot, told>>
    BY <1>9 DEF QueueFails
  <2> QED BY <1>1, <1>6, <1>9, <2>1, QueueFailsTask, EventType
<1>10. ASSUME NEW d \in Client,
              \/ SubscribeClient(d) \/ SeedClient(d) \/ Deliver(d) \/ LagClose(d)
              \/ Disconnect(d)
       PROVE  Reaches(c, t)'
  <2>1. UNCHANGED <<snapshot, task>>
    BY <1>1, <1>10, ClientStep
  <2>2. CASE c # d
    <3>1. client'[c] = client[c] /\ told'[c] = told[c]
      BY <1>1, <1>10, <2>2, ClientStep
    <3>2. Reaches(c, t)
      BY <1>2, <2>1, <3>1 DEF Listening
    <3> QED BY <2>1, <3>1, <3>2, ReachKept
  <2>3. CASE c = d
    <3>1. SeedClient(c) \/ Deliver(c)
      BY <1>1, <1>10, <2>3, ClientStep DEF Listening
    <3>2. CASE SeedClient(c)
      BY <1>1, <2>1, <3>2, ReachAfterSeed
    <3>3. CASE Deliver(c)
      <4>1. Reaches(c, t)
        BY <1>2, <2>1, <3>3 DEF Deliver, Listening
      <4> QED BY <1>1, <3>3, <4>1, ReachAfterDelivery
    <3> QED BY <3>1, <3>2, <3>3
  <2> QED BY <2>2, <2>3
<1> QED BY <1>3, <1>4, <1>5, <1>7, <1>8, <1>9, <1>10 DEF Next

\* No diff is lost: the cached amount of a token has been told to every client that
\* is not lagged, or waits in its receiver, or in the producer that merged it.
THEOREM NoDiffLost == Spec => []EveryChangeTold
<1>1. Init => EveryChangeTold
  BY EmptyMap DEF Init, EveryChangeTold
<1> QED BY <1>1, FeedInvariant, ToldStep, PTL DEF Spec

-----------------------------------------------------------------------------
(* With one producer the last word a client hears is the cached amount.    *)

\* The clients the broadcast still serves in full.
Following(c) == Receiving(c) /\ ~client[c].lagged

Mentions(c, i, t) == t \in DOMAIN client[c].rx[i].balances
Sending(p, t) == task[p].pc = "send" /\ t \in DOMAIN task[p].diff

\* The newest event in the receiver about t, if any, has the cached amount.
RxSays(c, t) ==
    \A i \in DOMAIN client[c].rx :
        Mentions(c, i, t) /\ (\A j \in DOMAIN client[c].rx : j > i => ~Mentions(c, j, t)) =>
            client[c].rx[i].balances[t] = snapshot[t].amount

\* With no event about t in the receiver, the client already has it.
ViewSays(c, t) ==
    client[c].pc = "streaming" /\ (\A i \in DOMAIN client[c].rx : ~Mentions(c, i, t)) =>
        Agrees(c, t)

\* The last word on t: the diff being sent, else the receiver's, else the client's.
LastWord(c, t) ==
    /\ \A p \in Producer : Sending(p, t) => task[p].diff[t] = snapshot[t].amount
    /\ (\A p \in Producer : ~Sending(p, t)) => RxSays(c, t) /\ ViewSays(c, t)

\* A diff not sent yet is up to date.
DiffsCurrent ==
    \A p \in Producer, t \in DOMAIN snapshot :
        Sending(p, t) => task[p].diff[t] = snapshot[t].amount

LastWordIsTrue ==
    \A c \in Client : Following(c) => \A t \in DOMAIN snapshot : LastWord(c, t)

\* At most one of the two watcher tasks runs, as in a session that receives no
\* transfers.
LoneProducer == \A p, q \in Producer : p = q

\* Steps that touch neither the receiver nor the client nor the diffs.
LEMMA LastWordKept ==
    ASSUME NEW c \in Client, NEW t, LastWord(c, t),
           snapshot'[t].amount = snapshot[t].amount,
           client'[c] = client[c], view'[c] = view[c],
           \A p \in Producer : \/ task'[p] = task[p]
                               \/ ~Sending(p, t) /\ ~Sending(p, t)'
    PROVE  LastWord(c, t)'
<1>1. \A p \in Producer : Sending(p, t)' <=> Sending(p, t)
  BY DEF Sending
<1>2. \A p \in Producer : Sending(p, t) => task'[p] = task[p]
  OBVIOUS
<1>3. RxSays(c, t) /\ ViewSays(c, t) => RxSays(c, t)' /\ ViewSays(c, t)'
  BY DEF RxSays, ViewSays, Mentions, Agrees
<1> QED BY <1>1, <1>2, <1>3 DEF LastWord

\* A merge: what it changes is being sent, the rest is as it was.
LEMMA LastWordAfterMerge ==
    ASSUME FeedInv, LoneProducer, NEW p \in Producer, MergeAnswer(p), NEW c \in Client,
           NEW t \in DOMAIN snapshot', t \in DOMAIN snapshot => LastWord(c, t)
    PROVE  LastWord(c, t)'
<1>1. TypeOK /\ AnswersTrue /\ TaskType /\ FeedType
  BY TypeParts DEF FeedInv
<1> DEFINE n == task[p].block
           b == task[p].answer
<1>2. n \in 1 .. MaxBlock /\ b \in Balances /\ snapshot \in Snapshot
  BY <1>1, FeedAssumption DEF MergeAnswer, AnswersTrue, FeedType, TaskType, Task
<1>3. /\ snapshot' = Merge(snapshot, b, n)
      /\ DOMAIN Diff(snapshot, b, n) # {} =>
            task'[p].pc = "send" /\ task'[p].diff = Diff(snapshot, b, n)
      /\ DOMAIN Diff(snapshot, b, n) = {} => task'[p].pc # "send"
  BY <1>1, <1>2, MergeLeaves
<1> HIDE DEF n, b
<1>4. \A q \in Producer : q = p
  BY DEF LoneProducer
<1>5. CASE t \in DOMAIN Diff(snapshot, b, n)
  <2>1. Diff(snapshot, b, n)[t] = snapshot'[t].amount
    BY <1>2, <1>3, <1>5, DiffIsTheChange
  <2>2. task'[p].pc = "send" /\ task'[p].diff = Diff(snapshot, b, n)
    BY <1>3, <1>5
  <2>3. Sending(p, t)' /\ task'[p].diff[t] = snapshot'[t].amount
    BY <1>5, <2>1, <2>2 DEF Sending
  <2> QED BY <1>4, <2>3 DEF LastWord
<1>6. CASE t \notin DOMAIN Diff(snapshot, b, n)
  <2>1. t \in DOMAIN snapshot /\ snapshot'[t].amount = snapshot[t].amount
    BY <1>2, <1>3, <1>6, DiffIsTheChange
  <2>2. UNCHANGED <<client, view>> /\ task[p].pc = "merge"
    BY DEF MergeAnswer
  <2>3. ~Sending(p, t) /\ ~Sending(p, t)'
    BY <1>3, <1>6, <2>2 DEF Sending
  <2>4. LastWord(c, t)
    BY <2>1
  <2> QED BY <1>4, <2>1, <2>2, <2>3, <2>4, LastWordKept
<1> QED BY <1>5, <1>6

\* A broadcast: either its event has the last word on t, or it does not mention t.
LEMMA LastWordAfterBroadcast ==
    ASSUME ClientType, NEW e \in Event, Broadcast(e), NEW c \in Client, Following(c)',
           NEW t, LastWord(c, t), UNCHANGED <<snapshot, view>>,
           \A p \in Producer : ~Sending(p, t)',
           IF t \in DOMAIN e.balances
           THEN e.balances[t] = snapshot[t].amount
           ELSE \A p \in Producer : ~Sending(p, t)
    PROVE  LastWord(c, t)'
<1>1. /\ client'[c].rx = Append(client[c].rx, e) /\ client'[c].pc = client[c].pc
  BY BroadcastAppends DEF Following, Receiving
<1>2. client[c].rx \in Seq(Event)
  BY DEF ClientType, Connection
<1> PICK n : n = Len(client[c].rx)
  OBVIOUS
<1>3. /\ n \in Nat /\ DOMAIN client[c].rx = 1 .. n /\ DOMAIN client'[c].rx = 1 .. n + 1
      /\ client'[c].rx[n + 1] = e
      /\ \A i \in 1 .. n : client'[c].rx[i] = client[c].rx[i]
  BY <1>1, <1>2
<1>4. Mentions(c, n + 1, t)' <=> t \in DOMAIN e.balances
  BY <1>3 DEF Mentions
<1>5. \A i \in 1 .. n : Mentions(c, i, t)' <=> Mentions(c, i, t)
  BY <1>3 DEF Mentions
<1>6. CASE t \in DOMAIN e.balances
  <2>1. RxSays(c, t)'
    <3> SUFFICES ASSUME NEW i \in 1 .. n + 1, Mentions(c, i, t)',
                        \A j \in 1 .. n + 1 : j > i => ~Mentions(c, j, t)'
                 PROVE  client'[c].rx[i].balances[t] = snapshot'[t].amount
      BY <1>3 DEF RxSays
    <3>1. i = n + 1
      <4>1. ~(n + 1 > i)
        BY <1>3, <1>4, <1>6
      <4> QED BY <1>3, <4>1
    <3> QED BY <1>3, <1>6, <3>1
  <2>2. ViewSays(c, t)'
    BY <1>3, <1>4, <1>6 DEF ViewSays
  <2> QED BY <2>1, <2>2 DEF LastWord
<1>7. CASE t \notin DOMAIN e.balances
  <2>1. RxSays(c, t) /\ ViewSays(c, t)
    BY <1>7 DEF LastWord
  <2>2. RxSays(c, t)'
    <3> SUFFICES ASSUME NEW i \in 1 .. n + 1, Mentions(c, i, t)',
                        \A j \in 1 .. n + 1 : j > i => ~Mentions(c, j, t)'
                 PROVE  client'[c].rx[i].balances[t] = snapshot'[t].amount
      BY <1>3 DEF RxSays
    <3>1. i \in 1 .. n
      BY <1>3, <1>4, <1>7
    <3>2. Mentions(c, i, t) /\ \A j \in 1 .. n : j > i => ~Mentions(c, j, t)
      BY <1>3, <1>5, <3>1
    <3>3. client[c].rx[i].balances[t] = snapshot[t].amount
      BY <1>3, <2>1, <3>1, <3>2 DEF RxSays
    <3> QED BY <1>3, <3>1, <3>3
  <2>3. ViewSays(c, t)'
    <3> SUFFICES ASSUME client'[c].pc = "streaming",
                        \A i \in DOMAIN client'[c].rx : ~Mentions(c, i, t)'
                 PROVE  Agrees(c, t)'
      BY DEF ViewSays
    <3>1. \A i \in DOMAIN client[c].rx : ~Mentions(c, i, t)
      BY <1>3, <1>5
    <3>2. Agrees(c, t)
      BY <1>1, <2>1, <3>1 DEF ViewSays
    <3> QED BY <3>2 DEF Agrees
  <2> QED BY <2>2, <2>3 DEF LastWord
<1> QED BY <1>6, <1>7

\* Seeding: the client agrees with the snapshot on everything cached.
LEMMA LastWordAfterSeed ==
    ASSUME TypeOK, NEW c \in Client, SeedClient(c), NEW t \in DOMAIN snapshot, LastWord(c, t)
    PROVE  LastWord(c, t)'
<1>1. ClientType /\ snapshot \in Snapshot /\ view[c] \in Balances
  BY TypeParts DEF FeedType, ClientType
<1>2. /\ Amounts(snapshot) \in Balances /\ DOMAIN Amounts(snapshot) = DOMAIN snapshot
      /\ Amounts(snapshot)[t] = snapshot[t].amount
  BY <1>1, AmountsType
<1>3. view'[c] = Overlay(view[c], Amounts(snapshot))
  BY <1>1, <1>2, TellAllTells DEF SeedClient
<1>4. t \in DOMAIN view'[c] /\ view'[c][t] = snapshot[t].amount
  <2>1. /\ DOMAIN view'[c] = DOMAIN view[c] \cup DOMAIN snapshot
        /\ view'[c][t] = Amounts(snapshot)[t]
    BY <1>2, <1>3 DEF Overlay
  <2> QED BY <1>2, <2>1
<1>5. snapshot' = snapshot /\ task' = task /\ client'[c].rx = client[c].rx
  BY <1>1 DEF SeedClient, feed, ClientType, Connection
<1>6. Agrees(c, t)'
  BY <1>4, <1>5 DEF Agrees
<1>7. RxSays(c, t)' <=> RxSays(c, t)
  BY <1>5 DEF RxSays, Mentions
<1> QED BY <1>5, <1>6, <1>7 DEF LastWord, ViewSays, Sending

\* Delivery: the last word moves from the receiver to the client, or stays behind
\* the event that is delivered.
LEMMA LastWordAfterDelivery ==
    ASSUME TypeOK, NEW c \in Client, Deliver(c), NEW t \in DOMAIN snapshot, LastWord(c, t)
    PROVE  LastWord(c, t)'
<1>1. ClientType
  BY TypeParts
<1>2. /\ client[c].rx \in Seq(Event) /\ client[c].rx # <<>> /\ view[c] \in Balances
      /\ client[c].pc = "streaming"
  BY <1>1 DEF Deliver, ClientType, Connection
<1>3. client'[c].rx = Tail(client[c].rx) /\ UNCHANGED <<snapshot, task>>
  BY <1>1, <1>2 DEF Deliver, ClientType, Connection, feed
<1> PICK n : n = Len(client[c].rx)
  OBVIOUS
<1> PICK b : b = client[c].rx[1].balances
  OBVIOUS
<1>4. /\ n \in Nat \ {0} /\ DOMAIN client[c].rx = 1 .. n /\ DOMAIN client'[c].rx = 1 .. n - 1
      /\ \A i \in 1 .. n - 1 : i + 1 \in 1 .. n /\ client'[c].rx[i] = client[c].rx[i + 1]
      /\ Head(client[c].rx) = client[c].rx[1] /\ client[c].rx[1] \in Event
  BY <1>2, <1>3
<1>5. b \in Balances
  BY <1>4 DEF Event
<1>6. view'[c] = Overlay(view[c], b)
  BY <1>1, <1>4, <1>5, TellAllTells DEF Deliver
<1> DEFINE v == Overlay(view[c], b)
<1>7. /\ DOMAIN v = DOMAIN view[c] \cup DOMAIN b
      /\ \A u \in DOMAIN view[c] \cup DOMAIN b :
            v[u] = IF u \in DOMAIN b THEN b[u] ELSE view[c][u]
  BY DEF Overlay
<1> HIDE DEF v
<1>8. Mentions(c, 1, t) <=> t \in DOMAIN b
  BY DEF Mentions
<1>9. \A i \in 1 .. n - 1 : Mentions(c, i, t)' <=> Mentions(c, i + 1, t)
  BY <1>4 DEF Mentions
<1>10. \A i \in 2 .. n : i - 1 \in 1 .. n - 1 /\ (i - 1) + 1 = i
  BY <1>4
<1>11. \A i \in 2 .. n : Mentions(c, i, t) <=> Mentions(c, i - 1, t)'
  BY <1>4, <1>10 DEF Mentions
<1> SUFFICES ASSUME RxSays(c, t), ViewSays(c, t)
             PROVE  RxSays(c, t)' /\ ViewSays(c, t)'
  BY <1>3 DEF LastWord, Sending
<1>12. RxSays(c, t)'
  <2> SUFFICES ASSUME NEW i \in 1 .. n - 1, Mentions(c, i, t)',
                      \A j \in 1 .. n - 1 : j > i => ~Mentions(c, j, t)'
               PROVE  client'[c].rx[i].balances[t] = snapshot'[t].amount
    BY <1>4 DEF RxSays
  <2>1. Mentions(c, i + 1, t) /\ i + 1 \in 1 .. n
    BY <1>4, <1>9
  <2>2. ASSUME NEW j \in 1 .. n, j > i + 1 PROVE ~Mentions(c, j, t)
    <3>1. j \in 2 .. n /\ j - 1 \in 1 .. n - 1 /\ j - 1 > i
      BY <1>4, <2>2
    <3> QED BY <1>11, <3>1
  <2>3. client[c].rx[i + 1].balances[t] = snapshot[t].amount
    BY <1>4, <2>1, <2>2 DEF RxSays
  <2> QED BY <1>3, <1>4, <2>3
<1>13. ViewSays(c, t)'
  <2> SUFFICES ASSUME \A i \in 1 .. n - 1 : ~Mentions(c, i, t)'
               PROVE  Agrees(c, t)'
    BY <1>4 DEF ViewSays
  <2>1. \A i \in 2 .. n : ~Mentions(c, i, t)
    BY <1>10, <1>11
  <2>2. CASE t \in DOMAIN b
    <3>1. b[t] = snapshot[t].amount
      <4>1. 1 \in 1 .. n /\ \A j \in 1 .. n : j > 1 => j \in 2 .. n
        BY <1>4
      <4>2. client[c].rx[1].balances[t] = snapshot[t].amount
        BY <1>4, <1>8, <2>1, <2>2, <4>1 DEF RxSays
      <4> QED BY <4>2
    <3>2. t \in DOMAIN v /\ v[t] = snapshot[t].amount
      BY <1>7, <2>2, <3>1
    <3> QED BY <1>3, <1>6, <3>2 DEF Agrees, v
  <2>3. CASE t \notin DOMAIN b
    <3>1. \A i \in 1 .. n : ~Mentions(c, i, t)
      <4>1. \A i \in 1 .. n : i = 1 \/ i \in 2 .. n
        BY <1>4
      <4> QED BY <1>8, <2>1, <2>3, <4>1
    <3>2. Agrees(c, t)
      BY <1>2, <1>4, <3>1 DEF ViewSays
    <3>3. t \in DOMAIN v /\ v[t] = view[c][t]
      BY <1>7, <2>3, <3>2 DEF Agrees
    <3> QED BY <1>3, <1>6, <3>2, <3>3 DEF Agrees, v
  <2> QED BY <2>2, <2>3
<1> QED BY <1>12, <1>13

\* No merge comes between a producer's own merge and its broadcast.
LEMMA DiffsCurrentStep ==
    ASSUME FeedInv, LoneProducer, DiffsCurrent, [Next]_vars
    PROVE  DiffsCurrent'
<1>1. TypeOK /\ AnswersTrue /\ FeedType /\ TaskType
  BY TypeParts DEF FeedInv
<1>2. ASSUME DOMAIN snapshot' \subseteq DOMAIN snapshot,
             \A t \in DOMAIN snapshot' : snapshot'[t] = snapshot[t],
             \A p \in Producer : task'[p] = task[p] \/ task'[p].pc # "send"
      PROVE  DiffsCurrent'
  BY <1>2 DEF DiffsCurrent, Sending
<1>3. ASSUME NEW p \in Producer, MergeAnswer(p) PROVE DiffsCurrent'
  <2>1. /\ task[p].block \in 1 .. MaxBlock /\ task[p].answer \in Balances
        /\ snapshot \in Snapshot
    BY <1>1, <1>3, FeedAssumption DEF MergeAnswer, AnswersTrue, FeedType, TaskType, Task
  <2> PICK diff : diff = Diff(snapshot, task[p].answer, task[p].block)
    OBVIOUS
  <2>2. /\ snapshot' = Merge(snapshot, task[p].answer, task[p].block)
        /\ DOMAIN diff # {} => task'[p].pc = "send" /\ task'[p].diff = diff
        /\ DOMAIN diff = {} => task'[p].pc # "send"
    BY <1>1, <1>3, <2>1, MergeLeaves
  <2>3. ASSUME NEW t \in DOMAIN snapshot', Sending(p, t)'
        PROVE  task'[p].diff[t] = snapshot'[t].amount
    <3>1. task'[p].diff = diff /\ t \in DOMAIN diff
      BY <2>2, <2>3 DEF Sending
    <3> QED BY <2>1, <2>2, <3>1, DiffIsTheChange
  <2> QED BY <2>3 DEF DiffsCurrent, LoneProducer
<1>4. CASE EvictUnwatched
  <2>1. /\ DOMAIN snapshot' \subseteq DOMAIN snapshot
        /\ \A t \in DOMAIN snapshot' : snapshot'[t] = snapshot[t]
    BY <1>1, <1>4, RetainLeaves DEF EvictUnwatched, FeedType
  <2> QED BY <1>2, <1>4, <2>1 DEF EvictUnwatched
<1>5. CASE \/ UNCHANGED vars \/ NewBlock \/ PutDropped
           \/ \E new \in WatchList : SetWatchedTokens(new)
           \/ \E p \in Producer : StartRead(p) \/ Fetch(p) \/ StopProducer(p)
  BY <1>1, <1>2, <1>5, QuietStep
<1>6. ASSUME NEW p \in Producer, SendDiff(p) PROVE DiffsCurrent'
  BY <1>1, <1>2, <1>6, SendDiffTask DEF SendDiff, feed
<1>7. CASE ChunkFails
  BY <1>1, <1>2, <1>7, ChunkFailsTask DEF ChunkFails, feed
<1>8. CASE QueueFails
  BY <1>1, <1>2, <1>8, QueueFailsTask DEF QueueFails
<1>9. ASSUME NEW c \in Client,
             SubscribeClient(c) \/ SeedClient(c) \/ Deliver(c) \/ LagClose(c) \/ Disconnect(c)
      PROVE  DiffsCurrent'
  BY <1>1, <1>2, <1>9, ClientStep
<1> QED BY <1>3, <1>4, <1>5, <1>6, <1>7, <1>8, <1>9 DEF Next

\* The last word stays true through every step.
LEMMA LastWordStep ==
    ASSUME FeedInv, LoneProducer, DiffsCurrent, LastWordIsTrue, [Next]_vars
    PROVE  LastWordIsTrue'
<1>1. TypeOK /\ ClientType /\ FeedType
  BY TypeParts DEF FeedInv
<1> SUFFICES ASSUME NEW c \in Client, Following(c)', NEW t \in DOMAIN snapshot'
             PROVE  LastWord(c, t)'
  BY DEF LastWordIsTrue
<1>2. CASE \/ UNCHANGED vars \/ NewBlock \/ PutDropped
           \/ \E new \in WatchList : SetWatchedTokens(new)
           \/ \E p \in Producer : StartRead(p) \/ Fetch(p) \/ StopProducer(p)
  <2>1. /\ UNCHANGED <<snapshot, client, view>>
        /\ \A p \in Producer : \/ task'[p] = task[p]
                               \/ task[p].pc # "send" /\ task'[p].pc # "send"
    BY <1>1, <1>2, QuietStep
  <2>2. LastWord(c, t)
    BY <2>1 DEF LastWordIsTrue, Following, Receiving
  <2>3. \A p \in Producer : task'[p] = task[p] \/ (~Sending(p, t) /\ ~Sending(p, t)')
    BY <2>1 DEF Sending
  <2> QED BY <2>1, <2>2, <2>3, LastWordKept
<1>3. CASE EvictUnwatched
  <2>1. t \in DOMAIN snapshot /\ snapshot'[t] = snapshot[t]
    BY <1>1, <1>3, RetainLeaves DEF EvictUnwatched, FeedType
  <2>2. UNCHANGED <<client, view, task>>
    BY <1>3 DEF EvictUnwatched
  <2>3. LastWord(c, t)
    BY <2>1, <2>2 DEF LastWordIsTrue, Following, Receiving
  <2> QED BY <2>1, <2>2, <2>3, LastWordKept
<1>4. ASSUME NEW p \in Producer, MergeAnswer(p) PROVE LastWord(c, t)'
  <2>1. Following(c)
    BY <1>4 DEF MergeAnswer, Following, Receiving
  <2> QED BY <1>4, <2>1, LastWordAfterMerge DEF LastWordIsTrue
<1>5. ASSUME NEW e \in Event, Broadcast(e), UNCHANGED <<snapshot, view>>,
             \A p \in Producer : ~Sending(p, t)',
             t \in DOMAIN snapshot =>
                 IF t \in DOMAIN e.balances
                 THEN e.balances[t] = snapshot[t].amount
                 ELSE \A p \in Producer : ~Sending(p, t)
      PROVE  LastWord(c, t)'
  <2>1. Following(c)
    BY <1>1, <1>5, BroadcastAppends DEF Following, Receiving
  <2>2. t \in DOMAIN snapshot /\ LastWord(c, t)
    BY <1>5, <2>1 DEF LastWordIsTrue
  <2> QED BY <1>1, <1>5, <2>2, LastWordAfterBroadcast
<1>6. ASSUME NEW p \in Producer, SendDiff(p) PROVE LastWord(c, t)'
  <2>1. /\ Update(task[p].diff) \in Event /\ Update(task[p].diff).balances = task[p].diff
        /\ task'[p].pc \in {"idle", "fetch", "stopped"}
    BY <1>1, <1>6, SendDiffTask
  <2>2. /\ Broadcast(Update(task[p].diff)) /\ UNCHANGED <<snapshot, view>>
        /\ task[p].pc = "send"
    BY <1>6 DEF SendDiff, feed
  <2>3. \A q \in Producer : q = p
    BY DEF LoneProducer
  <2>4. \A q \in Producer : ~Sending(q, t)'
    BY <2>1, <2>3 DEF Sending
  <2>5. Following(c)
    BY <1>1, <2>1, <2>2, BroadcastAppends DEF Following, Receiving
  <2>6. ASSUME t \in DOMAIN snapshot
        PROVE  IF t \in DOMAIN task[p].diff
               THEN task[p].diff[t] = snapshot[t].amount
               ELSE \A q \in Producer : ~Sending(q, t)
    <3>1. LastWord(c, t)
      BY <2>5, <2>6 DEF LastWordIsTrue
    <3> QED BY <2>2, <2>3, <3>1 DEF LastWord, Sending
  <2> QED BY <1>5, <2>1, <2>2, <2>4, <2>6
<1>7. ASSUME NEW p \in Producer, task[p].pc = "fetch", Broadcast(Error),
             UNCHANGED <<snapshot, view>>, task'[p].pc \in {"idle", "fetch", "stopped"}
      PROVE  LastWord(c, t)'
  <2>1. \A q \in Producer : q = p
    BY DEF LoneProducer
  <2>2. \A q \in Producer : ~Sending(q, t)' /\ ~Sending(q, t)
    BY <1>7, <2>1 DEF Sending
  <2>3. t \notin DOMAIN Error.balances
    BY EmptyMap DEF Error
  <2> QED BY <1>5, <1>7, <2>2, <2>3, EventType
<1>8. CASE ChunkFails
  <2>1. Broadcast(Error) /\ UNCHANGED <<snapshot, view>>
    BY <1>8 DEF ChunkFails, feed
  <2> QED BY <1>1, <1>7, <1>8, <2>1, ChunkFailsTask
<1>9. CASE QueueFails
  <2>1. Broadcast(Error) /\ UNCHANGED <<snapshot, view>>
    BY <1>9 DEF QueueFails
  <2> QED BY <1>1, <1>7, <1>9, <2>1, QueueFailsTask
<1>10. ASSUME NEW d \in Client,
              \/ SubscribeClient(d) \/ SeedClient(d) \/ Deliver(d) \/ LagClose(d)
              \/ Disconnect(d)
       PROVE  LastWord(c, t)'
  <2>1. UNCHANGED <<snapshot, task>>
    BY <1>1, <1>10, ClientStep
  <2>2. CASE c # d
    <3>1. client'[c] = client[c] /\ view'[c] = view[c]
      BY <1>1, <1>10, <2>2, ClientStep
    <3>2. LastWord(c, t)
      BY <2>1, <3>1 DEF LastWordIsTrue, Following, Receiving
    <3> QED BY <2>1, <3>1, <3>2, LastWordKept
  <2>3. CASE c = d /\ SeedClient(c)
    <3>1. Following(c)
      BY <1>1, <2>3 DEF SeedClient, Following, Receiving, ClientType, Connection
    <3> QED BY <1>1, <2>1, <2>3, <3>1, LastWordAfterSeed DEF LastWordIsTrue
  <2>4. CASE c = d /\ Deliver(c)
    <3>1. Following(c)
      BY <2>4 DEF Deliver, Following, Receiving
    <3> QED BY <1>1, <2>1, <2>4, <3>1, LastWordAfterDelivery DEF LastWordIsTrue
  <2>5. CASE c = d /\ SubscribeClient(c)
    <3>1. client'[c] = [Offline EXCEPT !.pc = "subscribed"]
      BY <1>1, <2>5 DEF SubscribeClient, ClientType
    <3>2. client'[c].rx = <<>> /\ client'[c].pc = "subscribed"
      BY <3>1, OfflineType
    <3>3. RxSays(c, t)' /\ ViewSays(c, t)'
      BY <3>2 DEF RxSays, ViewSays
    <3> QED BY <2>1, <3>3 DEF LastWord, DiffsCurrent, Sending
  <2>6. CASE c = d /\ (LagClose(c) \/ Disconnect(c))
    <3>1. client'[c].pc \in {"closed", "off"}
      BY <1>1, <2>6, OfflineType DEF LagClose, Disconnect, ClientType
    <3> QED BY <3>1 DEF Following, Receiving
  <2> QED BY <1>10, <2>2, <2>3, <2>4, <2>5, <2>6
<1> QED BY <1>2, <1>3, <1>4, <1>6, <1>8, <1>9, <1>10 DEF Next

\* Snapshot-then-diffs is sound with one producer: a client that has received all
\* that was sent to it holds exactly the cached balances, whenever it subscribed, was
\* seeded, or a token was evicted and added again.  With both watcher tasks running it
\* is not: their broadcasts need not leave in the order of their merges.
THEOREM CaughtUpClientsAgree ==
    ASSUME LoneProducer
    PROVE  Spec => []Converged
<1> DEFINE Inv == FeedInv /\ DiffsCurrent /\ LastWordIsTrue
<1>1. Init => Inv
  <2> SUFFICES ASSUME Init PROVE Inv
    OBVIOUS
  <2>1. DOMAIN snapshot = {}
    BY EmptyMap DEF Init
  <2> QED BY <2>1, FeedInit DEF DiffsCurrent, LastWordIsTrue
<1>2. Inv /\ [Next]_vars => Inv'
  BY FeedStep, DiffsCurrentStep, LastWordStep
<1>3. Inv => Converged
  <2> SUFFICES ASSUME Inv, NEW c \in Client, CaughtUp(c), NEW t \in DOMAIN snapshot
               PROVE  Agrees(c, t)
    BY DEF Converged
  <2>1. LastWord(c, t)
    BY DEF LastWordIsTrue, CaughtUp, Following, Receiving
  <2>2. ViewSays(c, t)
    BY <2>1 DEF LastWord, CaughtUp, Sending
  <2> QED BY <2>2 DEF ViewSays, CaughtUp
<1> QED BY <1>1, <1>2, <1>3, PTL DEF Spec

-----------------------------------------------------------------------------
(* What both producers together still promise a client.                    *)

\* Every amount is one the owner had at some block of the chain.
OnChain(ch, balances) ==
    \A t \in DOMAIN balances : \E b \in 1 .. Len(ch) : balances[t] = ch[b][t]

DiffsReal == \A p \in Producer : task[p].pc = "send" => OnChain(chain, task[p].diff)
EventsReal ==
    \A c \in Client : ~client[c].lagged =>
        \A i \in DOMAIN client[c].rx : OnChain(chain, client[c].rx[i].balances)
ViewsReal == \A c \in Client : OnChain(chain, view[c])
ToldIsHeld == \A c \in Client : \A x \in told[c] : x[1] \in DOMAIN view[c]

RealInv == DiffsReal /\ EventsReal /\ ViewsReal /\ ToldIsHeld

\* Blocks are only added to the chain.
LEMMA OnChainKept ==
    ASSUME TypeOK, [Next]_vars
    PROVE  \A balances : OnChain(chain, balances) => OnChain(chain', balances)
<1>1. CASE chain' = chain
  BY <1>1
<1>2. CASE NewBlock
  BY <1>2, BlocksKept DEF OnChain, head
<1>3. chain' = chain \/ NewBlock
  BY ZenonT(60) DEF Next, vars, SetWatchedTokens, EvictUnwatched, PutDropped, StartRead, Fetch,
         MergeAnswer, SendDiff, StopProducer, ChunkFails, QueueFails, SubscribeClient, SeedClient,
         Deliver, LagClose, Disconnect
<1> QED BY <1>1, <1>2, <1>3

\* The diff of a merge holds amounts of the block that was read.
LEMMA MergeDiffReal ==
    ASSUME FeedInv, NEW p \in Producer, MergeAnswer(p), task'[p].pc = "send"
    PROVE  OnChain(chain, task'[p].diff)
<1>1. TypeOK /\ AnswersTrue /\ TaskType /\ FeedType
  BY TypeParts DEF FeedInv
<1> PICK n : n = task[p].block
  OBVIOUS
<1> PICK b : b = task[p].answer
  OBVIOUS
<1>2. /\ n \in 1 .. head /\ n \in 1 .. MaxBlock /\ b \in Balances /\ snapshot \in Snapshot
      /\ \A t \in DOMAIN b : b[t] = chain[n][t]
  BY <1>1, FeedAssumption DEF MergeAnswer, AnswersTrue, FeedType, TaskType, Task
<1>3. task'[p].diff = Diff(snapshot, b, n)
  BY <1>1, <1>2, MergeLeaves
<1>4. \A t \in DOMAIN Diff(snapshot, b, n) : t \in DOMAIN b /\ Diff(snapshot, b, n)[t] = b[t]
  BY <1>2, DiffSays
<1> QED BY <1>2, <1>3, <1>4 DEF OnChain, head

\* A producer that is to send a diff has just merged it or already had it.
LEMMA DiffsRealStep ==
    ASSUME FeedInv, RealInv, [Next]_vars
    PROVE  DiffsReal'
<1> SUFFICES ASSUME NEW p \in Producer, task'[p].pc = "send"
             PROVE  OnChain(chain', task'[p].diff)
  BY DEF DiffsReal
<1>1. TypeOK /\ TaskType
  BY TypeParts DEF FeedInv
<1>2. CASE task'[p] = task[p]
  <2>1. OnChain(chain, task[p].diff)
    BY <1>2 DEF RealInv, DiffsReal
  <2> QED BY <1>1, <1>2, <2>1, OnChainKept
<1>3. CASE MergeAnswer(p)
  <2>1. OnChain(chain, task'[p].diff)
    BY <1>3, MergeDiffReal
  <2> QED BY <1>1, <2>1, OnChainKept
<1>4. task'[p] = task[p] \/ MergeAnswer(p)
  <2>1. ASSUME NEW q \in Producer, StartRead(q) \/ Fetch(q) \/ StopProducer(q)
        PROVE  task'[p] = task[p]
    BY <1>1, <2>1, QuietStep
  <2>2. ASSUME NEW q \in Producer, MergeAnswer(q), q # p PROVE task'[p] = task[p]
    <3>1. task[q].block \in 1 .. MaxBlock
      BY <1>1, <2>2, TypeParts, FeedAssumption DEF FeedInv, MergeAnswer, AnswersTrue, FeedType
    <3> QED BY <1>1, <2>2, <3>1, MergeLeaves
  <2>3. ASSUME NEW q \in Producer, SendDiff(q) PROVE task'[p] = task[p]
    BY <1>1, <2>3, SendDiffTask
  <2>4. CASE ChunkFails
    BY <1>1, <2>4, ChunkFailsTask
  <2>5. CASE QueueFails
    BY <1>1, <2>5, QueueFailsTask
  <2>6. CASE \/ UNCHANGED vars \/ NewBlock \/ EvictUnwatched \/ PutDropped
             \/ \E new \in WatchList : SetWatchedTokens(new)
    BY <2>6 DEF vars, NewBlock, EvictUnwatched, PutDropped, SetWatchedTokens
  <2>7. ASSUME NEW c \in Client,
               SubscribeClient(c) \/ SeedClient(c) \/ Deliver(c) \/ LagClose(c) \/ Disconnect(c)
        PROVE  task'[p] = task[p]
    BY <1>1, <2>7, ClientStep
  <2> QED BY <2>1, <2>2, <2>3, <2>4, <2>5, <2>6, <2>7 DEF Next
<1> QED BY <1>2, <1>3, <1>4

\* A receiver holds nothing but the error and the diffs that were sent.
LEMMA EventsRealStep ==
    ASSUME FeedInv, RealInv, [Next]_vars
    PROVE  EventsReal'
<1>1. TypeOK /\ ClientType /\ \A balances : OnChain(chain, balances) => OnChain(chain', balances)
  BY TypeParts, OnChainKept DEF FeedInv
<1> SUFFICES ASSUME NEW c \in Client, ~client'[c].lagged, NEW i \in DOMAIN client'[c].rx
             PROVE  OnChain(chain, client'[c].rx[i].balances)
  BY <1>1 DEF EventsReal
<1>2. ~client[c].lagged => \A j \in DOMAIN client[c].rx : OnChain(chain, client[c].rx[j].balances)
  BY DEF RealInv, EventsReal
<1>3. client[c] \in Connection /\ client[c].rx \in Seq(Event)
  BY <1>1 DEF ClientType, Connection
<1>4. CASE client'[c] = client[c]
  BY <1>2, <1>4
<1>5. ASSUME NEW e \in Event, Broadcast(e), OnChain(chain, e.balances)
      PROVE  OnChain(chain, client'[c].rx[i].balances)
  <2>1. CASE ~Receiving(c)
    BY <1>1, <1>4, <1>5, <2>1, BroadcastAppends
  <2>2. CASE Receiving(c)
    <3>1. ~client[c].lagged /\ client'[c].rx = Append(client[c].rx, e)
      BY <1>1, <1>5, <2>2, BroadcastAppends
    <3>2. \/ i \in DOMAIN client[c].rx /\ client'[c].rx[i] = client[c].rx[i]
          \/ client'[c].rx[i] = e
      BY <1>3, <3>1, SMTT(60)
    <3> QED BY <1>2, <1>5, <3>1, <3>2
  <2> QED BY <2>1, <2>2
<1>6. OnChain(chain, Error.balances)
  BY EmptyMap DEF OnChain, Error
<1>7. ASSUME NEW p \in Producer, SendDiff(p) PROVE OnChain(chain, client'[c].rx[i].balances)
  <2>1. Update(task[p].diff) \in Event /\ Update(task[p].diff).balances = task[p].diff
    BY <1>1, <1>7, SendDiffTask
  <2>2. OnChain(chain, task[p].diff)
    BY <1>7 DEF RealInv, DiffsReal, SendDiff
  <2> QED BY <1>5, <1>7, <2>1, <2>2 DEF SendDiff
<1>8. CASE ChunkFails \/ QueueFails
  <2>1. Broadcast(Error) /\ Error \in Event
    BY <1>8, EventType DEF ChunkFails, QueueFails
  <2> QED BY <1>5, <1>6, <2>1
<1>9. ASSUME NEW d \in Client,
             SubscribeClient(d) \/ SeedClient(d) \/ Deliver(d) \/ LagClose(d) \/ Disconnect(d)
      PROVE  OnChain(chain, client'[c].rx[i].balances)
  <2>1. CASE c # d
    BY <1>1, <1>4, <1>9, <2>1, ClientStep
  <2>2. CASE c = d /\ (SubscribeClient(d) \/ LagClose(d) \/ Disconnect(d))
    <3>1. client'[c].rx = <<>>
      BY <1>1, <2>2, OfflineType DEF ClientType, SubscribeClient, LagClose, Disconnect
    <3> QED BY <3>1
  <2>3. CASE c = d /\ SeedClient(d)
    <3>1. client'[c].rx = client[c].rx /\ client'[c].lagged = client[c].lagged
      BY <1>1, <1>3, <2>3 DEF ClientType, Connection, SeedClient
    <3> QED BY <1>2, <3>1
  <2>4. CASE c = d /\ Deliver(d)
    <3>1. client'[c].rx = Tail(client[c].rx) /\ ~client[c].lagged /\ client[c].rx # <<>>
      BY <1>1, <1>3, <2>4 DEF ClientType, Connection, Deliver
    <3>2. i + 1 \in DOMAIN client[c].rx /\ client'[c].rx[i] = client[c].rx[i + 1]
      BY <1>3, <3>1, SMTT(60)
    <3> QED BY <1>2, <3>1, <3>2
  <2> QED BY <1>9, <2>1, <2>2, <2>3, <2>4
<1>10. CASE \/ UNCHANGED vars \/ NewBlock \/ PutDropped \/ EvictUnwatched
            \/ \E new \in WatchList : SetWatchedTokens(new)
            \/ \E p \in Producer : StartRead(p) \/ Fetch(p) \/ StopProducer(p) \/ MergeAnswer(p)
  <2>1. client' = client
    BY <1>10, ZenonT(60) DEF vars, NewBlock, PutDropped, EvictUnwatched, SetWatchedTokens,
           StartRead, Fetch, StopProducer, MergeAnswer
  <2> QED BY <1>4, <2>1
<1> QED BY <1>7, <1>8, <1>9, <1>10 DEF Next

\* A client is told the snapshot and then diffs, and forgets nothing it was told.
LEMMA TellReal ==
    ASSUME TypeOK, RealInv, NEW c \in Client, NEW b \in Balances, OnChain(chain, b), TellAll(c, b)
    PROVE  OnChain(chain, view'[c]) /\ \A x \in told'[c] : x[1] \in DOMAIN view'[c]
<1>1. ClientType /\ view[c] \in Balances
  BY TypeParts DEF ClientType
<1>2. view'[c] = Overlay(view[c], b) /\ told'[c] = told[c] \cup {<<t, b[t]>> : t \in DOMAIN b}
  BY <1>1, TellAllTells
<1>3. /\ DOMAIN view'[c] = DOMAIN view[c] \cup DOMAIN b
      /\ \A t \in DOMAIN view[c] \cup DOMAIN b :
            view'[c][t] = IF t \in DOMAIN b THEN b[t] ELSE view[c][t]
  <2> DEFINE o == Overlay(view[c], b)
  <2>1. /\ DOMAIN o = DOMAIN view[c] \cup DOMAIN b
        /\ \A t \in DOMAIN view[c] \cup DOMAIN b : o[t] = IF t \in DOMAIN b THEN b[t] ELSE view[c][t]
    BY <1>1, OverlayType
  <2>2. view'[c] = o
    BY <1>2
  <2> HIDE DEF o
  <2> QED BY <2>1, <2>2
<1>4. OnChain(chain, view[c]) /\ \A x \in told[c] : x[1] \in DOMAIN view[c]
  BY DEF RealInv, ViewsReal, ToldIsHeld
<1>5. OnChain(chain, view'[c])
  BY <1>3, <1>4 DEF OnChain
<1>6. ASSUME NEW x \in told'[c] PROVE x[1] \in DOMAIN view'[c]
  <2>1. CASE x \in told[c]
    BY <1>3, <1>4, <2>1
  <2>2. CASE x \notin told[c]
    <3>1. PICK t \in DOMAIN b : x = <<t, b[t]>>
      BY <1>2, <2>2
    <3> QED BY <1>3, <3>1
  <2> QED BY <2>1, <2>2
<1> QED BY <1>5, <1>6

\* Only the seed and a delivered event change what a client holds.
LEMMA ViewsRealStep ==
    ASSUME FeedInv, RealInv, [Next]_vars
    PROVE  ViewsReal' /\ ToldIsHeld'
<1>1. /\ TypeOK /\ ClientType /\ FeedType
      /\ \A balances : OnChain(chain, balances) => OnChain(chain', balances)
  BY TypeParts, OnChainKept DEF FeedInv
<1> SUFFICES ASSUME NEW c \in Client
             PROVE  OnChain(chain, view'[c]) /\ \A x \in told'[c] : x[1] \in DOMAIN view'[c]
  BY <1>1 DEF ViewsReal, ToldIsHeld
<1>2. CASE view'[c] = view[c] /\ told'[c] = told[c]
  BY <1>2 DEF RealInv, ViewsReal, ToldIsHeld
<1>3. CASE SeedClient(c)
  <2>1. Amounts(snapshot) \in Balances /\ TellAll(c, Amounts(snapshot))
    BY <1>1, <1>3, AmountsType DEF FeedType, SeedClient
  <2>2. OnChain(chain, Amounts(snapshot))
    BY <1>1, AmountsType DEF FeedInv, FeedType, LabelsKnown, SnapshotTrue, OnChain, head
  <2> QED BY <1>1, <2>1, <2>2, TellReal
<1>4. CASE Deliver(c)
  <2>1. client[c].rx \in Seq(Event) /\ client[c].rx # <<>> /\ ~client[c].lagged
    BY <1>1, <1>4 DEF ClientType, Connection, Deliver
  <2>2. /\ 1 \in DOMAIN client[c].rx /\ Head(client[c].rx) = client[c].rx[1]
        /\ Head(client[c].rx) \in Event
    BY <2>1
  <2>3. Head(client[c].rx).balances \in Balances /\ OnChain(chain, Head(client[c].rx).balances)
    BY <2>1, <2>2 DEF Event, RealInv, EventsReal
  <2>4. TellAll(c, Head(client[c].rx).balances)
    BY <1>4 DEF Deliver
  <2> QED BY <1>1, <2>3, <2>4, TellReal
<1>5. CASE Disconnect(c)
  <2>1. view'[c] = Empty /\ told'[c] = {}
    BY <1>1, <1>5 DEF ClientType, Disconnect
  <2>2. DOMAIN Empty = {}
    BY EmptyMap
  <2> HIDE DEF Empty
  <2> QED BY <2>1, <2>2 DEF OnChain
<1>6. \/ view'[c] = view[c] /\ told'[c] = told[c]
      \/ SeedClient(c) \/ Deliver(c) \/ Disconnect(c)
  <2>1. ASSUME NEW d \in Client, d # c,
               SubscribeClient(d) \/ SeedClient(d) \/ Deliver(d) \/ LagClose(d) \/ Disconnect(d)
        PROVE  view'[c] = view[c] /\ told'[c] = told[c]
    BY <1>1, <2>1, ClientStep
  <2>2. CASE SubscribeClient(c) \/ LagClose(c)
    BY <2>2 DEF SubscribeClient, LagClose
  <2>3. CASE \/ UNCHANGED vars \/ NewBlock \/ PutDropped \/ EvictUnwatched
             \/ ChunkFails \/ QueueFails
             \/ \E new \in WatchList : SetWatchedTokens(new)
             \/ \E p \in Producer :
                   StartRead(p) \/ Fetch(p) \/ StopProducer(p) \/ MergeAnswer(p) \/ SendDiff(p)
    BY <2>3, ZenonT(60) DEF vars, NewBlock, PutDropped, EvictUnwatched, ChunkFails, QueueFails,
           SetWatchedTokens, StartRead, Fetch, StopProducer, MergeAnswer, SendDiff
  <2> QED BY <2>1, <2>2, <2>3, ZenonT(60) DEF Next
<1> QED BY <1>2, <1>3, <1>4, <1>5, <1>6

\* The invariant holds at the start and is kept by every step.
LEMMA RealInvariant == Spec => []RealInv
<1>1. ASSUME Init PROVE RealInv
  <2>1. /\ \A p \in Producer : task[p].pc = "idle"
        /\ \A c \in Client : client[c].rx = <<>> /\ told[c] = {} /\ view[c] = Empty
    BY <1>1, IdleTaskType, OfflineType DEF Init
  <2>2. DOMAIN Empty = {}
    BY EmptyMap
  <2> HIDE DEF Empty
  <2> QED BY <2>1, <2>2 DEF RealInv, DiffsReal, EventsReal, ViewsReal, ToldIsHeld, OnChain
<1>2. ASSUME FeedInv, RealInv, [Next]_vars PROVE RealInv'
  BY <1>2, DiffsRealStep, EventsRealStep, ViewsRealStep DEF RealInv
<1> QED BY <1>1, <1>2, FeedInvariant, PTL DEF Spec

\* Whatever the order of the broadcasts, an amount that a client holds for a token is
\* one that the owner had at some block: stale answers, evictions and lost events never
\* combine into one that was never there.
THEOREM ClientsSeeRealAmounts == Spec => []ViewsReal
BY RealInvariant, PTL DEF RealInv

\* The worst that two producers do to a client that has received everything sent to it:
\* it lacks no cached token, has been told the cached amount, and if it now holds another
\* one, that is an amount the owner had.
OutOfOrderAtWorst ==
    \A c \in Client : CaughtUp(c) =>
        \A t \in DOMAIN snapshot :
            /\ <<t, snapshot[t].amount>> \in told[c]
            /\ t \in DOMAIN view[c]
            /\ \E b \in 1 .. head : view[c][t] = chain[b][t]

\* Converged fails with both watcher tasks because their broadcasts may be swapped, and
\* for no other reason: no diff is missing, no amount is made up.
THEOREM RaceCostsOnlyTheOrder == Spec => []OutOfOrderAtWorst
<1>1. ASSUME EveryChangeTold, RealInv PROVE OutOfOrderAtWorst
  <2> SUFFICES ASSUME NEW c \in Client, CaughtUp(c), NEW t \in DOMAIN snapshot
               PROVE  /\ <<t, snapshot[t].amount>> \in told[c]
                      /\ t \in DOMAIN view[c]
                      /\ \E b \in 1 .. head : view[c][t] = chain[b][t]
    BY DEF OutOfOrderAtWorst
  <2>1. Reaches(c, t)
    BY <1>1, ReachesEveryone DEF CaughtUp, Listening
  <2>2. ~Waiting(c, t) /\ \A p \in Producer : ~Held(p, t)
    BY DEF CaughtUp, Waiting, Held
  <2>3. <<t, snapshot[t].amount>> \in told[c]
    BY <2>1, <2>2 DEF Reaches
  <2>4. t \in DOMAIN view[c]
    BY <1>1, <2>3 DEF RealInv, ToldIsHeld
  <2>5. \E b \in 1 .. head : view[c][t] = chain[b][t]
    BY <1>1, <2>4 DEF RealInv, ViewsReal, OnChain, head
  <2> QED BY <2>3, <2>4, <2>5
<1> QED BY <1>1, NoDiffLost, RealInvariant, PTL
=============================================================================
