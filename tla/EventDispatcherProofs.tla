------------------------ MODULE EventDispatcherProofs ------------------------
(***************************************************************************)
(* Theorems about the block cursor of the event dispatcher, for any chain  *)
(* length, number of reorgs, channel capacity, backfill cap, chunk size    *)
(* and set of log sources.                                                 *)
(***************************************************************************)
EXTENDS EventDispatcher, Extrema, TLAPS

-----------------------------------------------------------------------------
(* plan_fetch, the chunks and the bisection.                               *)

\* A chunk starts where it is asked to and stays within the plan.
LEMMA ChunkBounds ==
    ASSUME NEW from \in Nat, NEW head \in Nat, from <= head
    PROVE  Chunk(from, head).from = from /\ Chunk(from, head).to \in from .. head
<1> DEFINE T == {head, from + ChunkBlocks - 1}
<1>1. ChunkBlocks \in Nat /\ ChunkBlocks >= 1
  BY DispatcherAssumption
<1>2. T \subseteq Nat /\ T # {}
  BY <1>1
<1>3. Min(T) \in T /\ \A y \in T : Min(T) <= y
  BY <1>2, MinIsLeast
<1>4. Min(T) \in from .. head
  BY <1>1, <1>3
<1> QED BY <1>4 DEF Chunk

\* The plan starts after the cursor and no later than the head it is made for.
LEMMA FetchFromBounds ==
    ASSUME latest_processed_block \in Nat, NEW incoming \in Block, ~IsStale(incoming)
    PROVE  FetchFrom(incoming) \in latest_processed_block + 1 .. incoming
<1>1. incoming \in Nat /\ incoming >= 1 /\ MaxBlockLag \in Nat /\ MaxBlockLag >= 1
  BY DispatcherAssumption DEF Block
<1>2. CASE latest_processed_block = 0
  BY <1>1, <1>2 DEF FetchFrom
<1>3. CASE latest_processed_block # 0
  <2>1. latest_processed_block < incoming
    BY <1>1, <1>3 DEF IsStale
  <2>2. SaturatingSub(incoming, MaxBlockLag) + 1 \in 0 .. incoming
    BY <1>1 DEF SaturatingSub
  <2> DEFINE T == {latest_processed_block + 1, SaturatingSub(incoming, MaxBlockLag) + 1}
  <2>3. T \subseteq 0 .. incoming /\ T # {}
    BY <1>1, <2>1, <2>2
  <2>4. Max(T) \in T /\ \A y \in T : Max(T) >= y
    BY <1>1, <2>3, MaxIsGreatest
  <2>5. FetchFrom(incoming) = Max(T)
    BY <1>3 DEF FetchFrom
  <2>6. Max(T) \in 0 .. incoming /\ Max(T) >= latest_processed_block + 1
    BY <2>3, <2>4
  <2> QED BY <1>1, <2>5, <2>6
<1> QED BY <1>2, <1>3

\* Draining the channel yields the highest head in it.
LEMMA NewestHeadIsHighest ==
    ASSUME blocks \in Seq(Block), blocks # <<>>
    PROVE  NewestHead \in Block /\ \A i \in DOMAIN blocks : blocks[i] <= NewestHead
<1>1. ToSet(blocks) \subseteq Block /\ blocks[1] \in ToSet(blocks)
  BY DEF ToSet
<1>2. ToSet(blocks) \subseteq 0 .. MaxBlock /\ MaxBlock \in Nat
  BY <1>1, WatcherAssumption DEF Block
<1>3. /\ Max(ToSet(blocks)) \in ToSet(blocks)
      /\ \A y \in ToSet(blocks) : Max(ToSet(blocks)) >= y
  BY <1>1, <1>2, MaxIsGreatest
<1>4. \A i \in DOMAIN blocks : blocks[i] \in ToSet(blocks)
  BY DEF ToSet
<1> QED BY <1>1, <1>2, <1>3, <1>4 DEF NewestHead, Block

\* The halves of a range are adjacent, not empty, and together the range.
LEMMA HalvesPartition ==
    ASSUME NEW range \in Interval, range.from < range.to
    PROVE  \E older, newer \in Interval :
              /\ Halves(range) = <<older, newer>>
              /\ older.from = range.from /\ older.from <= older.to
              /\ newer.from = older.to + 1 /\ newer.from <= newer.to
              /\ newer.to = range.to
<1> DEFINE mid == range.from + (range.to - range.from) \div 2
<1>1. /\ range.from \in Nat /\ range.to \in Nat /\ range.from >= 1 /\ range.to <= MaxBlock
      /\ MaxBlock \in Nat
  BY WatcherAssumption DEF Interval, Block
<1>2. mid \in Nat /\ range.from <= mid /\ mid < range.to
  BY <1>1
<1> DEFINE older == [from |-> range.from, to |-> mid]
           newer == [from |-> mid + 1, to |-> range.to]
<1>3. Halves(range) = <<older, newer>>
  BY DEF Halves
<1> HIDE DEF mid
<1>4. older \in Interval /\ newer \in Interval
  BY <1>1, <1>2 DEF Interval, Block
<1> QED BY <1>1, <1>2, <1>3, <1>4

\* The stack of fetch_range_with_bisect: ranges in ascending order, without a gap or
\* an overlap, that end at `end`.
StackInv(s, end) ==
    /\ \A i \in DOMAIN s : s[i].from <= s[i].to
    /\ \A i \in DOMAIN s : i + 1 \in DOMAIN s => s[i + 1].from = s[i].to + 1
    /\ \A i, j \in DOMAIN s : i < j => s[i].to < s[j].from
    /\ s # <<>> => s[Len(s)].to = end

\* What remains to be fetched starts here.
Bottom(s, end) == IF s = <<>> THEN end + 1 ELSE Head(s).from

\* Taking the first range off the stack.
LEMMA StackPop ==
    ASSUME NEW end \in Nat, NEW s \in Seq(Interval), s # <<>>, StackInv(s, end)
    PROVE  /\ Tail(s) \in Seq(Interval) /\ StackInv(Tail(s), end)
           /\ Head(s) \in Interval /\ Head(s).from <= Head(s).to
           /\ Bottom(s, end) = Head(s).from
           /\ Bottom(Tail(s), end) = Head(s).to + 1
<1> PICK n : n = Len(s)
  OBVIOUS
<1> PICK t : t = Tail(s)
  OBVIOUS
<1>1. /\ n \in Nat /\ n >= 1 /\ DOMAIN s = 1 .. n
      /\ t \in Seq(Interval) /\ Len(t) = n - 1 /\ DOMAIN t = 1 .. n - 1
      /\ \A i \in 1 .. n - 1 : t[i] = s[i + 1]
      /\ Head(s) = s[1] /\ s[1] \in Interval
  OBVIOUS
<1>2. StackInv(t, end)
  <2>1. \A i \in 1 .. n - 1 : i + 1 \in 1 .. n
    BY <1>1
  <2>2. \A i \in DOMAIN t : t[i].from <= t[i].to
    BY <1>1, <2>1 DEF StackInv
  <2>3. ASSUME NEW i \in DOMAIN t, i + 1 \in DOMAIN t
        PROVE  t[i + 1].from = t[i].to + 1
    <3>1. i + 1 \in DOMAIN s /\ (i + 1) + 1 \in DOMAIN s
      BY <1>1, <2>1, <2>3
    <3> QED BY <1>1, <2>3, <3>1 DEF StackInv
  <2>4. ASSUME NEW i \in DOMAIN t, NEW j \in DOMAIN t, i < j
        PROVE  t[i].to < t[j].from
    <3>1. i + 1 \in DOMAIN s /\ j + 1 \in DOMAIN s /\ i + 1 < j + 1
      BY <1>1, <2>1, <2>4
    <3> QED BY <1>1, <3>1 DEF StackInv
  <2>5. ASSUME t # <<>> PROVE t[Len(t)].to = end
    <3>1. Len(t) \in 1 .. n - 1 /\ t[Len(t)] = s[n]
      BY <1>1, <2>5
    <3> QED BY <3>1 DEF StackInv
  <2> QED BY <2>2, <2>3, <2>4, <2>5 DEF StackInv
<1>3. Bottom(t, end) = s[1].to + 1
  <2>1. CASE t = <<>>
    <3>1. n = 1
      BY <1>1, <2>1, SMTT(60)
    <3> QED BY <1>1, <2>1, <3>1 DEF Bottom, StackInv
  <2>2. CASE t # <<>>
    <3>1. 2 \in 1 .. n /\ 1 \in 1 .. n - 1 /\ Head(t) = s[2]
      BY <1>1, <2>2
    <3>2. s[2].from = s[1].to + 1
      BY <1>1, <3>1 DEF StackInv
    <3> QED BY <2>2, <3>1, <3>2 DEF Bottom
  <2> QED BY <2>1, <2>2
<1>4. Head(s).from <= Head(s).to
  BY <1>1 DEF StackInv
<1> QED BY <1>1, <1>2, <1>3, <1>4 DEF Bottom

\* Splitting the first range leaves the same blocks on the stack, in the same order.
LEMMA StackSplit ==
    ASSUME NEW end \in Nat, NEW s \in Seq(Interval), s # <<>>, StackInv(s, end),
           Head(s).from < Head(s).to
    PROVE  LET t == Halves(Head(s)) \o Tail(s)
           IN  /\ t \in Seq(Interval) /\ StackInv(t, end)
               /\ Bottom(t, end) = Bottom(s, end)
<1> PICK n : n = Len(s)
  OBVIOUS
<1>1. /\ n \in Nat /\ n >= 1 /\ DOMAIN s = 1 .. n /\ Head(s) = s[1] /\ s[1] \in Interval
      /\ Tail(s) \in Seq(Interval) /\ Len(Tail(s)) = n - 1
      /\ \A i \in 1 .. n - 1 : Tail(s)[i] = s[i + 1]
  OBVIOUS
<1>2. \A i \in 1 .. n : s[i].from \in Nat /\ s[i].to \in Nat
  <2>1. \A r \in Interval : r.from \in Nat /\ r.to \in Nat
    BY DEF Interval, Block
  <2> QED BY <1>1, <2>1
<1>3. /\ \A i \in 1 .. n : s[i].from <= s[i].to
      /\ \A i \in 1 .. n : i + 1 \in 1 .. n => s[i + 1].from = s[i].to + 1
      /\ \A i, j \in 1 .. n : i < j => s[i].to < s[j].from
      /\ s[n].to = end
  BY <1>1 DEF StackInv
<1>4. PICK older, newer \in Interval :
        /\ Halves(Head(s)) = <<older, newer>>
        /\ older.from = s[1].from /\ older.from <= older.to
        /\ newer.from = older.to + 1 /\ newer.from <= newer.to
        /\ newer.to = s[1].to
  BY <1>1, HalvesPartition
<1> PICK t : t = <<older, newer>> \o Tail(s)
  OBVIOUS
<1>5. /\ t \in Seq(Interval) /\ Len(t) = n + 1 /\ DOMAIN t = 1 .. n + 1
      /\ t[1] = older /\ t[2] = newer
      /\ \A i \in 3 .. n + 1 : t[i] = s[i - 1] /\ i - 1 \in 2 .. n
  <2>1. <<older, newer>> \in Seq(Interval) /\ Len(<<older, newer>>) = 2
    OBVIOUS
  <2>2. t \in Seq(Interval) /\ Len(t) = n + 1
    BY <1>1, <2>1
  <2>3. \A i \in 3 .. n + 1 : t[i] = Tail(s)[i - 2] /\ i - 2 \in 1 .. n - 1 /\ (i - 2) + 1 = i - 1
    BY <1>1, <2>1
  <2> QED BY <1>1, <2>1, <2>2, <2>3
<1>6. /\ older.from \in Nat /\ older.to \in Nat /\ newer.from \in Nat /\ newer.to \in Nat
  BY SMTT(60) DEF Interval, Block
<1>7. \A i \in 1 .. n + 1 : i = 1 \/ i = 2 \/ i \in 3 .. n + 1
  BY <1>1
<1>8. \A i \in DOMAIN t : t[i].from <= t[i].to
  <2>1. \A i \in 3 .. n + 1 : t[i].from <= t[i].to
    <3> TAKE i \in 3 .. n + 1
    <3>1. t[i] = s[i - 1] /\ i - 1 \in 1 .. n
      BY <1>1, <1>5
    <3> QED BY <1>3, <3>1
  <2> QED BY <1>4, <1>5, <1>7, <2>1
<1>9. ASSUME NEW i \in DOMAIN t, i + 1 \in DOMAIN t
      PROVE  t[i + 1].from = t[i].to + 1
  <2>1. CASE i = 1
    BY <1>4, <1>5, <2>1
  <2>2. CASE i = 2
    <3>1. 2 \in 1 .. n /\ t[3] = s[2]
      BY <1>1, <1>5, <1>9, <2>2
    <3>2. 1 \in 1 .. n /\ 1 + 1 = 2
      BY <1>1
    <3>3. s[2].from = s[1].to + 1
      BY <1>3, <3>1, <3>2
    <3> QED BY <1>4, <1>5, <2>2, <3>1, <3>3
  <2>3. CASE i \in 3 .. n + 1
    <3>1. i - 1 \in DOMAIN s /\ (i - 1) + 1 \in DOMAIN s /\ t[i] = s[i - 1] /\ t[i + 1] = s[(i - 1) + 1]
      BY <1>1, <1>5, <1>9, <2>3
    <3> QED BY <3>1 DEF StackInv
  <2> QED BY <1>5, <1>7, <2>1, <2>2, <2>3
<1>10. ASSUME NEW i \in DOMAIN t, NEW j \in DOMAIN t, i < j
      PROVE  t[i].to < t[j].from
  <2>1. CASE i = 1 /\ j = 2
    BY <1>4, <1>5, <1>6, <2>1
  <2>2. CASE i \in 1 .. 2 /\ j \in 3 .. n + 1
    <3>1. t[i].to <= s[1].to
      <4>1. older.to <= newer.to
        BY <1>4, <1>6
      <4> QED BY <1>4, <1>5, <1>6, <2>2, <4>1
    <3>2. t[j] = s[j - 1] /\ j - 1 \in 1 .. n /\ 1 \in 1 .. n /\ 1 < j - 1
      BY <1>1, <1>5, <2>2
    <3>3. s[1].to < s[j - 1].from
      BY <1>3, <3>2
    <3>4. t[i].to \in Nat
      BY <1>5, <1>6, <2>2
    <3>5. s[1].to \in Nat /\ s[j - 1].from \in Nat
      BY <1>2, <3>2
    <3>6. t[i].to < s[j - 1].from
      BY <3>1, <3>3, <3>4, <3>5, SMTT(60)
    <3> QED BY <3>2, <3>6
  <2>3. CASE i \in 3 .. n + 1 /\ j \in 3 .. n + 1
    <3>1. t[i] = s[i - 1] /\ t[j] = s[j - 1]
      BY <1>5, <2>3
    <3>2. i - 1 \in 1 .. n /\ j - 1 \in 1 .. n /\ i - 1 < j - 1
      BY <1>1, <1>10, <2>3
    <3> QED BY <1>3, <3>1, <3>2
  <2> QED BY <1>1, <1>5, <1>10, <2>1, <2>2, <2>3, SMTT(60)
<1>11. t[Len(t)].to = end
  <2>1. s[n].to = end
    BY <1>3
  <2>2. CASE n = 1
    BY <1>4, <1>5, <2>1, <2>2
  <2>3. CASE n # 1
    <3>1. n + 1 \in 3 .. n + 1 /\ (n + 1) - 1 = n
      BY <1>1, <2>3
    <3> QED BY <1>5, <2>1, <3>1
  <2> QED BY <2>2, <2>3
<1>12. StackInv(t, end)
  BY <1>8, <1>9, <1>10, <1>11 DEF StackInv
<1>13. t # <<>> /\ Head(t) = older
  BY <1>1, <1>5
<1> QED BY <1>1, <1>4, <1>5, <1>12, <1>13 DEF Bottom

-----------------------------------------------------------------------------
(* Type correctness.                                                       *)

Transfer == [source : Source, block : Block]

DispatcherTypeOK ==
    /\ dispatcher \in {"starting", "idle", "fetch", "exited"}
    /\ is_active \in BOOLEAN
    /\ latest_processed_block \in 0 .. MaxBlock
    /\ plan \in [next : 0 .. MaxBlock, head : 0 .. MaxBlock]
    /\ pending \in [Source -> Seq(Interval)]
    /\ batch \in [Source -> SUBSET Block]
    /\ transfers \in Seq(Transfer)
    /\ Len(transfers) <= TransferCap
    /\ listener \in {"running", "gone"}
    /\ first \in 0 .. MaxBlock
    /\ handled \in [Source -> SUBSET Block]
    /\ lost \in [Source -> SUBSET Block]
    /\ skipped \subseteq Block

\* TypeOK is what the watcher and the dispatcher each say of their variables.
LEMMA TypeParts == TypeOK <=> WatcherTypeOK /\ DispatcherTypeOK
BY DEF TypeOK, DispatcherTypeOK, Transfer

\* The watcher's half, over `Block`.
WatcherShape ==
    /\ tip \in Block /\ reorgs \in 0 .. MaxReorgs
    /\ wire \in Seq(Block) /\ blocks \in Seq(Block) /\ Len(blocks) <= BlockChannelCap
    /\ ws \in {"connecting", "streaming", "checking", "down", "exited"}
    /\ connected \in BOOLEAN /\ on_connect \in BOOLEAN
    /\ dropped \in BOOLEAN /\ shutdown \in BOOLEAN
    /\ latest_block \in 0 .. MaxBlock

\* The watcher's types as membership in sets of functions and records.
LEMMA WatcherShapeIsType == WatcherTypeOK <=> WatcherShape
BY DEF WatcherTypeOK, WatcherShape, Block

\* Leaving `consume_until_disconnect`.
LEMMA DisconnectType ==
    ASSUME WatcherShape, NEW next \in {"down", "exited"}, Disconnect(next)
    PROVE  WatcherShape'
<1>1. <<>> \in Seq(Block) /\ FALSE \in BOOLEAN
  OBVIOUS
<1>2. /\ wire' = <<>> /\ ws' = next /\ connected' = FALSE /\ on_connect' = FALSE
      /\ UNCHANGED <<tip, reorgs, latest_block, blocks, dropped, shutdown>>
  BY DEF Disconnect, chainVars
<1> QED BY <1>1, <1>2 DEF WatcherShape

\* The watcher keeps its shape, and its channel its capacity.
LEMMA WatcherTypeStep ==
    ASSUME WatcherShape, WatcherNext
    PROVE  WatcherShape'
<1>1. CASE NewHead
  <2>1. tip' \in Block /\ reorgs' \in 0 .. MaxReorgs
    BY <1>1, WatcherAssumption DEF NewHead, WatcherShape, Block
  <2>2. wire' \in Seq(Block)
    BY <1>1, <2>1, SMTT(60) DEF NewHead, WatcherShape
  <2> QED BY <1>1, <2>1, <2>2 DEF NewHead, WatcherShape
<1>2. CASE SubscribeBlocks
  BY <1>2 DEF SubscribeBlocks, WatcherShape, chainVars
<1>3. CASE RecordConnected
  <2>1. Head(wire) \in Block /\ Tail(wire) \in Seq(Block)
    BY <1>3 DEF RecordConnected, WatcherShape
  <2>2. blocks' \in Seq(Block) /\ Len(blocks') <= BlockChannelCap /\ dropped' \in BOOLEAN
    <3>1. /\ blocks \in Seq(Block) /\ Len(blocks) <= BlockChannelCap
          /\ BlockChannelCap \in Nat
      BY WatcherAssumption DEF WatcherShape
    <3>2. CASE Len(blocks) = BlockChannelCap
      <4>1. dropped' = TRUE /\ blocks' = blocks
        BY <1>3, <3>2 DEF RecordConnected
      <4> QED BY <3>1, <4>1
    <3>3. CASE Len(blocks) # BlockChannelCap
      <4>1. dropped' = FALSE /\ blocks' = Append(blocks, Head(wire))
        BY <1>3, <3>3 DEF RecordConnected
      <4>2. Len(blocks) \in Nat /\ Len(blocks) + 1 <= BlockChannelCap
        BY <3>1, <3>3
      <4>3. /\ Append(blocks, Head(wire)) \in Seq(Block)
            /\ Len(Append(blocks, Head(wire))) = Len(blocks) + 1
        BY <2>1, <3>1
      <4> QED BY <4>1, <4>2, <4>3
    <3> QED BY <3>2, <3>3
  <2>3. wire' = Tail(wire) /\ connected' = TRUE /\ latest_block' = Head(wire)
    BY <1>3 DEF RecordConnected
  <2>4. UNCHANGED <<tip, reorgs, ws, on_connect, shutdown>>
    BY <1>3 DEF RecordConnected, chainVars
  <2>5. latest_block' \in 0 .. MaxBlock
    BY <2>1, <2>3, WatcherAssumption DEF Block
  <2> QED BY <2>1, <2>2, <2>3, <2>4, <2>5 DEF WatcherShape
<1>4. CASE StreamTerminated
  BY <1>4, DisconnectType DEF StreamTerminated
<1>5. CASE StallTimeout
  <2>1. CASE Disconnect("down")
    BY <2>1, DisconnectType
  <2>2. CASE ~Disconnect("down")
    BY <1>5, <2>2 DEF StallTimeout, WatcherShape, chainVars
  <2> QED BY <2>1, <2>2
<1>6. CASE ConfirmStall
  <2>1. CASE Disconnect("down")
    BY <2>1, DisconnectType
  <2>2. CASE ChainIdle
    BY <2>2 DEF ChainIdle, WatcherShape, chainVars
  <2> QED BY <1>6, <2>1, <2>2 DEF ConfirmStall
<1>7. CASE StallUnconfirmed
  BY <1>7, DisconnectType DEF StallUnconfirmed
<1>8. CASE Resubscribe
  BY <1>8 DEF Resubscribe, WatcherShape, chainVars
<1>9. CASE WatcherCancelled
  BY <1>9, DisconnectType DEF WatcherCancelled
<1> QED BY <1>1, <1>2, <1>3, <1>4, <1>5, <1>6, <1>7, <1>8, <1>9 DEF WatcherNext

-----------------------------------------------------------------------------
(* The frontier: the lowest block a source has neither settled nor passed. *)

ChunkEnd == Chunk(plan.next, plan.head).to
Frontier(src) ==
    IF dispatcher = "fetch" THEN Bottom(pending[src], ChunkEnd)
    ELSE latest_processed_block + 1

\* A cycle works on one chunk after the cursor; between two cycles nothing is left
\* over and the cursor has been set if a head was ever taken.
PlanInv ==
    /\ dispatcher = "fetch" =>
          /\ latest_processed_block < plan.next /\ plan.next <= plan.head /\ first # 0
          /\ \A src \in Source :
                plan.next <= Frontier(src) /\ StackInv(pending[src], ChunkEnd)
    /\ dispatcher # "fetch" =>
          /\ \A src \in Source : pending[src] = <<>> /\ batch[src] = {}
          /\ first = 0 <=> latest_processed_block = 0

\* From the first head to the frontier everything is accounted for, and nothing is
\* that lies beyond it.
Settled(src) == handled[src] \cup lost[src] \cup skipped
FrontierInv ==
    \A src \in Source :
        /\ first # 0 => first .. Frontier(src) - 1 \subseteq Settled(src)
        /\ \A b \in Settled(src) \cup batch[src] : b < Frontier(src)

\* What was sent on comes before what still waits, and before the frontier.
TransferInv ==
    \A i \in DOMAIN transfers :
        /\ transfers[i].block < Frontier(transfers[i].source)
        /\ \A b \in batch[transfers[i].source] : transfers[i].block < b

\* The newest head is behind the cursor, in the plan or in the channel.
HeadInv ==
    ~dropped => \/ latest_block <= latest_processed_block
                \/ dispatcher = "fetch" /\ latest_block <= plan.head
                \/ \E i \in DOMAIN blocks : latest_block <= blocks[i]

CursorInv == TypeOK /\ PlanInv /\ FrontierInv /\ TransferInv /\ OldestFirst /\ HeadInv

\* The end of the current chunk.
LEMMA ChunkEndBounds ==
    ASSUME TypeOK, PlanInv, dispatcher = "fetch"
    PROVE  /\ ChunkEnd \in plan.next .. plan.head
           /\ plan.next \in Block /\ plan.head \in Block
<1>1. /\ plan.next \in 0 .. MaxBlock /\ plan.head \in 0 .. MaxBlock /\ MaxBlock \in Nat
      /\ latest_processed_block \in 0 .. MaxBlock
  BY WatcherAssumption DEF TypeOK
<1>2. plan.next <= plan.head /\ latest_processed_block < plan.next
  BY DEF PlanInv
<1>3. plan.next \in Nat /\ plan.head \in Nat
  BY <1>1
<1>4. ChunkEnd \in plan.next .. plan.head
  BY <1>2, <1>3, ChunkBounds DEF ChunkEnd
<1> QED BY <1>1, <1>2, <1>4 DEF Block

\* The frontier is ahead of the cursor.
LEMMA FrontierAhead ==
    ASSUME TypeOK, PlanInv, NEW src \in Source
    PROVE  Frontier(src) \in Nat /\ latest_processed_block < Frontier(src)
<1>1. latest_processed_block \in Nat
  BY WatcherAssumption DEF TypeOK
<1>2. CASE dispatcher # "fetch"
  BY <1>1, <1>2 DEF Frontier
<1>3. CASE dispatcher = "fetch"
  <2>1. plan.next \in Nat /\ ChunkEnd \in Nat
    BY <1>3, ChunkEndBounds, WatcherAssumption DEF Block
  <2>2. pending[src] \in Seq(Interval)
    BY DEF TypeOK
  <2>3. Bottom(pending[src], ChunkEnd) \in Nat
    <3>1. CASE pending[src] = <<>>
      BY <2>1, <3>1 DEF Bottom
    <3>2. CASE pending[src] # <<>>
      <4>1. Head(pending[src]) \in Interval
        BY <2>2, <3>2
      <4> QED BY <3>2, <4>1 DEF Bottom, Interval, Block
    <3> QED BY <3>1, <3>2
  <2>4. plan.next <= Frontier(src) /\ latest_processed_block < plan.next
    BY <1>3 DEF PlanInv
  <2> QED BY <1>1, <1>3, <2>1, <2>3, <2>4 DEF Frontier
<1> QED BY <1>2, <1>3

\* How the frontier of a source moves within a chunk.
LEMMA SourceMoves ==
    ASSUME TypeOK, PlanInv, NEW src \in Source, Fetching(src), NEW s \in Seq(Interval),
           pending' = [pending EXCEPT ![src] = s], StackInv(s, ChunkEnd),
           Frontier(src) <= Bottom(s, ChunkEnd), Bottom(s, ChunkEnd) \in Nat,
           UNCHANGED <<dispatcher, plan, latest_processed_block, first>>
    PROVE  /\ dispatcher = "fetch" /\ PlanInv'
           /\ Frontier(src)' = Bottom(s, ChunkEnd)
           /\ \A o \in Source \ {src} : Frontier(o)' = Frontier(o)
<1>1. dispatcher = "fetch" /\ dispatcher' = "fetch"
  BY DEF PlanInv, Fetching
<1>2. pending \in [Source -> Seq(Interval)] /\ plan.next \in Nat
  BY <1>1, ChunkEndBounds, WatcherAssumption DEF TypeOK, Block
<1>3. ChunkEnd' = ChunkEnd
  BY DEF ChunkEnd
<1>4. pending'[src] = s /\ \A o \in Source \ {src} : pending'[o] = pending[o]
  BY <1>2
<1>5. Frontier(src)' = Bottom(s, ChunkEnd)
  BY <1>1, <1>3, <1>4 DEF Frontier
<1>6. \A o \in Source \ {src} : Frontier(o)' = Frontier(o)
  BY <1>1, <1>3, <1>4 DEF Frontier
<1>7. \A o \in Source : StackInv(pending'[o], ChunkEnd')
  BY <1>1, <1>3, <1>4 DEF PlanInv
<1>8. \A o \in Source : plan'.next <= Frontier(o)'
  <2>1. plan.next <= Frontier(src) /\ Frontier(src) \in Nat
    BY <1>1, FrontierAhead DEF PlanInv
  <2>2. plan.next <= Frontier(src)'
    BY <1>2, <1>5, <2>1
  <2> QED BY <1>1, <1>6, <2>2 DEF PlanInv
<1> QED BY <1>1, <1>5, <1>6, <1>7, <1>8 DEF PlanInv

\* Everything between the old and the new frontier is settled, and nothing else.
LEMMA FrontierMoves ==
    ASSUME TypeOK, PlanInv, FrontierInv, NEW src \in Source,
           Frontier(src)' \in Nat, Frontier(src) <= Frontier(src)',
           Settled(src)' = Settled(src) \cup (Frontier(src) .. Frontier(src)' - 1),
           \A b \in batch'[src] : b < Frontier(src)',
           \A o \in Source \ {src} : /\ Settled(o)' = Settled(o) /\ batch'[o] = batch[o]
                                     /\ Frontier(o)' = Frontier(o),
           first' = first
    PROVE  FrontierInv'
<1>1. Frontier(src) \in Nat /\ first \in Nat
  BY FrontierAhead, WatcherAssumption DEF TypeOK
<1>2. ASSUME first # 0, NEW b \in first .. Frontier(src)' - 1
      PROVE  b \in Settled(src)'
  <2>1. CASE b < Frontier(src)
    <3>1. b \in first .. Frontier(src) - 1
      BY <1>1, <1>2, <2>1
    <3> QED BY <1>2, <3>1 DEF FrontierInv
  <2>2. CASE ~(b < Frontier(src))
    <3>1. b \in Frontier(src) .. Frontier(src)' - 1
      BY <1>1, <1>2, <2>2
    <3> QED BY <3>1
  <2> QED BY <2>1, <2>2
<1>3. ASSUME NEW b \in Settled(src)' \cup batch'[src]
      PROVE  b < Frontier(src)'
  <2>1. CASE b \in Settled(src)
    <3>1. b < Frontier(src) /\ b \in Nat
      BY <2>1, WatcherAssumption DEF FrontierInv, Settled, TypeOK, Block
    <3> QED BY <1>1, <3>1
  <2>2. CASE b \in Frontier(src) .. Frontier(src)' - 1
    BY <1>1, <2>2
  <2> QED BY <1>3, <2>1, <2>2
<1>4. \A o \in Source \ {src} :
         /\ first' # 0 => first' .. Frontier(o)' - 1 \subseteq Settled(o)'
         /\ \A b \in Settled(o)' \cup batch'[o] : b < Frontier(o)'
  BY DEF FrontierInv
<1> QED BY <1>2, <1>3, <1>4 DEF FrontierInv

\* Events already sent stay before what is fetched later.
LEMMA TransferKept ==
    ASSUME TypeOK, PlanInv, TransferInv, OldestFirst, transfers' = transfers,
           \A src \in Source : /\ Frontier(src)' \in Nat /\ Frontier(src) <= Frontier(src)'
                               /\ batch'[src] \subseteq Nat
                               /\ \A b \in batch'[src] : b \in batch[src] \/ Frontier(src) <= b
    PROVE  TransferInv' /\ OldestFirst'
<1>1. OldestFirst'
  BY DEF OldestFirst
<1> SUFFICES ASSUME NEW i \in DOMAIN transfers
             PROVE  /\ transfers[i].block < Frontier(transfers[i].source)'
                    /\ \A b \in batch'[transfers[i].source] : transfers[i].block < b
  BY <1>1 DEF TransferInv
<1> PICK src : src = transfers[i].source
  OBVIOUS
<1>2. src \in Source /\ transfers[i].block \in Nat
  <2>1. transfers \in Seq(Transfer)
    BY DEF TypeOK, Transfer
  <2>2. transfers[i] \in Transfer
    BY <2>1
  <2> QED BY <2>2 DEF Transfer, Block
<1>3. /\ transfers[i].block < Frontier(src) /\ Frontier(src) \in Nat
      /\ \A b \in batch[src] : transfers[i].block < b
  BY <1>2, FrontierAhead DEF TransferInv
<1>4. Frontier(transfers[i].source)' = Frontier(src)'
  BY DEF Frontier
<1>5. transfers[i].block < Frontier(src)'
  BY <1>2, <1>3
<1>6. ASSUME NEW b \in batch'[src] PROVE transfers[i].block < b
  <2>1. b \in Nat /\ (b \in batch[src] \/ Frontier(src) <= b)
    BY <1>2
  <2> QED BY <1>2, <1>3, <2>1
<1> QED BY <1>4, <1>5, <1>6

\* Steps that move no frontier.
Still ==
    /\ UNCHANGED <<plan, pending, latest_processed_block, first, handled, lost, skipped>>
    /\ dispatcher = "fetch" <=> dispatcher' = "fetch"

\* A step that leaves the plan alone, and takes no log back, moves no frontier.
LEMMA StillKeeps ==
    ASSUME TypeOK, PlanInv, FrontierInv, Still,
           \A src \in Source : batch'[src] \subseteq batch[src]
    PROVE  /\ PlanInv' /\ FrontierInv'
           /\ \A src \in Source : Frontier(src)' = Frontier(src)
<1>1. ChunkEnd' = ChunkEnd
  BY DEF ChunkEnd, Still
<1>2. \A src \in Source : Frontier(src)' = Frontier(src) /\ Settled(src)' = Settled(src)
  BY <1>1 DEF Frontier, Settled, Still
<1>3. PlanInv'
  BY <1>1, <1>2 DEF PlanInv, Still
<1>4. FrontierInv'
  BY <1>2 DEF FrontierInv, Still
<1> QED BY <1>2, <1>3, <1>4

\* The same with the same batches and transfers.
LEMMA QuietKeeps ==
    ASSUME TypeOK, PlanInv, FrontierInv, TransferInv, OldestFirst, Still,
           UNCHANGED <<batch, transfers>>
    PROVE  PlanInv' /\ FrontierInv' /\ TransferInv' /\ OldestFirst'
<1>1. /\ PlanInv' /\ FrontierInv'
      /\ \A src \in Source : Frontier(src)' = Frontier(src)
  BY StillKeeps
<1>2. \A src \in Source : batch[src] \subseteq Nat
  BY WatcherAssumption DEF TypeOK, Block
<1> QED BY <1>1, <1>2, FrontierAhead, TransferKept

-----------------------------------------------------------------------------
(* The steps.                                                              *)

\* The newest head is not touched, the cursor does not go back.
LEMMA HeadKept ==
    ASSUME HeadInv, UNCHANGED <<latest_block, blocks, dropped, plan, latest_processed_block>>,
           dispatcher = "fetch" => dispatcher' = "fetch"
    PROVE  HeadInv'
BY DEF HeadInv

\* RangeFetched, RangeRejected and BlockLost take the range off the top of the stack.
LEMMA TopOfStack ==
    ASSUME TypeOK, PlanInv, NEW src \in Source, Fetching(src)
    PROVE  LET range == Head(pending[src])
               rest == Tail(pending[src])
           IN  /\ dispatcher = "fetch" /\ pending[src] \in Seq(Interval) /\ pending[src] # <<>>
               /\ StackInv(pending[src], ChunkEnd) /\ ChunkEnd \in Nat
               /\ range \in Interval /\ range.from \in Nat /\ range.to \in Nat
               /\ range.from <= range.to /\ Frontier(src) = range.from
               /\ Blocks(range) \subseteq Block
               /\ rest \in Seq(Interval) /\ StackInv(rest, ChunkEnd)
               /\ Bottom(rest, ChunkEnd) = range.to + 1
<1>1. dispatcher = "fetch" /\ pending[src] # <<>>
  BY DEF PlanInv, Fetching
<1>2. pending[src] \in Seq(Interval) /\ StackInv(pending[src], ChunkEnd)
  BY <1>1 DEF TypeOK, PlanInv
<1>3. ChunkEnd \in Nat
  BY <1>1, ChunkEndBounds, WatcherAssumption DEF Block
<1>4. /\ Tail(pending[src]) \in Seq(Interval) /\ StackInv(Tail(pending[src]), ChunkEnd)
      /\ Head(pending[src]) \in Interval
      /\ Head(pending[src]).from <= Head(pending[src]).to
      /\ Bottom(pending[src], ChunkEnd) = Head(pending[src]).from
      /\ Bottom(Tail(pending[src]), ChunkEnd) = Head(pending[src]).to + 1
  BY <1>1, <1>2, <1>3, StackPop
<1>5. \A r \in Interval : r.from \in Nat /\ r.to \in Nat /\ Blocks(r) \subseteq Block
  BY WatcherAssumption DEF Interval, Block, Blocks
<1> QED BY <1>1, <1>2, <1>3, <1>4, <1>5 DEF Frontier

\* A range is fetched.
LEMMA RangeFetchedStep ==
    ASSUME CursorInv, NEW src \in Source, RangeFetched(src)
    PROVE  CursorInv'
<1>1. TypeOK /\ PlanInv /\ FrontierInv /\ TransferInv /\ OldestFirst /\ HeadInv
  BY DEF CursorInv
<1> PICK range : range = Head(pending[src])
  OBVIOUS
<1> PICK rest : rest = Tail(pending[src])
  OBVIOUS
<1>2. Fetching(src)
  BY DEF RangeFetched
<1>3. /\ dispatcher = "fetch" /\ range.from \in Nat /\ range.to \in Nat
      /\ range.from <= range.to /\ Frontier(src) = range.from
      /\ Blocks(range) \subseteq Block
      /\ rest \in Seq(Interval) /\ StackInv(rest, ChunkEnd)
      /\ Bottom(rest, ChunkEnd) = range.to + 1
  BY <1>1, <1>2, TopOfStack
<1>4. PICK logs \in SUBSET Blocks(range) : batch' = [batch EXCEPT ![src] = logs]
  BY DEF RangeFetched
<1>5. /\ pending' = [pending EXCEPT ![src] = rest]
      /\ handled' = [handled EXCEPT ![src] = @ \cup Blocks(range)]
      /\ UNCHANGED <<dispatcher, is_active, latest_processed_block, plan, transfers,
                     listener, first, lost, skipped>>
      /\ UNCHANGED <<chainVars, watcherVars, shutdown>>
  BY DEF RangeFetched
<1>6. /\ pending \in [Source -> Seq(Interval)] /\ batch \in [Source -> SUBSET Block]
      /\ handled \in [Source -> SUBSET Block]
  BY <1>1 DEF TypeOK
<1>7. /\ pending' \in [Source -> Seq(Interval)]
      /\ batch' \in [Source -> SUBSET Block] /\ batch'[src] = logs
      /\ handled' \in [Source -> SUBSET Block]
      /\ handled'[src] = handled[src] \cup Blocks(range)
      /\ \A o \in Source \ {src} : batch'[o] = batch[o] /\ handled'[o] = handled[o]
  BY <1>3, <1>4, <1>5, <1>6
<1>8. TypeOK'
  <2>1. WatcherTypeOK'
    BY <1>1, <1>5 DEF TypeOK, WatcherTypeOK, chainVars, watcherVars
  <2> QED BY <1>1, <1>5, <1>7, <2>1 DEF TypeOK
<1>9. /\ PlanInv' /\ Frontier(src)' = range.to + 1
      /\ \A o \in Source \ {src} : Frontier(o)' = Frontier(o)
  <2>1. Frontier(src) <= Bottom(rest, ChunkEnd) /\ Bottom(rest, ChunkEnd) \in Nat
    BY <1>3
  <2> QED BY <1>1, <1>2, <1>3, <1>5, <2>1, SourceMoves
<1>10. FrontierInv'
  <2>1. Settled(src)' = Settled(src) \cup (Frontier(src) .. Frontier(src)' - 1)
    <3>1. Blocks(range) = Frontier(src) .. Frontier(src)' - 1
      BY <1>3, <1>9 DEF Blocks
    <3> QED BY <1>5, <1>7, <3>1 DEF Settled
  <2>2. \A o \in Source \ {src} : Settled(o)' = Settled(o)
    BY <1>5, <1>7 DEF Settled
  <2>3. \A b \in batch'[src] : b < Frontier(src)'
    <3>1. \A b \in logs : b < range.to + 1
      BY <1>3 DEF Blocks
    <3> QED BY <1>7, <1>9, <3>1
  <2>4. Frontier(src)' \in Nat /\ Frontier(src) <= Frontier(src)'
    BY <1>3, <1>9
  <2> QED BY <1>1, <1>5, <1>7, <1>9, <2>1, <2>2, <2>3, <2>4, FrontierMoves
<1>11. TransferInv' /\ OldestFirst'
  <2>1. ASSUME NEW o \in Source
        PROVE  /\ Frontier(o)' \in Nat /\ Frontier(o) <= Frontier(o)'
               /\ batch'[o] \subseteq Nat
               /\ \A b \in batch'[o] : b \in batch[o] \/ Frontier(o) <= b
    <3>1. batch'[o] \subseteq Nat /\ Frontier(o) \in Nat
      BY <1>1, <1>7, FrontierAhead, WatcherAssumption DEF Block
    <3>2. CASE o = src
      <4>1. \A b \in logs : Frontier(src) <= b
        BY <1>3 DEF Blocks
      <4> QED BY <1>3, <1>7, <1>9, <3>1, <3>2, <4>1, SMTT(60)
    <3>3. CASE o # src
      BY <1>7, <1>9, <3>1, <3>3
    <3> QED BY <3>2, <3>3
  <2> QED BY <1>1, <1>5, <2>1, TransferKept
<1>12. HeadInv'
  BY <1>1, <1>5, HeadKept DEF watcherVars
<1> QED BY <1>8, <1>9, <1>10, <1>11, <1>12 DEF CursorInv

\* A single block is given up.
LEMMA BlockLostStep ==
    ASSUME CursorInv, NEW src \in Source, BlockLost(src)
    PROVE  CursorInv'
<1>1. TypeOK /\ PlanInv /\ FrontierInv /\ TransferInv /\ OldestFirst /\ HeadInv
  BY DEF CursorInv
<1> PICK range : range = Head(pending[src])
  OBVIOUS
<1> PICK rest : rest = Tail(pending[src])
  OBVIOUS
<1>2. Fetching(src) /\ range.from = range.to
  BY DEF BlockLost
<1>3. /\ dispatcher = "fetch" /\ range \in Interval /\ range.from \in Nat
      /\ Frontier(src) = range.from
      /\ rest \in Seq(Interval) /\ StackInv(rest, ChunkEnd)
      /\ Bottom(rest, ChunkEnd) = range.from + 1
  BY <1>1, <1>2, TopOfStack
<1>4. /\ pending' = [pending EXCEPT ![src] = rest]
      /\ lost' = [lost EXCEPT ![src] = @ \cup {range.from}]
      /\ UNCHANGED <<dispatcher, is_active, latest_processed_block, plan, batch, transfers,
                     listener, first, handled, skipped>>
      /\ UNCHANGED <<chainVars, watcherVars, shutdown>>
  BY DEF BlockLost
<1>5. /\ pending \in [Source -> Seq(Interval)] /\ lost \in [Source -> SUBSET Block]
      /\ batch \in [Source -> SUBSET Block] /\ range.from \in Block
  BY <1>1, <1>3 DEF TypeOK, Interval
<1>6. /\ pending' \in [Source -> Seq(Interval)] /\ lost' \in [Source -> SUBSET Block]
      /\ lost'[src] = lost[src] \cup {range.from}
      /\ \A o \in Source \ {src} : lost'[o] = lost[o]
  BY <1>3, <1>4, <1>5
<1>7. TypeOK'
  <2>1. WatcherTypeOK'
    BY <1>1, <1>4 DEF TypeOK, WatcherTypeOK, chainVars, watcherVars
  <2> QED BY <1>1, <1>4, <1>6, <2>1 DEF TypeOK
<1>8. /\ PlanInv' /\ Frontier(src)' = range.from + 1
      /\ \A o \in Source \ {src} : Frontier(o)' = Frontier(o)
  <2>1. Frontier(src) <= Bottom(rest, ChunkEnd) /\ Bottom(rest, ChunkEnd) \in Nat
    BY <1>3
  <2> QED BY <1>1, <1>2, <1>3, <1>4, <2>1, SourceMoves
<1>9. Frontier(src)' \in Nat /\ Frontier(src) <= Frontier(src)'
  BY <1>3, <1>8
<1>10. \A o \in Source : Frontier(o) \in Nat /\ batch[o] \subseteq Nat
  BY <1>1, <1>5, FrontierAhead, WatcherAssumption DEF Block
<1>11. FrontierInv'
  <2>1. Settled(src)' = Settled(src) \cup (Frontier(src) .. Frontier(src)' - 1)
    <3>1. {range.from} = Frontier(src) .. Frontier(src)' - 1
      BY <1>3, <1>8
    <3> QED BY <1>4, <1>6, <3>1 DEF Settled
  <2>2. \A o \in Source \ {src} : Settled(o)' = Settled(o)
    BY <1>4, <1>6 DEF Settled
  <2>3. \A b \in batch'[src] : b < Frontier(src)'
    BY <1>2, <1>4 DEF Fetching
  <2> QED BY <1>1, <1>4, <1>8, <1>9, <2>1, <2>2, <2>3, FrontierMoves
<1>12. TransferInv' /\ OldestFirst'
  BY <1>1, <1>4, <1>8, <1>9, <1>10, TransferKept
<1>13. HeadInv'
  BY <1>1, <1>4, HeadKept DEF watcherVars
<1> QED BY <1>7, <1>8, <1>11, <1>12, <1>13 DEF CursorInv

\* Bisecting a range leaves the frontier of every source where it is.
LEMMA RejectedStays ==
    ASSUME TypeOK, PlanInv, NEW src \in Source, RangeRejected(src)
    PROVE  /\ pending' \in [Source -> Seq(Interval)] /\ PlanInv'
           /\ \A o \in Source : Frontier(o)' = Frontier(o)
<1> PICK s : s = Halves(Head(pending[src])) \o Tail(pending[src])
  OBVIOUS
<1>1. Fetching(src) /\ Head(pending[src]).from < Head(pending[src]).to
  BY DEF RangeRejected
<1>2. /\ dispatcher = "fetch" /\ pending[src] \in Seq(Interval) /\ pending[src] # <<>>
      /\ StackInv(pending[src], ChunkEnd) /\ ChunkEnd \in Nat
  BY <1>1, TopOfStack
<1>3. s \in Seq(Interval) /\ StackInv(s, ChunkEnd) /\ Bottom(s, ChunkEnd) = Frontier(src)
  BY <1>1, <1>2, StackSplit DEF Frontier
<1>4. /\ pending' = [pending EXCEPT ![src] = s]
      /\ UNCHANGED <<dispatcher, plan, latest_processed_block, first>>
  BY DEF RangeRejected, history
<1>5. pending' \in [Source -> Seq(Interval)]
  BY <1>3, <1>4 DEF TypeOK
<1>6. Frontier(src) \in Nat
  BY FrontierAhead
<1>7. Frontier(src) <= Bottom(s, ChunkEnd) /\ Bottom(s, ChunkEnd) \in Nat
  BY <1>3, <1>6
<1>8. PlanInv' /\ \A o \in Source : Frontier(o)' = Frontier(o)
  BY <1>1, <1>3, <1>4, <1>7, SourceMoves
<1> QED BY <1>5, <1>8

\* A range is rejected and split.
LEMMA RangeRejectedStep ==
    ASSUME CursorInv, NEW src \in Source, RangeRejected(src)
    PROVE  CursorInv'
<1>1. TypeOK /\ PlanInv /\ FrontierInv /\ TransferInv /\ OldestFirst /\ HeadInv
  BY DEF CursorInv
<1>2. /\ pending' \in [Source -> Seq(Interval)] /\ PlanInv'
      /\ \A o \in Source : Frontier(o)' = Frontier(o)
  BY <1>1, RejectedStays
<1>3. /\ UNCHANGED <<dispatcher, is_active, latest_processed_block, plan, batch, transfers,
                     listener, first, handled, lost, skipped>>
      /\ UNCHANGED <<chainVars, watcherVars, shutdown>>
  BY DEF RangeRejected, history
<1>4. TypeOK'
  <2>1. WatcherTypeOK'
    BY <1>1, <1>3 DEF TypeOK, WatcherTypeOK, chainVars, watcherVars
  <2> QED BY <1>1, <1>2, <1>3, <2>1 DEF TypeOK
<1>5. \A o \in Source : Frontier(o) \in Nat /\ batch[o] \subseteq Nat
  BY <1>1, FrontierAhead, WatcherAssumption DEF TypeOK, Block
<1>6. FrontierInv'
  BY <1>1, <1>2, <1>3 DEF FrontierInv, Settled
<1>7. TransferInv' /\ OldestFirst'
  BY <1>1, <1>2, <1>3, <1>5, TransferKept
<1>8. HeadInv'
  BY <1>1, <1>3, HeadKept DEF watcherVars
<1> QED BY <1>2, <1>4, <1>6, <1>7, <1>8 DEF CursorInv

\* A new chunk: every source has all of it to fetch.
LEMMA ChunkStarts ==
    ASSUME NEW from \in Block, NEW head \in Block, from <= head, StartChunk(from, head),
           dispatcher' = "fetch"
    PROVE  /\ plan' \in [next : 0 .. MaxBlock, head : 0 .. MaxBlock]
           /\ plan'.next = from /\ plan'.head = head
           /\ pending' \in [Source -> Seq(Interval)]
           /\ \A src \in Source :
                 Frontier(src)' = from /\ StackInv(pending'[src], ChunkEnd')
<1>1. from \in Nat /\ head \in Nat /\ from \in 0 .. MaxBlock /\ head \in 0 .. MaxBlock
  BY WatcherAssumption DEF Block
<1> PICK chunk : chunk = Chunk(from, head)
  OBVIOUS
<1>2. chunk.from = from /\ chunk.to \in from .. head
  BY <1>1, ChunkBounds
<1>3. chunk \in Interval
  <2>1. chunk = [from |-> chunk.from, to |-> chunk.to]
    BY DEF Chunk
  <2>2. chunk.from \in Block /\ chunk.to \in Block
    BY <1>1, <1>2, WatcherAssumption DEF Block
  <2> QED BY <2>1, <2>2 DEF Interval
<1>4. plan' = [next |-> from, head |-> head]
  BY DEF StartChunk
<1>5. ChunkEnd' = chunk.to
  BY <1>4 DEF ChunkEnd
<1>6. pending' = [src \in Source |-> <<chunk>>]
  BY DEF StartChunk
<1>7. StackInv(<<chunk>>, chunk.to)
  <2>1. /\ Len(<<chunk>>) = 1 /\ DOMAIN <<chunk>> = {1} /\ <<chunk>>[1] = chunk
    OBVIOUS
  <2>2. chunk.from <= chunk.to
    BY <1>1, <1>2
  <2> QED BY <2>1, <2>2 DEF StackInv
<1>8. <<chunk>> \in Seq(Interval) /\ <<chunk>> # <<>> /\ Head(<<chunk>>) = chunk
  BY <1>3
<1>9. \A src \in Source : Frontier(src)' = from
  <2>1. Bottom(<<chunk>>, chunk.to) = from
    BY <1>2, <1>8 DEF Bottom
  <2> QED BY <1>5, <1>6, <2>1 DEF Frontier
<1> QED BY <1>1, <1>4, <1>5, <1>6, <1>7, <1>8, <1>9

\* Heads are received.
LEMMA ReceiveHeadsStep ==
    ASSUME CursorInv, ReceiveHeads
    PROVE  CursorInv'
<1>1. TypeOK /\ PlanInv /\ FrontierInv /\ TransferInv /\ OldestFirst /\ HeadInv
  BY DEF CursorInv
<1> PICK incoming : incoming = NewestHead
  OBVIOUS
<1>2. /\ dispatcher = "idle" /\ blocks # <<>> /\ blocks' = <<>>
      /\ UNCHANGED <<chainVars, wire, ws, connected, on_connect, latest_block, dropped,
                     shutdown, is_active, latest_processed_block, batch, transfers,
                     listener, handled, lost>>
  BY DEF ReceiveHeads
<1>3. blocks \in Seq(Block)
  BY <1>1 DEF TypeOK, WatcherTypeOK, Block
<1>4. incoming \in Block /\ \A i \in DOMAIN blocks : blocks[i] <= incoming
  BY <1>2, <1>3, NewestHeadIsHighest
<1>5. /\ latest_processed_block \in Nat /\ incoming \in Nat /\ latest_block \in Nat
      /\ incoming >= 1 /\ first \in Nat
      /\ \A i \in DOMAIN blocks : blocks[i] \in Nat
  <2>1. \A i \in DOMAIN blocks : blocks[i] \in Block
    BY <1>3
  <2> QED BY <1>1, <1>4, <2>1, WatcherAssumption DEF TypeOK, WatcherTypeOK, Block
<1>6. dropped \/ latest_block <= latest_processed_block \/ latest_block <= incoming
  <2>1. ASSUME NEW i \in DOMAIN blocks, latest_block <= blocks[i]
        PROVE  latest_block <= incoming
    BY <1>4, <1>5, <2>1
  <2> QED BY <1>1, <1>2, <2>1 DEF HeadInv
<1>7. WatcherTypeOK'
  <2>1. <<>> \in Seq(1 .. MaxBlock) /\ Len(<<>>) <= BlockChannelCap
    BY WatcherAssumption
  <2> QED BY <1>1, <1>2, <2>1 DEF TypeOK, WatcherTypeOK, chainVars
<1>8. CASE IsStale(incoming)
  <2>1. UNCHANGED <<dispatcher, plan, pending, first, skipped>>
    BY <1>8 DEF ReceiveHeads
  <2>2. PlanInv' /\ FrontierInv' /\ TransferInv' /\ OldestFirst'
    BY <1>1, <1>2, <2>1, QuietKeeps DEF Still
  <2>3. HeadInv'
    BY <1>2, <1>5, <1>6, <1>8 DEF HeadInv, IsStale
  <2>4. TypeOK'
    BY <1>1, <1>2, <1>7, <2>1 DEF TypeOK
  <2> QED BY <2>2, <2>3, <2>4 DEF CursorInv
<1>9. CASE ~IsStale(incoming)
  <2> PICK from : from = FetchFrom(incoming)
    OBVIOUS
  <2>1. /\ dispatcher' = "fetch" /\ StartChunk(from, incoming)
        /\ skipped' = skipped \cup SkippedBlocks(incoming)
        /\ first' = IF first = 0 THEN incoming ELSE first
    BY <1>9 DEF ReceiveHeads
  <2>2. from \in latest_processed_block + 1 .. incoming
    BY <1>4, <1>5, <1>9, FetchFromBounds
  <2>3. from \in Block /\ from \in Nat /\ from <= incoming
    BY <1>4, <1>5, <2>2, WatcherAssumption DEF Block
  <2>4. /\ plan' \in [next : 0 .. MaxBlock, head : 0 .. MaxBlock]
        /\ plan'.next = from /\ plan'.head = incoming
        /\ pending' \in [Source -> Seq(Interval)]
        /\ \A src \in Source :
              Frontier(src)' = from /\ StackInv(pending'[src], ChunkEnd')
    BY <1>4, <2>1, <2>3, ChunkStarts
  <2>5. SkippedBlocks(incoming) \subseteq latest_processed_block + 1 .. from - 1
    BY DEF SkippedBlocks
  <2>6. TypeOK'
    <3>1. skipped' \subseteq Block
      <4>1. latest_processed_block + 1 .. from - 1 \subseteq Block
        BY <1>5, <2>3, WatcherAssumption DEF Block
      <4> QED BY <1>1, <2>1, <2>5, <4>1 DEF TypeOK
    <3>2. first' \in 0 .. MaxBlock
      BY <1>1, <1>4, <2>1, WatcherAssumption DEF TypeOK, Block
    <3> QED BY <1>1, <1>2, <1>7, <2>1, <2>4, <3>1, <3>2 DEF TypeOK
  <2>7. PlanInv'
    <3>1. first' # 0 /\ latest_processed_block' < plan'.next /\ plan'.next <= plan'.head
      BY <1>2, <1>5, <2>1, <2>2, <2>3, <2>4
    <3>2. \A src \in Source : plan'.next <= Frontier(src)'
      BY <2>3, <2>4
    <3> QED BY <2>1, <2>4, <3>1, <3>2 DEF PlanInv
  <2>8. FrontierInv'
    <3> SUFFICES ASSUME NEW src \in Source
                 PROVE  /\ first' # 0 => first' .. from - 1 \subseteq Settled(src)'
                        /\ \A b \in Settled(src)' \cup batch'[src] : b < from
      BY <2>4 DEF FrontierInv
    <3>1. /\ Frontier(src) = latest_processed_block + 1 /\ batch[src] = {}
          /\ first = 0 <=> latest_processed_block = 0
      BY <1>1, <1>2 DEF Frontier, PlanInv
    <3>2. Settled(src)' = Settled(src) \cup SkippedBlocks(incoming)
      BY <1>2, <2>1 DEF Settled
    <3>3. ASSUME first' # 0, NEW b \in first' .. from - 1
          PROVE  b \in Settled(src)'
      <4>1. CASE first = 0
        <5>1. from = incoming /\ first' = incoming
          BY <2>1, <3>1, <4>1 DEF FetchFrom
        <5> QED BY <1>5, <3>3, <5>1
      <4>2. CASE first # 0 /\ b <= latest_processed_block
        <5>1. b \in first .. Frontier(src) - 1
          BY <1>5, <2>1, <3>1, <3>3, <4>2
        <5> QED BY <1>1, <3>2, <4>2, <5>1 DEF FrontierInv
      <4>3. CASE first # 0 /\ ~(b <= latest_processed_block)
        <5>1. b \in latest_processed_block + 1 .. from - 1
          BY <1>5, <2>1, <2>3, <3>3, <4>3
        <5>2. b \in SkippedBlocks(incoming)
          BY <3>1, <4>3, <5>1 DEF SkippedBlocks
        <5> QED BY <3>2, <5>2
      <4> QED BY <4>1, <4>2, <4>3
    <3>4. ASSUME NEW b \in Settled(src)' \cup batch'[src]
          PROVE  b < from
      <4>1. CASE b \in Settled(src)
        <5>1. b \in Nat /\ b < latest_processed_block + 1
          BY <1>1, <3>1, <4>1, WatcherAssumption DEF FrontierInv, Settled, TypeOK, Block
        <5> QED BY <1>5, <2>2, <2>3, <5>1
      <4>2. CASE b \in SkippedBlocks(incoming)
        BY <1>5, <2>3, <2>5, <4>2
      <4> QED BY <1>2, <3>1, <3>2, <3>4, <4>1, <4>2
    <3> QED BY <3>3, <3>4
  <2>9. TransferInv' /\ OldestFirst'
    <3>1. ASSUME NEW src \in Source
          PROVE  /\ Frontier(src)' \in Nat /\ Frontier(src) <= Frontier(src)'
                 /\ batch'[src] \subseteq Nat
                 /\ \A b \in batch'[src] : b \in batch[src] \/ Frontier(src) <= b
      <4>1. Frontier(src) = latest_processed_block + 1 /\ batch[src] = {}
        BY <1>1, <1>2 DEF Frontier, PlanInv
      <4> QED BY <1>2, <1>5, <2>2, <2>3, <2>4, <4>1
    <3> QED BY <1>1, <1>2, <3>1, TransferKept
  <2>10. HeadInv'
    BY <1>2, <1>6, <2>1, <2>4 DEF HeadInv
  <2> QED BY <2>6, <2>7, <2>8, <2>9, <2>10 DEF CursorInv
<1> QED BY <1>8, <1>9

\* A chunk is done.
LEMMA ChunkDoneStep ==
    ASSUME CursorInv, ChunkDone
    PROVE  CursorInv'
<1>1. TypeOK /\ PlanInv /\ FrontierInv /\ TransferInv /\ OldestFirst /\ HeadInv
  BY DEF CursorInv
<1> PICK to : to = ChunkEnd
  OBVIOUS
<1>2. /\ dispatcher = "fetch" /\ \A src \in Source : pending[src] = <<>> /\ batch[src] = {}
      /\ latest_processed_block' = to
      /\ UNCHANGED <<chainVars, watcherVars, shutdown, is_active, batch, transfers, listener,
                     first, handled, lost, skipped>>
  BY DEF ChunkDone, ChunkEnd, history
<1>3. /\ to \in plan.next .. plan.head /\ plan.next \in Block /\ plan.head \in Block
      /\ latest_processed_block < plan.next /\ first # 0
  BY <1>1, <1>2, ChunkEndBounds DEF PlanInv
<1>4. /\ to \in Nat /\ plan.next \in Nat /\ plan.head \in Nat /\ to >= 1 /\ to \in 0 .. MaxBlock
      /\ latest_processed_block \in Nat /\ latest_block \in Nat
  BY <1>1, <1>3, WatcherAssumption DEF TypeOK, WatcherTypeOK, Block
<1>5. \A src \in Source : Frontier(src) = to + 1
  BY <1>2 DEF Frontier, Bottom
<1>6. WatcherTypeOK'
  BY <1>1, <1>2 DEF TypeOK, WatcherTypeOK, chainVars, watcherVars
<1>7. ASSUME \A src \in Source : Frontier(src)' = to + 1
      PROVE  FrontierInv' /\ TransferInv' /\ OldestFirst'
  <2>1. FrontierInv'
    BY <1>1, <1>2, <1>5, <1>7 DEF FrontierInv, Settled
  <2>2. \A src \in Source : /\ Frontier(src)' \in Nat /\ Frontier(src) <= Frontier(src)'
                            /\ batch'[src] = {}
    BY <1>2, <1>4, <1>5, <1>7
  <2> QED BY <1>1, <1>2, <2>1, <2>2, TransferKept
<1>8. CASE to < plan.head
  <2>1. StartChunk(to + 1, plan.head) /\ dispatcher' = "fetch"
    BY <1>2, <1>4, <1>8 DEF ChunkDone, ChunkEnd
  <2>2. to + 1 \in Block /\ to + 1 <= plan.head
    BY <1>3, <1>4, <1>8, WatcherAssumption DEF Block
  <2>3. /\ plan' \in [next : 0 .. MaxBlock, head : 0 .. MaxBlock]
        /\ plan'.next = to + 1 /\ plan'.head = plan.head
        /\ pending' \in [Source -> Seq(Interval)]
        /\ \A src \in Source :
              Frontier(src)' = to + 1 /\ StackInv(pending'[src], ChunkEnd')
    BY <1>3, <2>1, <2>2, ChunkStarts
  <2>4. TypeOK'
    BY <1>1, <1>2, <1>4, <1>6, <2>1, <2>3 DEF TypeOK
  <2>5. PlanInv'
    <3>1. latest_processed_block' < plan'.next /\ plan'.next <= plan'.head /\ first' # 0
      BY <1>2, <1>3, <1>4, <2>2, <2>3
    <3>2. \A src \in Source : plan'.next <= Frontier(src)'
      BY <1>4, <2>3
    <3> QED BY <2>1, <2>3, <3>1, <3>2 DEF PlanInv
  <2>6. HeadInv'
    <3>1. UNCHANGED <<latest_block, blocks, dropped>>
      BY <1>2 DEF watcherVars
    <3>2. latest_block <= latest_processed_block => latest_block <= to
      BY <1>3, <1>4
    <3> QED BY <1>1, <1>2, <2>1, <2>3, <3>1, <3>2 DEF HeadInv
  <2> QED BY <1>7, <2>3, <2>4, <2>5, <2>6 DEF CursorInv
<1>9. CASE to = plan.head
  <2>1. plan' = NoPlan /\ dispatcher' = "idle" /\ pending' = pending
    BY <1>4, <1>9 DEF ChunkDone, ChunkEnd
  <2>2. \A src \in Source : Frontier(src)' = to + 1
    BY <1>2, <2>1 DEF Frontier
  <2>3. TypeOK'
    <3>1. NoPlan \in [next : 0 .. MaxBlock, head : 0 .. MaxBlock]
      BY WatcherAssumption DEF NoPlan
    <3> QED BY <1>1, <1>2, <1>4, <1>6, <2>1, <3>1 DEF TypeOK
  <2>4. PlanInv'
    BY <1>2, <1>3, <1>4, <2>1 DEF PlanInv
  <2>5. HeadInv'
    <3>1. UNCHANGED <<latest_block, blocks, dropped>>
      BY <1>2 DEF watcherVars
    <3>2. latest_block <= latest_processed_block \/ latest_block <= plan.head => latest_block <= to
      BY <1>3, <1>4, <1>9
    <3> QED BY <1>1, <1>2, <3>1, <3>2 DEF HeadInv
  <2> QED BY <1>7, <2>2, <2>3, <2>4, <2>5 DEF CursorInv
<1> QED BY <1>3, <1>4, <1>8, <1>9

\* The oldest block with logs is sent on, or dropped if the listener is gone.
LEMMA SendTransferStep ==
    ASSUME CursorInv, NEW src \in Source, SendTransfer(src)
    PROVE  CursorInv'
<1>1. TypeOK /\ PlanInv /\ FrontierInv /\ TransferInv /\ OldestFirst /\ HeadInv
  BY DEF CursorInv
<1> PICK block : block = Min(batch[src])
  OBVIOUS
<1>2. /\ batch[src] # {} /\ batch' = [batch EXCEPT ![src] = @ \ {block}]
      /\ \/ /\ Len(transfers) < TransferCap
            /\ transfers' = Append(transfers, [source |-> src, block |-> block])
         \/ transfers' = transfers
      /\ UNCHANGED <<chainVars, watcherVars, shutdown, dispatcher, is_active,
                     latest_processed_block, plan, pending, listener, first, handled, lost,
                     skipped>>
  BY DEF SendTransfer, history
<1>3. /\ batch \in [Source -> SUBSET Block] /\ batch[src] \subseteq Nat
      /\ transfers \in Seq(Transfer) /\ Len(transfers) <= TransferCap /\ TransferCap \in Nat
  BY <1>1, WatcherAssumption, DispatcherAssumption DEF TypeOK, Transfer, Block
<1>4. block \in batch[src] /\ \A b \in batch[src] : block <= b
  BY <1>2, <1>3, MinIsLeast
<1>5. /\ batch' \in [Source -> SUBSET Block] /\ batch'[src] = batch[src] \ {block}
      /\ \A o \in Source : batch'[o] \subseteq batch[o]
  BY <1>2, <1>3
<1> PICK sent : sent = [source |-> src, block |-> block]
  OBVIOUS
<1>6. sent \in Transfer /\ sent.source = src /\ sent.block = block
  BY <1>3, <1>4 DEF Transfer
<1>7. /\ PlanInv' /\ FrontierInv' /\ \A o \in Source : Frontier(o)' = Frontier(o)
  BY <1>1, <1>2, <1>5, StillKeeps DEF Still
<1>8. HeadInv'
  BY <1>1, <1>2, HeadKept DEF watcherVars
<1>9. ASSUME transfers' \in Seq(Transfer), Len(transfers') <= TransferCap PROVE TypeOK'
  <2>1. WatcherTypeOK'
    BY <1>1, <1>2 DEF TypeOK, WatcherTypeOK, chainVars, watcherVars
  <2> QED BY <1>1, <1>2, <1>5, <1>9, <2>1 DEF TypeOK, Transfer
<1>10. \A o \in Source : Frontier(o) \in Nat /\ batch[o] \subseteq Nat
  BY <1>1, <1>3, FrontierAhead, WatcherAssumption DEF Block
<1>11. CASE transfers' = transfers
  <2>1. TypeOK'
    BY <1>3, <1>9, <1>11
  <2>2. TransferInv' /\ OldestFirst'
    BY <1>1, <1>5, <1>7, <1>10, <1>11, TransferKept
  <2> QED BY <1>7, <1>8, <2>1, <2>2 DEF CursorInv
<1>12. CASE Len(transfers) < TransferCap /\ transfers' = Append(transfers, sent)
  <2> PICK n : n = Len(transfers)
    OBVIOUS
  <2>1. /\ n \in Nat /\ DOMAIN transfers = 1 .. n
        /\ transfers' \in Seq(Transfer) /\ Len(transfers') = n + 1
        /\ DOMAIN transfers' = 1 .. n + 1 /\ transfers'[n + 1] = sent
        /\ \A i \in 1 .. n : transfers'[i] = transfers[i] /\ transfers[i] \in Transfer
    BY <1>3, <1>6, <1>12
  <2>2. TypeOK'
    <3>1. Len(transfers') <= TransferCap
      BY <1>3, <1>12, <2>1
    <3> QED BY <1>9, <2>1, <3>1
  <2>3. ASSUME NEW i \in 1 .. n
        PROVE  /\ transfers[i].source \in Source
               /\ transfers[i].block < Frontier(transfers[i].source)
               /\ \A b \in batch[transfers[i].source] : transfers[i].block < b
    BY <1>1, <2>1 DEF TransferInv, Transfer
  <2>4. TransferInv'
    <3> SUFFICES ASSUME NEW i \in 1 .. n + 1
                 PROVE  /\ transfers'[i].block < Frontier(transfers[i].source)'
                        /\ \A b \in batch'[transfers'[i].source] : transfers'[i].block < b
      BY <2>1 DEF TransferInv
    <3> PICK o : o = transfers'[i].source
      OBVIOUS
    <3>1. Frontier(transfers[i].source)' = Frontier(o)'
      BY DEF Frontier
    <3>2. CASE i \in 1 .. n
      <4>1. o \in Source /\ transfers'[i] = transfers[i]
        BY <2>1, <2>3, <3>2
      <4>2. /\ transfers[i].block < Frontier(o)
            /\ \A b \in batch[o] : transfers[i].block < b
        BY <2>3, <3>2, <4>1
      <4> QED BY <1>5, <1>7, <3>1, <4>1, <4>2
    <3>3. CASE i = n + 1
      <4>1. o = src /\ transfers'[i].block = block
        BY <1>6, <2>1, <3>3
      <4>2. block < Frontier(src)
        BY <1>1, <1>4 DEF FrontierInv
      <4>3. \A b \in batch'[src] : block < b
        BY <1>3, <1>4, <1>5
      <4> QED BY <1>7, <3>1, <4>1, <4>2, <4>3
    <3> QED BY <2>1, <3>2, <3>3
  <2>5. OldestFirst'
    <3> SUFFICES ASSUME NEW i \in 1 .. n + 1, NEW j \in 1 .. n + 1, i < j,
                        transfers'[i].source = transfers'[j].source
                 PROVE  transfers'[i].block < transfers'[j].block
      BY <2>1 DEF OldestFirst
    <3>1. i \in 1 .. n /\ transfers'[i] = transfers[i]
      BY <2>1
    <3>2. CASE j \in 1 .. n
      BY <1>1, <2>1, <3>1, <3>2 DEF OldestFirst
    <3>3. CASE j = n + 1
      <4>1. transfers[i].source = src /\ transfers'[j].block = block
        BY <1>6, <2>1, <3>1, <3>3
      <4> QED BY <1>4, <2>3, <3>1, <4>1
    <3> QED BY <2>1, <3>2, <3>3
  <2> QED BY <1>7, <1>8, <2>2, <2>4, <2>5 DEF CursorInv
<1> QED BY <1>2, <1>11, <1>12

\* The listener takes the oldest event.
LEMMA TakeTransferStep ==
    ASSUME CursorInv, TakeTransfer
    PROVE  CursorInv'
<1>1. TypeOK /\ PlanInv /\ FrontierInv /\ TransferInv /\ OldestFirst /\ HeadInv
  BY DEF CursorInv
<1>2. /\ transfers # <<>> /\ transfers' = Tail(transfers)
      /\ UNCHANGED <<chainVars, watcherVars, shutdown, dispatcher, is_active,
                     latest_processed_block, plan, pending, batch, listener, first, handled,
                     lost, skipped>>
  BY DEF TakeTransfer, work, history
<1>3. transfers \in Seq(Transfer) /\ Len(transfers) <= TransferCap /\ TransferCap \in Nat
  BY <1>1, DispatcherAssumption DEF TypeOK, Transfer
<1> PICK n : n = Len(transfers)
  OBVIOUS
<1>4. /\ n \in Nat /\ n >= 1 /\ DOMAIN transfers = 1 .. n
      /\ transfers' \in Seq(Transfer) /\ Len(transfers') = n - 1
      /\ DOMAIN transfers' = 1 .. n - 1
      /\ \A i \in 1 .. n - 1 : i + 1 \in 1 .. n /\ transfers'[i] = transfers[i + 1]
  BY <1>2, <1>3
<1>5. \A i \in 1 .. n : transfers[i].source \in Source
  <2>1. \A i \in 1 .. n : transfers[i] \in Transfer
    BY <1>3, <1>4
  <2> QED BY <2>1 DEF Transfer
<1>6. TypeOK'
  <2>1. WatcherTypeOK'
    BY <1>1, <1>2 DEF TypeOK, WatcherTypeOK, chainVars, watcherVars
  <2>2. Len(transfers') <= TransferCap
    BY <1>3, <1>4
  <2> QED BY <1>1, <1>2, <1>4, <2>1, <2>2 DEF TypeOK, Transfer
<1>7. /\ PlanInv' /\ FrontierInv' /\ \A o \in Source : Frontier(o)' = Frontier(o)
  BY <1>1, <1>2, StillKeeps DEF Still
<1>8. TransferInv'
  <2> SUFFICES ASSUME NEW i \in 1 .. n - 1
               PROVE  /\ transfers'[i].block < Frontier(transfers[i].source)'
                      /\ \A b \in batch'[transfers'[i].source] : transfers'[i].block < b
    BY <1>4 DEF TransferInv
  <2> PICK o : o = transfers'[i].source
    OBVIOUS
  <2>1. Frontier(transfers[i].source)' = Frontier(o)'
    BY DEF Frontier
  <2>2. o \in Source /\ o = transfers[i + 1].source
    BY <1>4, <1>5
  <2>3. /\ transfers[i + 1].block < Frontier(o)
        /\ \A b \in batch[o] : transfers[i + 1].block < b
    BY <1>1, <1>4, <2>2 DEF TransferInv
  <2> QED BY <1>2, <1>4, <1>7, <2>1, <2>2, <2>3
<1>9. OldestFirst'
  <2> SUFFICES ASSUME NEW i \in 1 .. n - 1, NEW j \in 1 .. n - 1, i < j,
                      transfers'[i].source = transfers'[j].source
               PROVE  transfers'[i].block < transfers'[j].block
    BY <1>4 DEF OldestFirst
  <2>1. /\ i + 1 \in DOMAIN transfers /\ j + 1 \in DOMAIN transfers /\ i + 1 < j + 1
        /\ transfers'[i] = transfers[i + 1] /\ transfers'[j] = transfers[j + 1]
    BY <1>4
  <2> QED BY <1>1, <2>1 DEF OldestFirst
<1>10. HeadInv'
  BY <1>1, <1>2, HeadKept DEF watcherVars
<1> QED BY <1>6, <1>7, <1>8, <1>9, <1>10 DEF CursorInv

\* The listener goes and takes the channel with it.
LEMMA ListenerCancelledStep ==
    ASSUME CursorInv, ListenerCancelled
    PROVE  CursorInv'
<1>1. TypeOK /\ PlanInv /\ FrontierInv /\ TransferInv /\ OldestFirst /\ HeadInv
  BY DEF CursorInv
<1>2. /\ transfers' = <<>> /\ listener' = "gone"
      /\ UNCHANGED <<chainVars, watcherVars, shutdown, dispatcher, is_active,
                     latest_processed_block, plan, pending, batch, first, handled,
                     lost, skipped>>
  BY DEF ListenerCancelled, work, history
<1>3. TypeOK'
  <2>1. WatcherTypeOK'
    BY <1>1, <1>2 DEF TypeOK, WatcherTypeOK, chainVars, watcherVars
  <2>2. transfers' \in Seq(Transfer) /\ Len(transfers') <= TransferCap
    BY <1>2, DispatcherAssumption
  <2> QED BY <1>1, <1>2, <2>1, <2>2 DEF TypeOK, Transfer
<1>4. PlanInv' /\ FrontierInv'
  BY <1>1, <1>2, StillKeeps DEF Still
<1>5. TransferInv' /\ OldestFirst'
  BY <1>2 DEF TransferInv, OldestFirst
<1>6. HeadInv'
  BY <1>1, <1>2, HeadKept DEF watcherVars
<1> QED BY <1>3, <1>4, <1>5, <1>6 DEF CursorInv

\* The watcher's steps: a header that is accepted is queued or counted as dropped.
LEMMA WatcherStep ==
    ASSUME CursorInv, WatcherNext, UNCHANGED dispatcherVars
    PROVE  CursorInv'
<1>1. TypeOK /\ PlanInv /\ FrontierInv /\ TransferInv /\ OldestFirst /\ HeadInv
  BY DEF CursorInv
<1>2. UNCHANGED <<dispatcher, is_active, latest_processed_block, plan, pending, batch,
                  transfers, listener, first, handled, lost, skipped>>
  BY DEF dispatcherVars, work, history
<1>3. TypeOK'
  <2>1. WatcherTypeOK'
    <3>1. WatcherShape'
      BY <1>1, WatcherShapeIsType, WatcherTypeStep DEF TypeOK
    <3> QED BY <3>1, WatcherShapeIsType, PTL
  <2> QED BY <1>1, <1>2, <2>1 DEF TypeOK
<1>4. PlanInv' /\ FrontierInv' /\ TransferInv' /\ OldestFirst'
  BY <1>1, <1>2, QuietKeeps DEF Still
<1>5. HeadInv'
  <2>1. CASE UNCHANGED <<latest_block, blocks, dropped>>
    BY <1>1, <1>2, <2>1, HeadKept
  <2>2. CASE RecordConnected
    <3> SUFFICES ASSUME ~dropped'
                 PROVE  \E i \in DOMAIN blocks' : latest_block' <= blocks'[i]
      BY DEF HeadInv
    <3>1. blocks' = Append(blocks, Head(wire)) /\ latest_block' = Head(wire) /\ wire # <<>>
      BY <2>2 DEF RecordConnected
    <3>2. blocks \in Seq(Block) /\ wire \in Seq(Block)
      BY <1>1 DEF TypeOK, WatcherTypeOK, Block
    <3>3. Head(wire) \in Block
      BY <3>1, <3>2
    <3>4. /\ Len(blocks) + 1 \in DOMAIN blocks'
          /\ blocks'[Len(blocks) + 1] = Head(wire)
      BY <3>1, <3>2, <3>3
    <3>5. Head(wire) <= Head(wire)
      BY <3>3 DEF Block
    <3> QED BY <3>1, <3>4, <3>5
  <2> QED BY <2>1, <2>2 DEF WatcherNext, NewHead, SubscribeBlocks, StreamTerminated,
             StallTimeout, ConfirmStall, ChainIdle, StallUnconfirmed, Resubscribe,
             WatcherCancelled, Disconnect
<1> QED BY <1>3, <1>4, <1>5 DEF CursorInv

\* Steps that only change where a task is.
LEMMA IdleStep ==
    ASSUME CursorInv,
           UNCHANGED vars \/ Start \/ DispatcherCancelled \/ ShutdownSignal \/ Terminated
    PROVE  CursorInv'
<1>1. TypeOK /\ PlanInv /\ FrontierInv /\ TransferInv /\ OldestFirst /\ HeadInv
  BY DEF CursorInv
<1>2. /\ UNCHANGED <<tip, reorgs, wire, ws, connected, on_connect, latest_block, blocks,
                     dropped, latest_processed_block, plan, pending, batch, transfers,
                     listener, first, handled, lost, skipped>>
      /\ shutdown' \in {shutdown, TRUE} /\ is_active' \in {is_active, TRUE, FALSE}
      /\ dispatcher' \in {dispatcher, "idle", "exited"}
      /\ dispatcher = "fetch" <=> dispatcher' = "fetch"
  BY DEF Start, DispatcherCancelled, ShutdownSignal, Terminated, vars, chainVars,
         watcherVars, dispatcherVars, work, history
<1>3. TypeOK'
  <2>1. WatcherTypeOK'
    <3>1. WatcherShape
      BY <1>1, WatcherShapeIsType DEF TypeOK
    <3>2. WatcherShape'
      BY <1>2, <3>1 DEF WatcherShape
    <3> QED BY <3>2, WatcherShapeIsType, PTL
  <2> QED BY <1>1, <1>2, <2>1 DEF TypeOK
<1>4. PlanInv' /\ FrontierInv' /\ TransferInv' /\ OldestFirst'
  BY <1>1, <1>2, QuietKeeps DEF Still
<1>5. HeadInv'
  BY <1>1, <1>2, HeadKept
<1> QED BY <1>3, <1>4, <1>5 DEF CursorInv

\* The invariant is inductive.
LEMMA CursorStep ==
    ASSUME CursorInv, [Next]_vars
    PROVE  CursorInv'
<1>1. CASE UNCHANGED vars \/ Start \/ DispatcherCancelled \/ ShutdownSignal \/ Terminated
  BY <1>1, IdleStep
<1>2. CASE WatcherNext /\ UNCHANGED dispatcherVars
  BY <1>2, WatcherStep
<1>3. CASE ReceiveHeads
  BY <1>3, ReceiveHeadsStep
<1>4. ASSUME NEW src \in Source, SourceStep(src) PROVE CursorInv'
  BY <1>4, RangeFetchedStep, RangeRejectedStep, BlockLostStep, SendTransferStep
     DEF SourceStep
<1>5. CASE ChunkDone
  BY <1>5, ChunkDoneStep
<1>6. CASE TakeTransfer
  BY <1>6, TakeTransferStep
<1>7. CASE ListenerCancelled
  BY <1>7, ListenerCancelledStep
<1> QED BY <1>1, <1>2, <1>3, <1>4, <1>5, <1>6, <1>7 DEF Next

\* Nothing is planned, fetched or skipped before the first head.
LEMMA CursorInit == ASSUME Init PROVE CursorInv
<1>1. TypeOK
  <2>1. WatcherShape
    <3>1. <<>> \in Seq(Block) /\ Len(<<>>) <= BlockChannelCap /\ 1 \in Block
          /\ 0 \in 0 .. MaxReorgs /\ 0 \in 0 .. MaxBlock
      BY WatcherAssumption DEF Block
    <3> QED BY <3>1 DEF Init, WatcherInit, WatcherShape
  <2>2. /\ NoPlan \in [next : 0 .. MaxBlock, head : 0 .. MaxBlock]
        /\ 0 \in 0 .. MaxBlock /\ 0 <= TransferCap
    BY WatcherAssumption, DispatcherAssumption DEF NoPlan
  <2>3. /\ \A S : <<>> \in Seq(S) /\ Len(<<>>) = 0
    OBVIOUS
  <2>4. WatcherTypeOK
    BY <2>1, WatcherShapeIsType
  <2> QED BY <2>2, <2>3, <2>4 DEF Init, TypeOK
<1>2. PlanInv
  BY DEF Init, PlanInv
<1>3. FrontierInv
  BY DEF Init, FrontierInv, Settled
<1>4. TransferInv /\ OldestFirst
  BY DEF Init, TransferInv, OldestFirst
<1>5. HeadInv
  BY DEF Init, WatcherInit, HeadInv
<1> QED BY <1>1, <1>2, <1>3, <1>4, <1>5 DEF CursorInv

\* The invariant behind the theorems of this module.
LEMMA CursorInvariant == Spec => []CursorInv
BY CursorInit, CursorStep, PTL DEF Spec

\* The shape of the watcher's and the dispatcher's state; both channels keep to their
\* capacity.
THEOREM DispatcherTypeCorrect == Spec => []TypeOK
BY CursorInvariant, PTL DEF CursorInv

\* Every block from the first head up to the cursor was fetched, given up after a
\* failed single-block fetch, or skipped beyond the backfill cap, for every source.
THEOREM CursorLeavesNoGap == Spec => []NoSilentGap
<1>1. CursorInv => NoSilentGap
  <2> SUFFICES ASSUME CursorInv, first # 0, NEW src \in Source,
                      NEW b \in first .. latest_processed_block
               PROVE  b \in handled[src] \cup lost[src] \cup skipped
    BY DEF NoSilentGap
  <2>1. /\ Frontier(src) \in Nat /\ latest_processed_block < Frontier(src)
        /\ first .. Frontier(src) - 1 \subseteq Settled(src)
    BY FrontierAhead DEF CursorInv, FrontierInv
  <2>2. first \in Nat /\ latest_processed_block \in Nat
    BY WatcherAssumption DEF CursorInv, TypeOK
  <2>3. b \in first .. Frontier(src) - 1
    BY <2>1, <2>2
  <2> QED BY <2>1, <2>3 DEF Settled
<1> QED BY <1>1, CursorInvariant, PTL

\* What waits on a bisect stack has not been fetched, given up or skipped.
THEOREM NoBlockTwice == Spec => []NothingRefetched
<1>1. CursorInv => NothingRefetched
  <2> SUFFICES ASSUME CursorInv, NEW src \in Source, NEW range \in ToSet(pending[src]),
                      NEW b \in Blocks(range), b \in Settled(src)
               PROVE  FALSE
    BY DEF NothingRefetched, Settled
  <2>1. TypeOK /\ PlanInv /\ FrontierInv
    BY DEF CursorInv
  <2> PICK s : s = pending[src]
    OBVIOUS
  <2>2. PICK i \in DOMAIN s : range = s[i]
    BY DEF ToSet
  <2>3. s \in Seq(Interval) /\ s # <<>> /\ 1 \in DOMAIN s /\ Head(s) = s[1] /\ i \in Nat /\ i >= 1
    BY <2>1, <2>2 DEF TypeOK
  <2>4. dispatcher = "fetch" /\ StackInv(s, ChunkEnd) /\ Frontier(src) = s[1].from
    BY <2>1, <2>3 DEF PlanInv, Frontier, Bottom
  <2>5. /\ s[1].from \in Nat /\ s[1].to \in Nat /\ range.from \in Nat /\ range.to \in Nat
    <3>1. \A r \in Interval : r.from \in Nat /\ r.to \in Nat
      BY WatcherAssumption DEF Interval, Block
    <3>2. s[1] \in Interval /\ s[i] \in Interval
      BY <2>2, <2>3
    <3> QED BY <2>2, <3>1, <3>2
  <2>6. s[1].from <= range.from
    <3>1. CASE i = 1
      BY <2>2, <2>5, <3>1
    <3>2. CASE i # 1
      <4>1. s[1].from <= s[1].to /\ s[1].to < s[i].from
        BY <2>3, <2>4, <3>2 DEF StackInv
      <4> QED BY <2>2, <2>5, <4>1
    <3> QED BY <3>1, <3>2
  <2>7. b < Frontier(src)
    BY <2>1 DEF FrontierInv
  <2> QED BY <2>4, <2>5, <2>6, <2>7 DEF Blocks
<1> QED BY <1>1, CursorInvariant, PTL

\* The events of one source leave the dispatcher in block order.
THEOREM LogOrderPreserved == Spec => []OldestFirst
BY CursorInvariant, PTL DEF CursorInv

\* An idle dispatcher with an empty channel is at the newest head that was queued.
THEOREM IdleMeansCaughtUp == Spec => []CaughtUpWhenIdle
<1>1. CursorInv => CaughtUpWhenIdle
  BY DEF CursorInv, HeadInv, CaughtUpWhenIdle
<1> QED BY <1>1, CursorInvariant, PTL

-----------------------------------------------------------------------------
(* The dispatcher implements the abstract cursor of LogCursor.             *)

Cursor == INSTANCE LogCursor WITH
    cursor <- latest_processed_block,
    next <- [src \in Source |-> Frontier(src)]

\* A step that moves neither a frontier nor the cursor and settles nothing is a
\* stuttering step of the abstract cursor.
LEMMA CursorStutters ==
    ASSUME UNCHANGED <<first, latest_processed_block, handled, lost, skipped>>,
           \A src \in Source : Frontier(src)' = Frontier(src)
    PROVE  UNCHANGED Cursor!vars
BY DEF Cursor!vars

\* Heads, transfers and the tasks' ends are invisible.
LEMMA StillSimulates ==
    ASSUME CursorInv, Still, \A src \in Source : batch'[src] \subseteq batch[src]
    PROVE  [Cursor!Next]_(Cursor!vars)
<1>1. \A src \in Source : Frontier(src)' = Frontier(src)
  BY StillKeeps DEF CursorInv
<1> QED BY <1>1, CursorStutters DEF Still

\* Taking the range off the top of a stack moves the frontier of that source past it.
LEMMA TopMovesFrontier ==
    ASSUME CursorInv, NEW src \in Source, Fetching(src), NEW range, range = Head(pending[src]),
           pending' = [pending EXCEPT ![src] = Tail(@)],
           UNCHANGED <<dispatcher, plan, latest_processed_block, first>>
    PROVE  /\ range \in Interval /\ range.from <= range.to /\ first # 0
           /\ Frontier(src) = range.from
           /\ [o \in Source |-> Frontier(o)]'
                = [[o \in Source |-> Frontier(o)] EXCEPT ![src] = range.to + 1]
<1>1. TypeOK /\ PlanInv
  BY DEF CursorInv
<1> PICK rest : rest = Tail(pending[src])
  OBVIOUS
<1>2. /\ dispatcher = "fetch" /\ range \in Interval /\ range.from \in Nat /\ range.to \in Nat
      /\ range.from <= range.to /\ Frontier(src) = range.from
      /\ rest \in Seq(Interval) /\ StackInv(rest, ChunkEnd)
      /\ Bottom(rest, ChunkEnd) = range.to + 1
  BY <1>1, TopOfStack
<1>3. first # 0
  BY <1>1, <1>2 DEF PlanInv
<1>4. /\ Frontier(src) <= Bottom(rest, ChunkEnd) /\ Bottom(rest, ChunkEnd) \in Nat
      /\ pending' = [pending EXCEPT ![src] = rest]
  BY <1>2
<1>5. /\ Frontier(src)' = range.to + 1
      /\ \A o \in Source \ {src} : Frontier(o)' = Frontier(o)
  BY <1>1, <1>2, <1>4, SourceMoves
<1>6. [o \in Source |-> Frontier(o)]'
        = [[o \in Source |-> Frontier(o)] EXCEPT ![src] = range.to + 1]
  BY <1>5
<1> QED BY <1>2, <1>3, <1>6

\* One source: an answered range is read, a failed block given up, and a bisected range
\* or a sent transfer invisible.
LEMMA SourceSimulates ==
    ASSUME CursorInv, NEW src \in Source, SourceStep(src)
    PROVE  [Cursor!Next]_(Cursor!vars)
<1>1. TypeOK /\ PlanInv
  BY DEF CursorInv
<1> PICK range : range = Head(pending[src])
  OBVIOUS
<1>2. CASE RangeFetched(src)
  <2>1. /\ range \in Interval /\ range.from <= range.to /\ first # 0
        /\ Frontier(src) = range.from
        /\ [o \in Source |-> Frontier(o)]'
             = [[o \in Source |-> Frontier(o)] EXCEPT ![src] = range.to + 1]
    BY <1>2, TopMovesFrontier DEF RangeFetched
  <2>2. handled' = [handled EXCEPT ![src] = @ \cup range.from .. range.to]
    BY <1>2 DEF RangeFetched, Blocks
  <2>3. UNCHANGED <<first, latest_processed_block, lost, skipped>>
    BY <1>2 DEF RangeFetched
  <2>4. range.to \in Cursor!Block /\ range.to >= range.from
    BY <2>1, WatcherAssumption DEF Interval, Block, Cursor!Block
  <2>5. Cursor!Read(src, range.to)
    BY <2>1, <2>2, <2>3, <2>4 DEF Cursor!Read
  <2> QED BY <2>4, <2>5 DEF Cursor!Next
<1>3. CASE BlockLost(src)
  <2>1. /\ range \in Interval /\ first # 0
        /\ Frontier(src) = range.from
        /\ [o \in Source |-> Frontier(o)]'
             = [[o \in Source |-> Frontier(o)] EXCEPT ![src] = range.to + 1]
    BY <1>3, TopMovesFrontier DEF BlockLost
  <2>2. range.from = range.to /\ lost' = [lost EXCEPT ![src] = @ \cup {range.from}]
    BY <1>3 DEF BlockLost
  <2>3. UNCHANGED <<first, latest_processed_block, handled, skipped>>
    BY <1>3 DEF BlockLost
  <2>4. Cursor!GiveUp(src)
    BY <2>1, <2>2, <2>3 DEF Cursor!GiveUp
  <2> QED BY <2>4 DEF Cursor!Next
<1>4. CASE RangeRejected(src)
  <2>1. UNCHANGED <<first, latest_processed_block, handled, lost, skipped>>
    BY <1>4 DEF RangeRejected, history
  <2>2. \A o \in Source : Frontier(o)' = Frontier(o)
    BY <1>1, <1>4, RejectedStays
  <2> QED BY <2>1, <2>2, CursorStutters
<1>5. CASE SendTransfer(src)
  <2>1. Still /\ \A o \in Source : batch'[o] \subseteq batch[o]
    BY <1>1, <1>5 DEF SendTransfer, Still, history, TypeOK
  <2> QED BY <2>1, StillSimulates
<1> QED BY <1>2, <1>3, <1>4, <1>5 DEF SourceStep

\* A plan begins or, beyond the cap, skips; a stale head is invisible.
LEMMA ReceiveHeadsSimulates ==
    ASSUME CursorInv, ReceiveHeads
    PROVE  [Cursor!Next]_(Cursor!vars)
<1>1. TypeOK /\ PlanInv
  BY DEF CursorInv
<1> PICK incoming : incoming = NewestHead
  OBVIOUS
<1>2. /\ dispatcher = "idle" /\ blocks # <<>>
      /\ UNCHANGED <<latest_processed_block, batch, handled, lost>>
  BY DEF ReceiveHeads
<1>3. incoming \in Block
  <2>1. blocks \in Seq(Block)
    BY <1>1 DEF TypeOK, WatcherTypeOK, Block
  <2> QED BY <1>2, <2>1, NewestHeadIsHighest
<1>4. incoming \in Nat /\ latest_processed_block \in Nat
  BY <1>1, <1>3, WatcherAssumption DEF TypeOK, Block
<1>5. CASE IsStale(incoming)
  <2>1. UNCHANGED <<dispatcher, plan, pending, first, skipped>>
    BY <1>5 DEF ReceiveHeads
  <2> QED BY <1>2, <2>1, StillSimulates DEF Still
<1>6. CASE ~IsStale(incoming)
  <2> PICK from : from = FetchFrom(incoming)
    OBVIOUS
  <2>1. /\ dispatcher' = "fetch" /\ StartChunk(from, incoming)
        /\ skipped' = skipped \cup SkippedBlocks(incoming)
        /\ first' = IF first = 0 THEN incoming ELSE first
    BY <1>6 DEF ReceiveHeads
  <2>2. from \in latest_processed_block + 1 .. incoming
    BY <1>3, <1>4, <1>6, FetchFromBounds
  <2>3. from \in Block /\ from \in Nat /\ from <= incoming
    BY <1>3, <1>4, <2>2, WatcherAssumption DEF Block
  <2>4. \A src \in Source : Frontier(src)' = from
    BY <1>3, <2>1, <2>3, ChunkStarts
  <2>5. \A src \in Source : Frontier(src) = latest_processed_block + 1
    BY <1>2 DEF Frontier
  <2>6. [src \in Source |-> Frontier(src)]' = [src \in Source |-> from]
    BY <2>4
  <2>7. first = 0 <=> latest_processed_block = 0
    BY <1>1, <1>2 DEF PlanInv
  <2>8. CASE first = 0
    <3>1. from = incoming /\ skipped' = skipped /\ first' = incoming
      BY <2>1, <2>7, <2>8 DEF FetchFrom, SkippedBlocks
    <3>2. Cursor!Begin(incoming)
      BY <1>2, <2>6, <2>8, <3>1 DEF Cursor!Begin
    <3> QED BY <1>3, <3>2 DEF Cursor!Next, Cursor!Block, Block
  <2>9. CASE first # 0 /\ from = latest_processed_block + 1
    <3>1. latest_processed_block + 1 .. from - 1 = {}
      BY <1>4, <2>9
    <3>2. skipped' = skipped /\ first' = first
      BY <2>1, <2>7, <2>9, <3>1 DEF SkippedBlocks
    <3> QED BY <1>2, <2>4, <2>5, <2>9, <3>2, CursorStutters
  <2>10. CASE first # 0 /\ from # latest_processed_block + 1
    <3>1. skipped' = skipped \cup (latest_processed_block + 1 .. from - 1) /\ first' = first
      BY <2>1, <2>7, <2>10 DEF SkippedBlocks
    <3>2. from > latest_processed_block + 1
      BY <1>4, <2>2, <2>3, <2>10
    <3>3. Cursor!AllAt(latest_processed_block + 1)
      BY <2>5 DEF Cursor!AllAt
    <3>4. Cursor!Skip(from)
      BY <1>2, <2>6, <2>10, <3>1, <3>2, <3>3 DEF Cursor!Skip
    <3> QED BY <2>3, <3>4 DEF Cursor!Next, Cursor!Block, Block
  <2> QED BY <2>8, <2>9, <2>10
<1> QED BY <1>5, <1>6

\* A finished chunk advances the cursor to where all sources are.
LEMMA ChunkDoneSimulates ==
    ASSUME CursorInv, ChunkDone
    PROVE  [Cursor!Next]_(Cursor!vars)
<1>1. TypeOK /\ PlanInv
  BY DEF CursorInv
<1> PICK to : to = ChunkEnd
  OBVIOUS
<1>2. /\ dispatcher = "fetch" /\ \A src \in Source : pending[src] = <<>>
      /\ latest_processed_block' = to
      /\ UNCHANGED <<first, handled, lost, skipped>>
  BY DEF ChunkDone, ChunkEnd, history
<1>3. /\ to \in plan.next .. plan.head /\ plan.next \in Block /\ plan.head \in Block
      /\ latest_processed_block < plan.next /\ first # 0
  BY <1>1, <1>2, ChunkEndBounds DEF PlanInv
<1>4. /\ to \in Block /\ to \in Nat /\ plan.head \in Nat /\ latest_processed_block \in Nat
      /\ to > latest_processed_block
  BY <1>1, <1>3, WatcherAssumption DEF TypeOK, Block
<1>5. \A src \in Source : Frontier(src) = to + 1
  BY <1>2 DEF Frontier, Bottom
<1>6. \A src \in Source : Frontier(src)' = to + 1
  <2>1. CASE to < plan.head
    <3>1. StartChunk(to + 1, plan.head) /\ dispatcher' = "fetch"
      BY <1>2, <1>4, <2>1 DEF ChunkDone, ChunkEnd
    <3>2. to + 1 \in Block /\ to + 1 <= plan.head
      BY <1>3, <1>4, <2>1, WatcherAssumption DEF Block
    <3> QED BY <1>3, <3>1, <3>2, ChunkStarts
  <2>2. CASE to = plan.head
    <3>1. dispatcher' = "idle"
      BY <1>4, <2>2 DEF ChunkDone, ChunkEnd
    <3> QED BY <1>2, <3>1 DEF Frontier
  <2> QED BY <1>3, <1>4, <2>1, <2>2
<1>7. [src \in Source |-> Frontier(src)]' = [src \in Source |-> Frontier(src)]
  BY <1>5, <1>6
<1>8. Cursor!AllAt(to + 1)
  BY <1>5 DEF Cursor!AllAt
<1>9. Cursor!Advance(to)
  BY <1>2, <1>3, <1>4, <1>7, <1>8 DEF Cursor!Advance
<1> QED BY <1>4, <1>9 DEF Cursor!Next, Cursor!Block, Block

\* The dispatcher, with its heads, channels, plans, chunks and bisection, does nothing
\* but move a cursor: each source settles the blocks in ascending order, each once;
\* blocks are skipped for all sources at once and only between two advances; and the
\* cursor stands where all sources are.
THEOREM DispatcherImplementsCursor == Spec => Cursor!Spec
<1>1. Init => Cursor!Init
  <2> SUFFICES ASSUME Init PROVE Cursor!Init
    OBVIOUS
  <2>1. \A src \in Source : Frontier(src) = 1
    BY DEF Init, Frontier
  <2> QED BY <2>1 DEF Init, Cursor!Init
<1>2. CursorInv /\ [Next]_vars => [Cursor!Next]_(Cursor!vars)
  <2> SUFFICES ASSUME CursorInv, [Next]_vars
               PROVE  [Cursor!Next]_(Cursor!vars)
    OBVIOUS
  <2>1. CASE \/ WatcherNext /\ UNCHANGED dispatcherVars
             \/ Start \/ DispatcherCancelled \/ TakeTransfer \/ ListenerCancelled
             \/ ShutdownSignal \/ Terminated \/ UNCHANGED vars
    <3>1. Still /\ batch' = batch
      BY <2>1 DEF Still, dispatcherVars, work, history, Start, DispatcherCancelled,
                  TakeTransfer, ListenerCancelled, ShutdownSignal, Terminated, vars
    <3> QED BY <3>1, StillSimulates
  <2> QED BY <2>1, ReceiveHeadsSimulates, SourceSimulates, ChunkDoneSimulates DEF Next
<1> QED BY <1>1, <1>2, CursorInvariant, PTL DEF Spec, Cursor!Spec
=============================================================================
