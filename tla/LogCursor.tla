------------------------------ MODULE LogCursor ------------------------------
(***************************************************************************)
(* What the event dispatcher promises about the chain's logs, without      *)
(* heads, channels, plans, chunks or bisection: from the first head on,    *)
(* every source goes through the blocks in ascending order and settles     *)
(* each of them once, and the cursor follows the slowest source.           *)
(***************************************************************************)
EXTENDS Naturals

CONSTANTS Source, MaxBlock

Block == 1 .. MaxBlock

VARIABLES
    first,      \* the first block looked at, 0 before
    cursor,     \* every source is through with the blocks up to here
    next,       \* per source: the lowest block not settled yet
    handled,    \* per source: the blocks whose logs were read
    lost,       \* per source: the blocks whose logs could not be read
    skipped     \* the blocks no source has looked at

vars == <<first, cursor, next, handled, lost, skipped>>

Init ==
    /\ first = 0
    /\ cursor = 0
    /\ next = [src \in Source |-> 1]
    /\ handled = [src \in Source |-> {}]
    /\ lost = [src \in Source |-> {}]
    /\ skipped = {}

\* All sources are done with the blocks before `block` and with none of the later ones.
AllAt(block) == \A src \in Source : next[src] = block

\* History before the first head is nobody's business.
Begin(head) ==
    /\ first = 0
    /\ first' = head
    /\ next' = [src \in Source |-> head]
    /\ UNCHANGED <<cursor, handled, lost, skipped>>

\* The sources read blocks they have not looked at, from the next one on.
Read(src, to) ==
    /\ first # 0
    /\ to >= next[src]
    /\ handled' = [handled EXCEPT ![src] = @ \cup next[src] .. to]
    /\ next' = [next EXCEPT ![src] = to + 1]
    /\ UNCHANGED <<first, cursor, lost, skipped>>

\* A source gives up one block, the next one.
GiveUp(src) ==
    /\ first # 0
    /\ lost' = [lost EXCEPT ![src] = @ \cup {next[src]}]
    /\ next' = [next EXCEPT ![src] = @ + 1]
    /\ UNCHANGED <<first, cursor, handled, skipped>>

\* Blocks are passed over for all sources at once, between two advances of the cursor.
Skip(to) ==
    /\ first # 0
    /\ AllAt(cursor + 1)
    /\ to > cursor + 1
    /\ skipped' = skipped \cup (cursor + 1 .. to - 1)
    /\ next' = [src \in Source |-> to]
    /\ UNCHANGED <<first, cursor, handled, lost>>

\* The cursor moves to where all sources are, never back.
Advance(to) ==
    /\ first # 0
    /\ to > cursor
    /\ AllAt(to + 1)
    /\ cursor' = to
    /\ UNCHANGED <<first, next, handled, lost, skipped>>

Next ==
    \/ \E block \in Block : Begin(block) \/ Skip(block) \/ Advance(block)
    \/ \E src \in Source, block \in Block : Read(src, block)
    \/ \E src \in Source : GiveUp(src)

Spec == Init /\ [][Next]_vars
=============================================================================
