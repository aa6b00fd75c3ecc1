--------------------------- MODULE BalanceSnapshot ---------------------------
(***************************************************************************)
(* The balance map of one Subscription and its two operations              *)
(* (src/src/services/subscription.rs).  A snapshot is a partial function   *)
(* from tokens to [amount, block_number]; a batch of balances read by one  *)
(* multicall is a partial function from tokens to amounts, all read at the *)
(* same block.                                                             *)
(***************************************************************************)
EXTENDS Naturals

\* `retain` of set_watched_tokens.
Retain(snapshot, tokens) == [t \in DOMAIN snapshot \cap tokens |-> snapshot[t]]

\* The block guard: a token is written if it is new or was read strictly earlier.
Applies(snapshot, t, block) ==
    t \notin DOMAIN snapshot \/ snapshot[t].block_number < block

\* Mutant: an update in place is not reported.
DiffNewOnly(snapshot, balances, block) ==
    [t \in DOMAIN balances \ DOMAIN snapshot |-> balances[t]]

\* The diff for clients: applied balances that are new or differ in amount.
Diff(snapshot, balances, block) ==
    [t \in {u \in DOMAIN balances :
              /\ Applies(snapshot, u, block)
              /\ u \in DOMAIN snapshot => snapshot[u].amount # balances[u]}
       |-> balances[t]]

\* Mutant: last writer wins.
MergeUnguarded(snapshot, balances, block) ==
    [t \in DOMAIN snapshot \cup DOMAIN balances |->
        IF t \in DOMAIN balances
        THEN [amount |-> balances[t], block_number |-> block]
        ELSE snapshot[t]]

\* The snapshot after update_balances_and_take_diff.
Merge(snapshot, balances, block) ==
    [t \in DOMAIN snapshot \cup DOMAIN balances |->
        IF t \in DOMAIN balances /\ Applies(snapshot, t, block)
        THEN [amount |-> balances[t], block_number |-> block]
        ELSE snapshot[t]]

\* What a new SSE client is seeded with.
Amounts(snapshot) == [t \in DOMAIN snapshot |-> snapshot[t].amount]

\* What a client holds after applying an update on top of what it had.
Overlay(view, update) ==
    [t \in DOMAIN view \cup DOMAIN update |->
        IF t \in DOMAIN update THEN update[t] ELSE view[t]]
=============================================================================
