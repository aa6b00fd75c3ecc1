---------------------------- MODULE MCBalanceFeed ----------------------------
(***************************************************************************)
(* Instances of BalanceFeed for TLC.                                       *)
(***************************************************************************)
EXTENDS BalanceFeed, TLC

CONSTANTS weth, usdc    \* WETH9 is always watched

\* The two lists a request may ask for.
MCWatchList == {{weth}, {weth, usdc}}

\* Amounts are only compared for equality.
Symmetry == Permutations(Amount)
=============================================================================
