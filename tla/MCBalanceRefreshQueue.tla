------------------------ MODULE MCBalanceRefreshQueue ------------------------
(***************************************************************************)
(* Instance of BalanceRefreshQueue for TLC.                                *)
(***************************************************************************)
EXTENDS BalanceRefreshQueue, TLC

\* Every request asks for all tokens: a PUT changes nothing here.
MCWatchList == {Token}

Symmetry == Permutations(Session)
=============================================================================
