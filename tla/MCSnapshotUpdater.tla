-------------------------- MODULE MCSnapshotUpdater --------------------------
(***************************************************************************)
(* Instance of SnapshotUpdater for TLC.                                    *)
(***************************************************************************)
EXTENDS SnapshotUpdater

CONSTANTS weth, usdc    \* WETH9 is always watched

\* The two lists a request may ask for.
MCWatchList == {{weth}, {weth, usdc}}
=============================================================================
