-------------------------- MODULE MCSessionPipeline --------------------------
(***************************************************************************)
(* Instance of SessionPipeline for TLC.                                    *)
(***************************************************************************)
EXTENDS SessionPipeline

CONSTANTS weth, usdc    \* WETH9 is always watched

\* The two lists a request may ask for.
MCWatchList == {{weth}, {weth, usdc}}
=============================================================================
