-------------------------- MODULE MCEventDispatcher --------------------------
(***************************************************************************)
(* Instances of EventDispatcher for TLC.                                   *)
(***************************************************************************)
EXTENDS EventDispatcher, EvmNetwork
=============================================================================
