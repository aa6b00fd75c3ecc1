----------------------------- MODULE EvmNetwork -----------------------------
(***************************************************************************)
(* The per-chain numbers of domain/evm_network.rs that bound the work of   *)
(* the event dispatcher: block time in milliseconds, the blocks it may be  *)
(* behind before /health fails, and the blocks of one eth_getLogs request. *)
(***************************************************************************)
EXTENDS Naturals

\* block_time, max_block_lag and backfill_chunk_blocks of one network.
Numbers(blockTime, maxBlockLag, chunkBlocks) ==
    [blockTime |-> blockTime, maxBlockLag |-> maxBlockLag, chunkBlocks |-> chunkBlocks]

EvmNetworks ==
    [Eth       |-> Numbers(12000,   3,  2),
     Bnb       |-> Numbers(  750,  40, 13),
     Gnosis    |-> Numbers( 5000,   6,  2),
     Polygon   |-> Numbers( 2000,  15, 15),
     Base      |-> Numbers(  200, 150, 50),
     Plasma    |-> Numbers( 1000,  30, 10),
     Arbitrum  |-> Numbers(  250, 120, 40),
     Avalanche |-> Numbers( 2000,  15,  5),
     Ink       |-> Numbers( 1000,  30, 10),
     Linea     |-> Numbers( 5000,   6,  2),
     Sepolia   |-> Numbers(12000,   3,  1)]

\* On every network the assumptions of EventDispatcher hold, "values never exceed
\* max_block_lag()", and the lag allowed is between 30 and 36 seconds of blocks.
ASSUME NetworksFit ==
    \A n \in DOMAIN EvmNetworks :
        LET net == EvmNetworks[n] IN
        /\ net.chunkBlocks \in 1 .. net.maxBlockLag
        /\ net.maxBlockLag * net.blockTime \in 30000 .. 36000
=============================================================================
