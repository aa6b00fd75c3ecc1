------------------------- MODULE MCTokenListFetcher -------------------------
(***************************************************************************)
(* Instance of TokenListFetcher for TLC: two lists of known sources and one*)
(* url that the guard rejects.                                             *)
(***************************************************************************)
EXTENDS TokenListFetcher

CONSTANTS
    weth, usdc, dai, native,    \* addresses
    cow, uniswap, unknown       \* urls

At443(host) == [ok |-> TRUE, scheme |-> "https", host |-> host, private |-> FALSE]

MCParsed ==
    [u \in {cow, uniswap, unknown} |->
        CASE u = cow -> At443("files.cow.fi")
          [] u = uniswap -> At443("ipfs.io")
          [] u = unknown -> At443("example.com")]

Own(a) == [address |-> a, onChain |-> TRUE, parses |-> TRUE]
Foreign(a) == [address |-> a, onChain |-> FALSE, parses |-> TRUE]

\* The first list replaces its token when it is published anew; the second one also
\* names a token of another chain and the native sentinel.
MCList ==
    [u \in {cow, uniswap, unknown} |->
        IF u = cow
        THEN <<{Own(usdc)}, {Own(dai)}>>
        ELSE <<{Own(native), Own(weth), Foreign(dai)}>>]

MCBodies ==
    {[urls |-> {cow}, custom |-> {dai}],
     [urls |-> {cow, uniswap}, custom |-> {}],
     [urls |-> {uniswap, unknown}, custom |-> {}]}
=============================================================================
