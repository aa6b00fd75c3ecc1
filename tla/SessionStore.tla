---------------------------- MODULE SessionStore ----------------------------
(***************************************************************************)
(* What the session registry promises, without handlers, locks, counters,  *)
(* clocks or tasks: a bounded set of live sessions per owner, each with    *)
(* the set of SSE connections attached to it.                              *)
(***************************************************************************)
EXTENDS Naturals, FiniteSets

CONSTANTS Owner, ClientId, Conn, MaxClientsPerOwner

Session == [owner : Owner, client_id : ClientId]

VARIABLES
    live,       \* sessions that exist
    attached,   \* the connections attached to each session
    down        \* the map has been cleared for shutdown

vars == <<live, attached, down>>

Init ==
    /\ live = {}
    /\ attached = [s \in Session |-> {}]
    /\ down = FALSE

\* A session is created for an owner with a slot to spare.
Open(s) ==
    /\ s \in Session \ live
    /\ Cardinality({t \in live : t.owner = s.owner}) < MaxClientsPerOwner
    /\ live' = live \cup {s}
    /\ UNCHANGED <<attached, down>>

\* A connection attaches to a live session, one session at a time.
Attach(s, c) ==
    /\ s \in live
    /\ \A t \in Session : c \notin attached[t]
    /\ attached' = [attached EXCEPT ![s] = @ \cup {c}]
    /\ UNCHANGED <<live, down>>

Detach(s, c) ==
    /\ c \in attached[s]
    /\ attached' = [attached EXCEPT ![s] = @ \ {c}]
    /\ UNCHANGED <<live, down>>

\* A sweep takes away sessions nobody is attached to.
Expire ==
    /\ ~down
    /\ live' \subseteq live
    /\ \A s \in live \ live' : attached[s] = {}
    /\ UNCHANGED <<attached, down>>

\* The shutdown takes all of them away, once.
Shutdown ==
    /\ ~down
    /\ live' = {}
    /\ down' = TRUE
    /\ UNCHANGED attached

Next ==
    \/ \E s \in Session : Open(s)
    \/ \E s \in Session, c \in Conn : Attach(s, c) \/ Detach(s, c)
    \/ Expire
    \/ Shutdown

Spec == Init /\ [][Next]_vars
=============================================================================
