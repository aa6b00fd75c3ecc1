------------------------ MODULE MCSubscriptionManager ------------------------
(***************************************************************************)
(* Instances of SubscriptionManager for TLC.                               *)
(***************************************************************************)
EXTENDS SubscriptionManager, TLC

\* Interchangeable identities.  Client ids are interchangeable as a whole only
\* together with their sessions, which TLC permutes inside the records.
Symmetry ==
    Permutations(ClientId) \cup Permutations(Request)
        \cup Permutations(Conn) \cup Permutations(SubId)
=============================================================================
