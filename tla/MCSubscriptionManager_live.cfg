\* Progress: one session, one handler, two connections.
SPECIFICATION FairSpec
CONSTANTS
    Owner = {o1}
    ClientId = {d1}
    Request = {r1}
    Conn = {c1, c2}
    SubId = {b1, b2}
    MaxClientsPerOwner = 1
    SessionTtl = 1
    MaxLeaks = 0
    Nil = Nil
PROPERTIES
    IdleSessionReaped
    OrphanedStreamEnds
