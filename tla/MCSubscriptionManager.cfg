\* Two devices compete for one slot of one owner; two handlers, two connections.
SPECIFICATION Spec
CONSTANTS
    Owner = {o1}
    ClientId = {d1, d2}
    Request = {r1, r2}
    Conn = {c1, c2}
    SubId = {b1, b2, b3}
    MaxClientsPerOwner = 1
    SessionTtl = 1
    MaxLeaks = 1
    Nil = Nil
SYMMETRY Symmetry
PROPERTIES
    ImplementsStore
INVARIANTS
    DeviceIsolation
    TypeOK
    OwnerCap
    ClientsAccounted
    AttachedStaysRegistered
    IdleStamped
    IdleBound
    NoLeakedWatchers
    SpawnedOnce
