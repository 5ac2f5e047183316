SPECIFICATION Spec
CONSTANTS
    Slots = {x, y, z}
    Transports = {t, u, v}
    MaxFds = 5
    Null = null
SYMMETRY Interchangeable
\* A crashed process does nothing more.
CHECK_DEADLOCK FALSE
INVARIANTS
    TypeOK
    SocketsOwned
    ConnectedMeansSocket
