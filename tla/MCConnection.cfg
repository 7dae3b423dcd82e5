CONSTANTS
    MaxSends = 3
    MaxCloses = 2
    MaxPackets = 2
SPECIFICATION Spec
INVARIANTS
    ReleasedOnce
    OneWritePerQueue
    GracefulCloseDelivers
PROPERTIES
    SilentPeerDropped
    ClosedSocketCloses
CHECK_DEADLOCK FALSE
