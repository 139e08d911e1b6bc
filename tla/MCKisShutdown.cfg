SPECIFICATION Spec
CONSTANTS
    s1 = s1
    s2 = s2
    c1 = c1
    c2 = c2
    NoSocket = NoSocket
    Sockets <- MCSockets
    Codes <- MCOneCode
    UnsubscribeCodes = {}
    MaxReconnectAttempts = 2
    MaxTimers = 2
    MaxHeartbeats = 2
PROPERTY
    ShutdownStaysDown
CHECK_DEADLOCK FALSE
