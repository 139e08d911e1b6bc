SPECIFICATION FairSpec
CONSTANTS
    s1 = s1
    s2 = s2
    c1 = c1
    c2 = c2
    NoSocket = NoSocket
    Sockets <- MCSockets
    Codes <- MCCodes
    UnsubscribeCodes <- MCUnsubscribeCodes
    MaxReconnectAttempts = 1
    MaxTimers = 1
    MaxHeartbeats = 2
INVARIANTS
    TypeOK
    OneLiveSocket
    FlagsTellTheTruth
    OneHeartbeat
    SubscribesWithKey
    StreamedIsKnown
    SubscribedIsCurrent
PROPERTIES
    ImplementsLink
    Reconnects
    StreamsListedCodes
\* The process may exit, and then nothing happens any more.
CHECK_DEADLOCK FALSE
