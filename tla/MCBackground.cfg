SPECIFICATION BackgroundSpec
CONSTANTS
    Calls = {c1, c2}
    Lifetime = 2
    Timeout = 1
    Lag = 1
    NoToken = NoToken
    MaxClock = 4
    MaxTokens = 3
    Endpoints = {get}
    QueryNames = {find}
    Samples = {1, 2}
    critical = critical
    low = low
    LevelOrder <- MCLevels
    ErrorTypes = {typeError, queryError}
    ErrorModules = {stocks}
    WindowSize <- MCWindows
    RecentLimit = 1
    AlertLimit <- MCLimits
    AdviceLimit <- MCLimits
    HoursInDay = 2
    MaxHour = 2
    MaxRecorded = 3
    Channels = {email, websocket}
    MayFail = {email}
    Sends = {s1}
    Retrier = retrier
    Readers = {reader}
    MaxRetries = 2
    MaxNotifications = 2
    Nothing = Nothing
    NotificationTypes = {tradeExecuted}
    DeliveryMethods = {mail, push}
    DefaultMethods = {mail}
    SettingsRequests = {q1, q2}
    MaxSettings = 2
    NoSettings = NoSettings
INVARIANTS
    SentWithUnexpired
    MonitorsAreCurrent
PROPERTIES
    SentMeansTried
    ReadIsFinal
    SendsSettle
    OneRowStaysOne
\* Ids, tokens and time are used up.
CHECK_DEADLOCK FALSE
