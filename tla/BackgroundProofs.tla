-------------------------- MODULE BackgroundProofs --------------------------
(***************************************************************************)
(* Invariants and action properties of what the server does besides: the   *)
(* token of the KIS client, the settings of notifications, notifications and *)
(* the monitors, each for any constants that its module allows.            *)
(***************************************************************************)
EXTENDS KisToken, Monitors, Notifications, NotificationSettings, ReportTheorems

-----------------------------------------------------------------------------
(* The token of the KIS REST client.                                       *)

\* What is cached is a token that KIS issued, with its own expiry.
CacheIsIssued ==
    /\ accessToken = NoToken <=> tokenExpiry = NoToken
    /\ accessToken # NoToken => accessToken \in 1..issued /\ tokenExpiry = expires[accessToken]

\* No call waits for longer than the timeout.
CallsAreRecent ==
    \A c \in Calls : calls[c].at # "idle" =>
        calls[c].since <= clock /\ clock <= calls[c].since + Timeout

\* A token on its way to a call was issued after the call asked.
IssuedSinceAsked ==
    \A c \in Calls : calls[c].at = "refreshing" /\ calls[c].token # NoToken =>
        /\ calls[c].token \in 1..issued
        /\ expires[calls[c].token] >= calls[c].since + Lifetime

TokenInv ==
    KisTokenTypeOK /\ CacheIsIssued /\ CallsAreRecent /\ IssuedSinceAsked /\ SentWithUnexpired

LEMMA TokenInit == KisTokenInit => TokenInv
  BY KisTokenAssumption
     DEF KisTokenInit, TokenInv, KisTokenTypeOK, CacheIsIssued, CallsAreRecent,
         IssuedSinceAsked, SentWithUnexpired, Call, Tokens, Times

\* A call that goes on, the cache and what KIS issued being left alone.
LEMMA CallGoesOn ==
  ASSUME TokenInv, NEW c \in Calls, NEW at \in {"idle", "requesting", "refreshing"},
         NEW token \in Tokens \cup {NoToken}, Becomes(c, at, token),
         UNCHANGED <<clock, issued, expires>>, CacheIsIssued',
         accessToken' \in Tokens \cup {NoToken},
         tokenExpiry' \in 0..(MaxClock + Lifetime) \cup {NoToken},
         at = "refreshing" => token = NoToken,
         at = "requesting" => token \in 1..issued /\ expires[token] > clock - Lag
  PROVE  TokenInv'
  <1>1. /\ calls \in [Calls -> Call]
        /\ \A d \in Calls : calls'[d] = IF d = c THEN [at |-> at, since |-> clock, token |-> token]
                                                 ELSE calls[d]
    BY DEF TokenInv, KisTokenTypeOK, Becomes
  <1>2. KisTokenTypeOK'
    BY <1>1 DEF TokenInv, KisTokenTypeOK, Becomes, Call, Times
  <1>3. CallsAreRecent'
    BY <1>1, KisTokenAssumption DEF TokenInv, KisTokenTypeOK, CallsAreRecent, Times, Call
  <1>4. IssuedSinceAsked'
    BY <1>1 DEF TokenInv, IssuedSinceAsked
  <1>5. SentWithUnexpired'
    BY <1>1 DEF TokenInv, SentWithUnexpired
  <1> QED
    BY <1>2, <1>3, <1>4, <1>5 DEF TokenInv

LEMMA TokenStep == TokenInv /\ [KisTokenNext]_kisTokenVars => TokenInv'
  <1> SUFFICES ASSUME TokenInv, [KisTokenNext]_kisTokenVars PROVE TokenInv'
    OBVIOUS
  <1> USE DEF Tokens
  <1>1. ASSUME NEW c \in Calls, getOverseasStock(c) PROVE TokenInv'
    <2>1. CacheIsIssued'
      BY <1>1 DEF getOverseasStock, Becomes, TokenInv, CacheIsIssued
    <2>2. CASE Valid
      <3>1. /\ accessToken \in 1..issued /\ accessToken \in Tokens
            /\ expires[accessToken] > clock - Lag
        BY <2>2 DEF Valid, TokenInv, CacheIsIssued, KisTokenTypeOK, getCurrentTime
      <3> QED
        BY <1>1, <2>1, <2>2, <3>1, CallGoesOn
           DEF getOverseasStock, TokenInv, KisTokenTypeOK
    <2>3. CASE ~Valid
      BY <1>1, <2>1, <2>3, CallGoesOn DEF getOverseasStock, TokenInv, KisTokenTypeOK
    <2> QED
      BY <2>2, <2>3
  <1>2. ASSUME NEW c \in Calls, Issue(c) PROVE TokenInv'
    <2>1. /\ calls \in [Calls -> Call] /\ issued \in 0..MaxTokens /\ clock \in 0..MaxClock
          /\ expires \in [1..MaxTokens -> 0..(MaxClock + Lifetime)]
      BY DEF TokenInv, KisTokenTypeOK, Times
    <2>2. /\ issued + 1 \in 1..MaxTokens /\ issued' = issued + 1
          /\ expires'[issued + 1] = clock + Lifetime
          /\ \A t \in 1..issued : expires'[t] = expires[t]
          /\ expires' \in [1..MaxTokens -> 0..(MaxClock + Lifetime)]
      BY <1>2, <2>1, KisTokenAssumption DEF Issue
    <2>3. \A d \in Calls : /\ calls'[d].at = calls[d].at /\ calls'[d].since = calls[d].since
                           /\ calls'[d].token = IF d = c THEN issued + 1 ELSE calls[d].token
      BY <1>2, <2>1 DEF Issue, Call
    <2>4. KisTokenTypeOK'
      BY <1>2, <2>1, <2>2 DEF Issue, TokenInv, KisTokenTypeOK, Call
    <2>5. CacheIsIssued'
      BY <1>2, <2>1, <2>2 DEF Issue, TokenInv, CacheIsIssued
    <2>6. CallsAreRecent'
      BY <1>2, <2>3 DEF Issue, TokenInv, CallsAreRecent
    <2>7. IssuedSinceAsked'
      <3>1. calls[c].since <= clock /\ calls[c].since \in Nat
        BY <1>2, <2>1 DEF Issue, TokenInv, CallsAreRecent, Call, Times
      <3>2. clock + Lifetime >= calls[c].since + Lifetime
        BY <3>1, <2>1, KisTokenAssumption
      <3> SUFFICES ASSUME NEW d \in Calls, calls'[d].at = "refreshing", calls'[d].token # NoToken
                   PROVE  /\ calls'[d].token \in 1..issued'
                          /\ expires'[calls'[d].token] >= calls'[d].since + Lifetime
        BY DEF IssuedSinceAsked
      <3>3. CASE d = c
        <4>1. calls'[d].token = issued + 1 /\ calls'[d].since = calls[c].since
          BY <2>3, <3>3
        <4>2. issued + 1 \in 1..issued'
          BY <2>1, <2>2
        <4> QED
          BY <2>2, <3>2, <4>1, <4>2
      <3>4. CASE d # c
        <4>1. /\ calls[d].at = "refreshing" /\ calls'[d].since = calls[d].since
              /\ calls'[d].token = calls[d].token
          BY <2>3, <3>4
        <4>2. /\ calls[d].token \in 1..issued
              /\ expires[calls[d].token] >= calls[d].since + Lifetime
          BY <4>1 DEF TokenInv, IssuedSinceAsked
        <4>3. calls[d].token \in 1..issued'
          BY <2>1, <2>2, <4>2
        <4> QED
          BY <2>2, <4>1, <4>2, <4>3
      <3> QED
        BY <3>3, <3>4
    <2>8. SentWithUnexpired'
      BY <1>2, <2>1, <2>2, <2>3 DEF Issue, TokenInv, SentWithUnexpired
    <2> QED
      BY <2>4, <2>5, <2>6, <2>7, <2>8 DEF TokenInv
  <1>3. ASSUME NEW c \in Calls, refreshAccessToken(c) PROVE TokenInv'
    <2> DEFINE token == calls[c].token
    <2>1. /\ token \in 1..issued /\ token \in Tokens
          /\ expires[token] >= calls[c].since + Lifetime
          /\ expires[token] \in 0..(MaxClock + Lifetime)
      BY <1>3 DEF refreshAccessToken, TokenInv, IssuedSinceAsked, KisTokenTypeOK, Call
    <2>2. clock <= calls[c].since + Timeout /\ calls[c].since \in Nat /\ clock \in Nat
      BY <1>3 DEF refreshAccessToken, TokenInv, CallsAreRecent, KisTokenTypeOK, Call, Times
    <2>3. expires[token] > clock - Lag
      BY <2>1, <2>2, KisTokenAssumption
    <2>4. CacheIsIssued'
      BY <1>3, <2>1, KisTokenAssumption
         DEF refreshAccessToken, CacheIsIssued, TokenInv, KisTokenTypeOK
    <2> QED
      BY <1>3, <2>1, <2>3, <2>4, CallGoesOn DEF refreshAccessToken
  <1>4. ASSUME NEW c \in Calls, RefreshFails(c) PROVE TokenInv'
    <2>1. CacheIsIssued'
      BY <1>4 DEF RefreshFails, CacheIsIssued
    <2> QED
      BY <1>4, <2>1, CallGoesOn DEF RefreshFails
  <1>5. ASSUME NEW c \in Calls, RequestEnds(c) PROVE TokenInv'
    <2>1. CacheIsIssued'
      BY <1>5 DEF RequestEnds, TokenInv, CacheIsIssued
    <2> QED
      BY <1>5, <2>1, CallGoesOn DEF RequestEnds, TokenInv, KisTokenTypeOK
  <1>6. CASE ClockTicks
    <2>1. clock' \in Times /\ clock' = clock + 1 /\ clock \in Nat
      BY <1>6, KisTokenAssumption DEF ClockTicks, TokenInv, KisTokenTypeOK, Times
    <2>2. \A c \in Calls : calls[c].since \in Nat
      BY DEF TokenInv, KisTokenTypeOK, Call, Times
    <2>3. CallsAreRecent'
      BY <1>6, <2>1, <2>2, KisTokenAssumption DEF ClockTicks, TokenInv, CallsAreRecent
    <2> QED
      BY <1>6, <2>1, <2>3
         DEF ClockTicks, TokenInv, KisTokenTypeOK, CacheIsIssued, IssuedSinceAsked,
             SentWithUnexpired
  <1>7. CASE UNCHANGED kisTokenVars
    BY <1>7 DEF kisTokenVars, TokenInv, KisTokenTypeOK, CacheIsIssued, CallsAreRecent,
                IssuedSinceAsked, SentWithUnexpired
  <1> QED
    BY <1>1, <1>2, <1>3, <1>4, <1>5, <1>6, <1>7 DEF KisTokenNext

\* The types of the cache, the calls and the tokens, for any number of calls.
THEOREM TokenTypeCorrect == KisTokenSpec => []KisTokenTypeOK
  <1>1. TokenInv => KisTokenTypeOK
    BY DEF TokenInv
  <1> QED
    BY <1>1, TokenInit, TokenStep, PTL DEF KisTokenSpec

\* Whatever calls overlap and whichever refresh fails, no request of the KIS
\* client is sent with a token that had expired, but for the local time's lag.
THEOREM RequestsHaveUnexpiredTokens == KisTokenSpec => []SentWithUnexpired
  <1>1. TokenInv => SentWithUnexpired
    BY DEF TokenInv
  <1> QED
    BY <1>1, TokenInit, TokenStep, PTL DEF KisTokenSpec

-----------------------------------------------------------------------------
(* The settings of a user.                                                 *)

\* Only a row that is there is removed.
RemovalsHaveIds ==
    \A r \in SettingsRequests :
        settingsRequests[r] # NoSettings /\ settingsRequests[r].removes =>
            settingsRequests[r].id # NoSettings

SettingsInv == SettingsTypeOK /\ RemovalsHaveIds

LEMMA SettingsInitInv == SettingsInit => SettingsInv
  BY NotificationSettingsAssumption
     DEF SettingsInit, SettingsInv, SettingsTypeOK, RemovalsHaveIds, SettingsIds

LEMMA DefaultRowType == DefaultRow \in SettingsRow
  BY NotificationSettingsAssumption DEF DefaultRow, SettingsRow

\* A request that goes on, the tables being left alone or not.
LEMMA SettingsRequestStep ==
  ASSUME SettingsInv, NEW r \in SettingsRequests,
         NEW q \in SettingsRequest \cup {NoSettings},
         settingsRequests' = [settingsRequests EXCEPT ![r] = q],
         settings' \in [SettingsIds -> SettingsRow \cup {NoSettings}],
         inserted' \in 0..MaxSettings,
         q # NoSettings => (q.removes => q.id # NoSettings)
  PROVE  SettingsInv'
  <1>1. SettingsTypeOK'
    BY DEF SettingsInv, SettingsTypeOK
  <1>2. RemovalsHaveIds'
    BY DEF SettingsInv, SettingsTypeOK, RemovalsHaveIds
  <1> QED
    BY <1>1, <1>2 DEF SettingsInv

\* Of a request that is under way.
LEMMA SettingsRequestTypes ==
  ASSUME SettingsInv, NEW r \in SettingsRequests, settingsRequests[r] # NoSettings
  PROVE  /\ settingsRequests[r] \in SettingsRequest
         /\ settingsRequests[r].id \in SettingsIds \cup {NoSettings}
         /\ settingsRequests[r].row \in SettingsRow
         /\ settingsRequests[r].removes \in BOOLEAN
         /\ settingsRequests[r].then # NoSettings =>
              settingsRequests[r].then \in [on : SUBSET NotificationTypes,
                                            off : SUBSET NotificationTypes]
  BY DEF SettingsInv, SettingsTypeOK, SettingsRequest

LEMMA SwitchedType ==
  ASSUME NEW row \in SettingsRow,
         NEW change \in [on : SUBSET NotificationTypes, off : SUBSET NotificationTypes]
  PROVE  Switched(row, change) \in SettingsRow
  BY DEF Switched, SettingsRow

LEMMA SettingsStep == SettingsInv /\ [SettingsNext]_settingsVars => SettingsInv'
  <1> SUFFICES ASSUME SettingsInv, [SettingsNext]_settingsVars PROVE SettingsInv'
    OBVIOUS
  <1>0. /\ settings \in [SettingsIds -> SettingsRow \cup {NoSettings}]
        /\ inserted \in 0..MaxSettings /\ MaxSettings \in Nat
        /\ NoSettings \notin SettingsIds /\ NoSettings \notin SettingsRequest
    BY NotificationSettingsAssumption DEF SettingsInv, SettingsTypeOK
  <1>1. ASSUME NEW r \in SettingsRequests, getUserSettings(r) PROVE SettingsInv'
    <2> DEFINE q == [id |-> NoSettings, row |-> DefaultRow, removes |-> FALSE, then |-> NoSettings]
    <2>1. q \in SettingsRequest
      BY DefaultRowType DEF SettingsRequest
    <2> QED
      BY <1>0, <1>1, <2>1, SettingsRequestStep DEF getUserSettings, GoesOn
  <1>2. ASSUME NEW r \in SettingsRequests, deleteSettings(r) PROVE SettingsInv'
    <2> PICK i \in Rows : GoesOn(r, [id |-> i, row |-> settings[i], removes |-> TRUE,
                                     then |-> NoSettings])
      BY <1>2 DEF deleteSettings
    <2> DEFINE q == [id |-> i, row |-> settings[i], removes |-> TRUE, then |-> NoSettings]
    <2>1. i \in SettingsIds /\ settings[i] \in SettingsRow
      BY <1>0 DEF Rows
    <2>2. q \in SettingsRequest /\ q.id # NoSettings
      BY <1>0, <2>1 DEF SettingsRequest
    <2> QED
      BY <1>0, <2>2, SettingsRequestStep DEF GoesOn
  <1>3. ASSUME NEW r \in SettingsRequests, NEW row \in SettingsRow, createSettings(r, row)
        PROVE  SettingsInv'
    <2> DEFINE q == [id |-> NoSettings, row |-> row, removes |-> FALSE, then |-> NoSettings]
    <2>1. q \in SettingsRequest
      BY DEF SettingsRequest
    <2> QED
      BY <1>0, <1>3, <2>1, SettingsRequestStep DEF createSettings, GoesOn
  <1>4. ASSUME NEW r \in SettingsRequests,
               NEW change \in [on : SUBSET NotificationTypes, off : SUBSET NotificationTypes],
               updateSettings(r, change)
        PROVE  SettingsInv'
    <2>1. ASSUME NEW i \in Rows,
                 GoesOn(r, [id |-> i, row |-> Switched(settings[i], change),
                            removes |-> FALSE, then |-> NoSettings])
          PROVE  SettingsInv'
      <3> DEFINE q == [id |-> i, row |-> Switched(settings[i], change),
                       removes |-> FALSE, then |-> NoSettings]
      <3>1. i \in SettingsIds /\ Switched(settings[i], change) \in SettingsRow
        BY <1>0, SwitchedType DEF Rows
      <3>2. q \in SettingsRequest
        BY <3>1 DEF SettingsRequest
      <3> QED
        BY <1>0, <2>1, <3>2, SettingsRequestStep DEF GoesOn
    <2>2. ASSUME GoesOn(r, [id |-> NoSettings, row |-> DefaultRow, removes |-> FALSE,
                            then |-> change])
          PROVE  SettingsInv'
      <3> DEFINE q == [id |-> NoSettings, row |-> DefaultRow, removes |-> FALSE, then |-> change]
      <3>1. q \in SettingsRequest
        BY DefaultRowType DEF SettingsRequest
      <3> QED
        BY <1>0, <2>2, <3>1, SettingsRequestStep DEF GoesOn
    <2> QED
      BY <1>4, <2>1, <2>2 DEF updateSettings
  <1>5. ASSUME NEW r \in SettingsRequests, WriteSettings(r) PROVE SettingsInv'
    <2>1. settings' \in [SettingsIds -> SettingsRow \cup {NoSettings}]
      BY <1>0, <1>5, SettingsRequestTypes DEF WriteSettings
    <2> QED
      BY <1>0, <1>5, <2>1, SettingsRequestStep DEF WriteSettings
  <1>6. ASSUME NEW r \in SettingsRequests, InsertSettings(r) PROVE SettingsInv'
    <2> DEFINE request == settingsRequests[r]
               next == [id |-> inserted + 1, row |-> Switched(request.row, request.then),
                        removes |-> FALSE, then |-> NoSettings]
    <2>1. /\ request \in SettingsRequest /\ request.row \in SettingsRow
          /\ inserted + 1 \in SettingsIds /\ inserted' = inserted + 1
          /\ settings' = [settings EXCEPT ![inserted + 1] = request.row]
          /\ settingsRequests' = [settingsRequests EXCEPT ![r] =
                IF request.then = NoSettings THEN NoSettings ELSE next]
      BY <1>0, <1>6, SettingsRequestTypes DEF InsertSettings, SettingsIds
    <2>2. inserted' \in 0..MaxSettings
      BY <1>0, <2>1 DEF SettingsIds
    <2>3. settings' \in [SettingsIds -> SettingsRow \cup {NoSettings}]
      BY <1>0, <2>1
    <2>4. CASE request.then = NoSettings
      BY <2>1, <2>2, <2>3, <2>4, SettingsRequestStep
    <2>5. CASE request.then # NoSettings
      <3>1. Switched(request.row, request.then) \in SettingsRow
        BY <1>6, <2>1, <2>5, SettingsRequestTypes, SwitchedType DEF InsertSettings
      <3>2. next \in SettingsRequest /\ ~next.removes
        BY <2>1, <3>1 DEF SettingsRequest
      <3> QED
        BY <2>1, <2>2, <2>3, <2>5, <3>2, SettingsRequestStep
    <2> QED
      BY <2>4, <2>5
  <1>7. ASSUME NEW r \in SettingsRequests, SettingsFail(r) PROVE SettingsInv'
    BY <1>0, <1>7, SettingsRequestStep DEF SettingsFail
  <1>8. CASE UNCHANGED settingsVars
    BY <1>8 DEF settingsVars, SettingsInv, SettingsTypeOK, RemovalsHaveIds
  <1>9. CASE SettingsNext
    <2>1. \A types \in SUBSET NotificationTypes, methods \in SUBSET DeliveryMethods :
            [types |-> types, methods |-> methods] \in SettingsRow
      BY DEF SettingsRow
    <2>2. \A on, off \in SUBSET NotificationTypes :
            [on |-> on, off |-> off] \in [on : SUBSET NotificationTypes,
                                         off : SUBSET NotificationTypes]
      OBVIOUS
    <2> QED
      BY <1>1, <1>2, <1>3, <1>4, <1>5, <1>6, <1>7, <1>9, <2>1, <2>2 DEF SettingsNext
  <1> QED
    BY <1>8, <1>9

LEMMA RowsAreFinite == IsFiniteSet(Rows)
  <1>1. IsFiniteSet(SettingsIds)
    BY FS_Interval, NotificationSettingsAssumption DEF SettingsIds
  <1> QED
    BY <1>1, FS_Subset DEF Rows

\* With a single row, nothing is inserted; a removal leaves no row, and what
\* else is written is the row itself.
LEMMA SingleStep ==
  ASSUME SettingsInv, SettingsNext, Single, Rows' # {}
  PROVE  Single'
  <1>00. Rows # {}
    <2>1. Cardinality(Rows) = 1
      BY DEF Single
    <2> QED
      BY <2>1, FS_EmptySet
  <1>0. /\ Rows # {} /\ Cardinality(Rows) = 1
        /\ \A r \in SettingsRequests :
             settingsRequests[r] # NoSettings /\ ~settingsRequests[r].removes
             => settingsRequests[r].id \in Rows
        /\ settings \in [SettingsIds -> SettingsRow \cup {NoSettings}]
        /\ DOMAIN settingsRequests = SettingsRequests
        /\ NoSettings \notin SettingsIds /\ NoSettings \notin SettingsRow
    BY <1>00, NotificationSettingsAssumption
       DEF Single, Inserting, SettingsInv, SettingsTypeOK
  <1>1. ASSUME NEW r \in SettingsRequests, NEW q,
               settingsRequests' = [settingsRequests EXCEPT ![r] = q], Rows' = Rows,
               q # NoSettings => (q.removes \/ q.id \in Rows)
        PROVE  Single'
    BY <1>0, <1>1 DEF Single, Inserting
  <1>2. ASSUME NEW r \in SettingsRequests, deleteSettings(r) PROVE Single'
    <2> PICK i \in Rows : GoesOn(r, [id |-> i, row |-> settings[i], removes |-> TRUE,
                                     then |-> NoSettings])
      BY <1>2 DEF deleteSettings
    <2> QED
      BY <1>1 DEF GoesOn, Rows
  <1>3. ASSUME NEW r \in SettingsRequests, NEW change, updateSettings(r, change) PROVE Single'
    <2> PICK i \in Rows : GoesOn(r, [id |-> i, row |-> Switched(settings[i], change),
                                     removes |-> FALSE, then |-> NoSettings])
      BY <1>0, <1>3 DEF updateSettings
    <2> QED
      BY <1>1 DEF GoesOn, Rows
  <1>4. ASSUME NEW r \in SettingsRequests, WriteSettings(r) PROVE Single'
    <2> DEFINE id == settingsRequests[r].id
    <2>1. /\ id \in SettingsIds
          /\ settingsRequests' = [settingsRequests EXCEPT ![r] = NoSettings]
          /\ settings' = [settings EXCEPT ![id] =
               IF settingsRequests[r].removes THEN NoSettings ELSE settingsRequests[r].row]
          /\ settingsRequests[r].row \in SettingsRow
      BY <1>4, SettingsRequestTypes DEF WriteSettings
    <2>2. CASE settingsRequests[r].removes
      <3>1. Rows' = Rows \ {id}
        BY <1>0, <2>1, <2>2 DEF Rows
      <3>2. id \notin Rows
        <4> SUFFICES ASSUME id \in Rows PROVE FALSE
          OBVIOUS
        <4>1. Cardinality(Rows \ {id}) = 0 /\ IsFiniteSet(Rows \ {id})
          BY <1>0, RowsAreFinite, FS_RemoveElement
        <4> QED
          BY <3>1, <4>1, FS_EmptySet
      <3> QED
        BY <1>1, <2>1, <3>1, <3>2
    <2>3. CASE ~settingsRequests[r].removes
      <3>1. id \in Rows
        BY <1>0, <1>4, <2>3 DEF WriteSettings
      <3>2. Rows' = Rows
        BY <1>0, <2>1, <2>3, <3>1 DEF Rows
      <3> QED
        BY <1>1, <2>1, <3>2
    <2> QED
      BY <2>2, <2>3
  <1>5. ASSUME NEW r \in SettingsRequests, InsertSettings(r) PROVE FALSE
    <2>1. ~settingsRequests[r].removes /\ settingsRequests[r].id = NoSettings
          /\ settingsRequests[r] # NoSettings
      BY <1>5 DEF InsertSettings, SettingsInv, RemovalsHaveIds
    <2> QED
      BY <1>0, <2>1 DEF Rows
  <1>6. ASSUME NEW r \in SettingsRequests, SettingsFail(r) PROVE Single'
    BY <1>1, <1>6 DEF SettingsFail, Rows
  <1> QED
    BY <1>0, <1>2, <1>3, <1>4, <1>5, <1>6
       DEF SettingsNext, getUserSettings, createSettings

\* The types of a user's settings and of the requests that are under way.
THEOREM SettingsTypeCorrect == SettingsSpec => []SettingsTypeOK
  <1>1. SettingsInv => SettingsTypeOK
    BY DEF SettingsInv
  <1> QED
    BY <1>1, SettingsInitInv, SettingsStep, PTL DEF SettingsSpec

\* A user with a single row of settings has a single one until it is deleted,
\* whatever requests of the user overlap.
THEOREM OneRowAlwaysStaysOne == SettingsSpec => OneRowStaysOne
  <1>1. SettingsInv /\ [SettingsNext]_settingsVars
        => [Single /\ Rows' # {} => Single']_settingsVars
    BY SingleStep
  <1> QED
    BY <1>1, SettingsInitInv, SettingsStep, PTL DEF SettingsSpec, OneRowStaysOne

-----------------------------------------------------------------------------
(* Notifications.                                                          *)

\* A channel has failed only after its last attempt, and waits before another.
ChannelsTry ==
    \A s \in Senders : sends[s] # Nothing =>
        \A c \in DOMAIN sends[s].channels :
            /\ sends[s].channels[c].state = "failed" => sends[s].channels[c].attempt = MaxRetries
            /\ sends[s].channels[c].state = "waiting" => sends[s].channels[c].attempt < MaxRetries

\* A send that writes its status has settled, and has a row unless it is creating it.
SentAfterAll ==
    \A s \in Senders : sends[s] # Nothing =>
        /\ sends[s].step \in {"SENT", "FAILED"} => Settled(sends[s])
        /\ sends[s].step # "creating" => sends[s].id \in NotificationIds

\* Who is going to write SENT is the send of the notification.
UpdatesAreOfSends ==
    \A u \in Senders \cup Readers : updates[u] # Nothing /\ updates[u].status = "SENT" =>
        /\ u \in Senders /\ sends[u] # Nothing
        /\ sends[u].step = "SENT" /\ sends[u].id = updates[u].id

NotificationsInv ==
    NotificationsTypeOK /\ ChannelsTry /\ SentAfterAll /\ UpdatesAreOfSends

LEMMA NotificationsInitInv == NotificationsInit => NotificationsInv
  BY NotificationsAssumption
     DEF NotificationsInit, NotificationsInv, NotificationsTypeOK, ChannelsTry, SentAfterAll,
         UpdatesAreOfSends

\* Channels of a send, as a set of functions without a union.
LEMMA SendType ==
  /\ \A send \in Send :
       /\ DOMAIN send.channels \subseteq Channels
       /\ send.channels \in [DOMAIN send.channels -> Delivery]
  /\ \A step \in {"creating", "delivering", "SENT", "FAILED"},
        id \in NotificationIds \cup {Nothing}, on \in SUBSET Channels :
       \A channels \in [on -> Delivery] :
         [step |-> step, id |-> id, channels |-> channels] \in Send
  BY DEF Send

\* A send that goes on, is new or has ended, its update being kept or gone.
LEMMA SendGoesOn ==
  ASSUME NotificationsInv, NEW s \in Senders, NEW send \in Send \cup {Nothing},
         SendBecomes(s, send),
         notifications' \in [NotificationIds -> NotificationStatus \cup {Nothing}],
         created' \in 0..MaxNotifications, retries' \subseteq NotificationIds,
         updates' \in [Senders \cup Readers -> Update \cup {Nothing}],
         \A u \in Senders \cup Readers : updates'[u] # Nothing => updates'[u] = updates[u],
         updates'[s] # Nothing => updates[s].status # "SENT",
         send # Nothing =>
           /\ \A c \in DOMAIN send.channels :
                /\ send.channels[c].state = "failed" => send.channels[c].attempt = MaxRetries
                /\ send.channels[c].state = "waiting" => send.channels[c].attempt < MaxRetries
           /\ send.step \in {"SENT", "FAILED"} => Settled(send)
           /\ send.step # "creating" => send.id \in NotificationIds
  PROVE  NotificationsInv'
  <1>1. /\ sends \in [Senders -> Send \cup {Nothing}]
        /\ \A q \in Senders : sends'[q] = IF q = s THEN send ELSE sends[q]
    BY DEF NotificationsInv, NotificationsTypeOK, SendBecomes
  <1>2. NotificationsTypeOK'
    BY <1>1 DEF NotificationsInv, NotificationsTypeOK, SendBecomes
  <1>3. ChannelsTry'
    BY <1>1 DEF NotificationsInv, ChannelsTry
  <1>4. SentAfterAll'
    BY <1>1 DEF NotificationsInv, SentAfterAll
  <1>5. UpdatesAreOfSends'
    BY <1>1 DEF NotificationsInv, UpdatesAreOfSends
  <1> QED
    BY <1>2, <1>3, <1>4, <1>5 DEF NotificationsInv

\* The same where only the sends change.
LEMMA OnlySendGoesOn ==
  ASSUME NotificationsInv, NEW s \in Senders, NEW send \in Send,
         SendBecomes(s, send), UNCHANGED <<notifications, created, updates>>,
         retries' \subseteq NotificationIds,
         sends[s] # Nothing => sends[s].step # "SENT",
         \A c \in DOMAIN send.channels :
           /\ send.channels[c].state = "failed" => send.channels[c].attempt = MaxRetries
           /\ send.channels[c].state = "waiting" => send.channels[c].attempt < MaxRetries,
         send.step \in {"SENT", "FAILED"} => Settled(send),
         send.step # "creating" => send.id \in NotificationIds
  PROVE  NotificationsInv'
  BY SendGoesOn DEF NotificationsInv, NotificationsTypeOK, UpdatesAreOfSends

\* An update that starts or ends, the sends being left alone.
LEMMA UpdateStep ==
  ASSUME NotificationsInv, NEW u \in Senders \cup Readers, NEW update \in Update \cup {Nothing},
         updates' = [updates EXCEPT ![u] = update],
         notifications' \in [NotificationIds -> NotificationStatus \cup {Nothing}],
         UNCHANGED <<created, sends, retries>>,
         update # Nothing /\ update.status = "SENT" =>
           /\ u \in Senders /\ sends[u] # Nothing
           /\ sends[u].step = "SENT" /\ sends[u].id = update.id
  PROVE  NotificationsInv'
  <1>1. NotificationsTypeOK'
    BY DEF NotificationsInv, NotificationsTypeOK
  <1>2. ChannelsTry' /\ SentAfterAll'
    BY DEF NotificationsInv, ChannelsTry, SentAfterAll
  <1>3. UpdatesAreOfSends'
    BY DEF NotificationsInv, NotificationsTypeOK, UpdatesAreOfSends
  <1> QED
    BY <1>1, <1>2, <1>3 DEF NotificationsInv

\* What a write leaves in the table.
LEMMA WritesType ==
  ASSUME NotificationsInv, NEW u \in Senders \cup Readers, Writes(u)
  PROVE  /\ notifications' \in [NotificationIds -> NotificationStatus \cup {Nothing}]
         /\ updates[u] \in Update
  BY DEF Writes, NotificationsInv, NotificationsTypeOK, Update

LEMMA FirstAttemptsType ==
  ASSUME NEW on \in SUBSET Channels
  PROVE  /\ FirstAttempts(on) \in [on -> Delivery]
         /\ \A c \in on : FirstAttempts(on)[c].state = "trying"
  BY NotificationsAssumption DEF FirstAttempts, Delivery

\* A channel of a send that is being delivered goes on.
LEMMA DeliveryStep ==
  ASSUME NotificationsInv, NEW s \in Senders, NEW c \in Channels,
         NEW state, Delivering(s, c, state), NEW delivery \in Delivery,
         DeliveryBecomes(s, c, delivery),
         delivery.state = "failed" => delivery.attempt = MaxRetries,
         delivery.state = "waiting" => delivery.attempt < MaxRetries
  PROVE  NotificationsInv'
  <1> DEFINE on == DOMAIN sends[s].channels
             channels == [sends[s].channels EXCEPT ![c] = delivery]
             send == [sends[s] EXCEPT !.channels[c] = delivery]
  <1>1. sends[s] \in Send /\ sends[s].step = "delivering" /\ c \in on
    BY DEF Delivering, NotificationsInv, NotificationsTypeOK
  <1>2. on \in SUBSET Channels /\ sends[s].channels \in [on -> Delivery]
    BY <1>1, SendType
  <1>3. channels \in [on -> Delivery]
    BY <1>2
  <1>4. send = [step |-> "delivering", id |-> sends[s].id, channels |-> channels]
    BY <1>1 DEF Send
  <1>5. send \in Send
    <2>1. sends[s].id \in NotificationIds \cup {Nothing}
      BY <1>1 DEF Send
    <2> QED
      BY <1>2, <1>3, <1>4, <2>1, SendType
  <1>6. \A d \in on : send.channels[d] = IF d = c THEN delivery ELSE sends[s].channels[d]
    BY <1>1, <1>2, <1>4
  <1>7. DOMAIN send.channels = on
    BY <1>2, <1>4
  <1>8. sends[s] # Nothing /\ sends[s].id \in NotificationIds
    BY <1>1 DEF Delivering, NotificationsInv, SentAfterAll
  <1>9. \A d \in DOMAIN send.channels :
          /\ send.channels[d].state = "failed" => send.channels[d].attempt = MaxRetries
          /\ send.channels[d].state = "waiting" => send.channels[d].attempt < MaxRetries
    BY <1>6, <1>7, <1>8 DEF NotificationsInv, ChannelsTry
  <1>10. retries' \subseteq NotificationIds
    BY DEF DeliveryBecomes, NotificationsInv, NotificationsTypeOK
  <1>11. SendBecomes(s, send) /\ UNCHANGED <<notifications, created, updates>>
    BY DEF DeliveryBecomes
  <1>12. send.step = "delivering" /\ send.id \in NotificationIds
    BY <1>4, <1>8
  <1> HIDE DEF send
  <1> QED
    BY <1>1, <1>5, <1>9, <1>10, <1>11, <1>12, OnlySendGoesOn

\* The steps of a send.
LEMMA SendStepInv ==
  ASSUME NotificationsInv, NEW s \in Senders, SendStep(s) PROVE NotificationsInv'
  <1>0. /\ notifications \in [NotificationIds -> NotificationStatus \cup {Nothing}]
        /\ created \in 0..MaxNotifications /\ retries \subseteq NotificationIds
        /\ updates \in [Senders \cup Readers -> Update \cup {Nothing}]
        /\ sends[s] # Nothing => sends[s] \in Send
        /\ Nothing \notin Send /\ Nothing \notin Update /\ MaxNotifications \in Nat
        /\ MaxRetries \in Nat \ {0}
    BY NotificationsAssumption DEF NotificationsInv, NotificationsTypeOK
  <1>1. CASE createNotification(s)
    <2> DEFINE send == [sends[s] EXCEPT !.step = "delivering", !.id = created + 1]
    <2>1. /\ sends[s] \in Send /\ sends[s].step = "creating" /\ created + 1 \in NotificationIds
          /\ created' \in 0..MaxNotifications
      BY <1>0, <1>1 DEF createNotification, NotificationIds
    <2>2. send \in Send /\ send.step = "delivering" /\ send.id \in NotificationIds
          /\ send.channels = sends[s].channels
      BY <2>1 DEF Send
    <2>3. notifications' \in [NotificationIds -> NotificationStatus \cup {Nothing}]
      BY <1>0, <1>1 DEF createNotification, NotificationStatus
    <2>4. updates[s] # Nothing => updates[s].status # "SENT"
      BY <2>1 DEF NotificationsInv, UpdatesAreOfSends
    <2>5. /\ SendBecomes(s, send) /\ UNCHANGED <<updates, retries>> /\ sends[s] # Nothing
      BY <1>1 DEF createNotification
    <2>6. \A c \in DOMAIN send.channels :
            /\ send.channels[c].state = "failed" => send.channels[c].attempt = MaxRetries
            /\ send.channels[c].state = "waiting" => send.channels[c].attempt < MaxRetries
      BY <2>2, <2>5 DEF NotificationsInv, ChannelsTry
    <2> HIDE DEF send
    <2> QED
      BY <1>0, <2>1, <2>2, <2>3, <2>4, <2>5, <2>6, SendGoesOn
  <1>2. ASSUME NEW c \in Channels, Succeeds(s, c) \/ AttemptFails(s, c) \/ TriesAgain(s, c)
        PROVE  NotificationsInv'
    <2> DEFINE delivery == sends[s].channels[c]
    <2>1. sends[s] \in Send /\ c \in DOMAIN sends[s].channels /\ sends[s] # Nothing
      BY <1>0, <1>2 DEF Succeeds, AttemptFails, TriesAgain, Delivering
    <2>2. delivery \in Delivery
      BY <2>1, SendType
    <2>3. delivery.state = "waiting" => delivery.attempt < MaxRetries
      BY <2>1 DEF NotificationsInv, ChannelsTry
    <2>4. CASE Succeeds(s, c)
      <3>1. [delivery EXCEPT !.state = "delivered"] \in Delivery
        BY <2>2 DEF Delivery
      <3>2. [delivery EXCEPT !.state = "delivered"].state = "delivered"
        BY <2>2 DEF Delivery
      <3> QED
        BY <2>4, <3>1, <3>2, DeliveryStep DEF Succeeds
    <2>5. CASE AttemptFails(s, c)
      <3> DEFINE next == [delivery EXCEPT
                            !.state = IF delivery.attempt = MaxRetries THEN "failed" ELSE "waiting"]
      <3>1. /\ next \in Delivery
            /\ next.state = "failed" => next.attempt = MaxRetries
            /\ next.state = "waiting" => next.attempt < MaxRetries
        BY <1>0, <2>2 DEF Delivery
      <3> QED
        BY <2>5, <3>1, DeliveryStep DEF AttemptFails
    <2>6. CASE TriesAgain(s, c)
      <3> DEFINE next == [attempt |-> delivery.attempt + 1, state |-> "trying"]
      <3>1. next \in Delivery
        BY <1>0, <2>2, <2>3, <2>6 DEF Delivery, TriesAgain, Delivering
      <3> QED
        BY <2>6, <3>1, DeliveryStep DEF TriesAgain
    <2> QED
      BY <1>2, <2>4, <2>5, <2>6
  <1>3. CASE AllSettled(s)
    <2> DEFINE send == [sends[s] EXCEPT !.step = "SENT"]
    <2>1. /\ sends[s] \in Send /\ sends[s] # Nothing /\ sends[s].step = "delivering"
          /\ Settled(sends[s]) /\ sends[s].id \in NotificationIds
      BY <1>0, <1>3 DEF AllSettled, NotificationsInv, SentAfterAll
    <2>2. /\ send \in Send /\ send.id = sends[s].id /\ send.channels = sends[s].channels
      BY <2>1 DEF Send
    <2>3. Settled(send)
      BY <2>1, <2>2 DEF Settled
    <2>4. \A c \in DOMAIN send.channels :
            /\ send.channels[c].state = "failed" => send.channels[c].attempt = MaxRetries
            /\ send.channels[c].state = "waiting" => send.channels[c].attempt < MaxRetries
      BY <2>1, <2>2 DEF NotificationsInv, ChannelsTry
    <2>5. SendBecomes(s, send) /\ UNCHANGED <<notifications, created, updates, retries>>
      BY <1>3 DEF AllSettled
    <2> HIDE DEF send
    <2> QED
      BY <1>0, <2>1, <2>2, <2>3, <2>4, <2>5, OnlySendGoesOn
  <1>4. CASE FindsSent(s)
    <2>1. /\ sends[s] \in Send /\ sends[s] # Nothing /\ sends[s].step \in {"SENT", "FAILED"}
          /\ sends[s].id \in NotificationIds
      BY <1>0, <1>4 DEF FindsSent, NotificationsInv, SentAfterAll
    <2>2. [id |-> sends[s].id, status |-> sends[s].step] \in Update
      BY <2>1 DEF Update, NotificationStatus
    <2> QED
      BY <1>0, <1>4, <2>1, <2>2, UpdateStep DEF FindsSent, Finds
  <1>5. CASE WritesSent(s)
    <2>1. /\ updates' = [updates EXCEPT ![s] = Nothing] /\ SendBecomes(s, Nothing)
          /\ UNCHANGED <<created, retries>>
          /\ notifications' \in [NotificationIds -> NotificationStatus \cup {Nothing}]
      BY <1>5, WritesType DEF WritesSent, Writes
    <2> QED
      BY <1>0, <2>1, SendGoesOn
  <1>6. CASE SendFails(s)
    <2> DEFINE send == IF sends[s].step = "SENT" THEN [sends[s] EXCEPT !.step = "FAILED"] ELSE Nothing
    <2>1. /\ updates' = [updates EXCEPT ![s] = Nothing] /\ SendBecomes(s, send)
          /\ sends[s] # Nothing /\ sends[s] \in Send
          /\ UNCHANGED <<notifications, created, retries>>
      BY <1>0, <1>6 DEF SendFails
    <2>2. CASE sends[s].step = "SENT"
      <3>1. /\ send \in Send /\ send.id = sends[s].id /\ send.channels = sends[s].channels
        BY <2>1, <2>2 DEF Send
      <3>2. Settled(send) /\ send.id \in NotificationIds
        BY <2>1, <2>2, <3>1 DEF Settled, NotificationsInv, SentAfterAll
      <3>3. \A c \in DOMAIN send.channels :
              /\ send.channels[c].state = "failed" => send.channels[c].attempt = MaxRetries
              /\ send.channels[c].state = "waiting" => send.channels[c].attempt < MaxRetries
        BY <2>1, <3>1 DEF NotificationsInv, ChannelsTry
      <3> HIDE DEF send
      <3> QED
        BY <1>0, <2>1, <3>1, <3>2, <3>3, SendGoesOn
    <2>3. CASE sends[s].step # "SENT"
      BY <1>0, <2>1, <2>3, SendGoesOn
    <2> QED
      BY <2>2, <2>3
  <1> QED
    BY <1>1, <1>2, <1>3, <1>4, <1>5, <1>6 DEF SendStep

\* A send that starts: of a new notification, or of one that failed.
LEMMA FirstAttemptsStep ==
  ASSUME NotificationsInv, NEW s \in Senders, NEW on \in SUBSET Channels,
         NEW step \in {"creating", "delivering"}, NEW id \in NotificationIds \cup {Nothing},
         sends[s] = Nothing,
         SendBecomes(s, [step |-> step, id |-> id, channels |-> FirstAttempts(on)]),
         UNCHANGED <<notifications, created, updates>>, retries' \subseteq NotificationIds,
         step # "creating" => id \in NotificationIds
  PROVE  NotificationsInv'
  <1> DEFINE send == [step |-> step, id |-> id, channels |-> FirstAttempts(on)]
  <1>1. send \in Send
    BY FirstAttemptsType, SendType
  <1>2. DOMAIN send.channels = on /\ \A c \in on : send.channels[c].state = "trying"
    BY FirstAttemptsType
  <1> QED
    BY <1>1, <1>2, OnlySendGoesOn

LEMMA NotificationsStep ==
  NotificationsInv /\ [NotificationsNext]_notificationsVars => NotificationsInv'
  <1> SUFFICES ASSUME NotificationsInv, [NotificationsNext]_notificationsVars
               PROVE  NotificationsInv'
    OBVIOUS
  <1>0. /\ notifications \in [NotificationIds -> NotificationStatus \cup {Nothing}]
        /\ retries \subseteq NotificationIds /\ Retrier \in Senders /\ Sends \subseteq Senders
    BY DEF NotificationsInv, NotificationsTypeOK, Senders
  <1>1. CASE HandleEvent
    <2> PICK s \in Sends, on \in SUBSET Channels : sendNotificationToUser(s, on)
      BY <1>1 DEF HandleEvent
    <2> QED
      BY <1>0, FirstAttemptsStep DEF sendNotificationToUser
  <1>2. ASSUME NEW s \in Senders, SendStep(s) PROVE NotificationsInv'
    BY <1>2, SendStepInv
  <1>3. ASSUME NEW r \in Readers, NEW i \in NotificationIds, markNotificationAsRead(r, i)
        PROVE  NotificationsInv'
    <2>1. [id |-> i, status |-> "READ"] \in Update
      BY DEF Update, NotificationStatus
    <2> QED
      BY <1>0, <1>3, <2>1, UpdateStep DEF markNotificationAsRead, Finds
  <1>4. ASSUME NEW r \in Readers, MarksAsRead(r) PROVE NotificationsInv'
    BY <1>4, WritesType, UpdateStep DEF MarksAsRead, Writes
  <1>5. ASSUME NEW r \in Readers, ReadFails(r) PROVE NotificationsInv'
    BY <1>0, <1>5, UpdateStep DEF ReadFails
  <1>6. CASE cleanupOldNotifications
    <2>1. notifications' \in [NotificationIds -> NotificationStatus \cup {Nothing}]
      BY <1>0, <1>6 DEF cleanupOldNotifications
    <2> QED
      BY <1>6, <2>1
         DEF cleanupOldNotifications, NotificationsInv, NotificationsTypeOK, ChannelsTry,
             SentAfterAll, UpdatesAreOfSends
  <1>7. CASE retryFailedNotifications
    BY <1>7
       DEF retryFailedNotifications, Failed, NotificationsInv, NotificationsTypeOK, ChannelsTry,
           SentAfterAll, UpdatesAreOfSends
  <1>8. CASE RetryStep
    <2>1. ASSUME NEW i \in NotificationIds, NEW on \in SUBSET Channels, Retry(i, on)
          PROVE  NotificationsInv'
      BY <1>0, <2>1, FirstAttemptsStep DEF Retry
    <2>2. ASSUME NEW i \in NotificationIds, RetrySkips(i) PROVE NotificationsInv'
      BY <1>0, <2>2
         DEF RetrySkips, NotificationsInv, NotificationsTypeOK, ChannelsTry, SentAfterAll,
             UpdatesAreOfSends
    <2> QED
      BY <1>8, <2>1, <2>2 DEF RetryStep
  <1>9. CASE Restart
    BY <1>9
       DEF Restart, NotificationsInv, NotificationsTypeOK, ChannelsTry, SentAfterAll,
           UpdatesAreOfSends
  <1>10. CASE UNCHANGED notificationsVars
    BY <1>10
       DEF notificationsVars, NotificationsInv, NotificationsTypeOK, ChannelsTry, SentAfterAll,
           UpdatesAreOfSends, Settled
  <1> QED
    BY <1>1, <1>2, <1>3, <1>4, <1>5, <1>6, <1>7, <1>8, <1>9, <1>10 DEF NotificationsNext

\* Only a save changes the table to SENT, and then the send has settled.
LEMMA SentStep ==
  ASSUME NotificationsInv, NotificationsNext, NEW i \in NotificationIds,
         notifications[i] # "SENT", notifications'[i] = "SENT"
  PROVE  \E s \in Senders :
           /\ sends[s] # Nothing /\ sends[s].id = i
           /\ \A c \in DOMAIN sends[s].channels : Tried(sends[s].channels[c])
  <1>0. /\ notifications \in [NotificationIds -> NotificationStatus \cup {Nothing}]
        /\ Nothing \notin NotificationStatus /\ "SENT" \in NotificationStatus
    BY NotificationsAssumption DEF NotificationsInv, NotificationsTypeOK, NotificationStatus
  <1>1. ASSUME NEW u \in Senders \cup Readers, Writes(u)
        PROVE  \E s \in Senders :
                 /\ sends[s] # Nothing /\ sends[s].id = i
                 /\ \A c \in DOMAIN sends[s].channels : Tried(sends[s].channels[c])
    <2>1. updates[u] # Nothing /\ updates[u].id = i /\ updates[u].status = "SENT"
      BY <1>0, <1>1 DEF Writes
    <2>2. u \in Senders /\ sends[u] # Nothing /\ sends[u].step = "SENT" /\ sends[u].id = i
      BY <2>1 DEF NotificationsInv, UpdatesAreOfSends
    <2>3. Settled(sends[u])
      BY <2>2 DEF NotificationsInv, SentAfterAll
    <2>4. \A c \in DOMAIN sends[u].channels : Tried(sends[u].channels[c])
      BY <2>2, <2>3 DEF NotificationsInv, ChannelsTry, Settled, Tried
    <2> QED
      BY <2>2, <2>4
  <1>2. ASSUME notifications' = notifications PROVE FALSE
    BY <1>2
  <1>3. ASSUME NEW s \in Senders, SendStep(s)
        PROVE  \E q \in Senders : Writes(q)
    <2>1. ~createNotification(s)
      BY <1>0 DEF createNotification
    <2> QED
      BY <1>2, <1>3, <2>1
         DEF SendStep, Succeeds, AttemptFails, TriesAgain, DeliveryBecomes, AllSettled, FindsSent,
             WritesSent, SendFails
  <1>4. CASE cleanupOldNotifications
    BY <1>0, <1>4 DEF cleanupOldNotifications
  <1> QED
    BY <1>1, <1>2, <1>3, <1>4
       DEF NotificationsNext, HandleEvent, sendNotificationToUser, markNotificationAsRead,
           MarksAsRead, ReadFails, retryFailedNotifications, RetryStep, Retry, RetrySkips, Restart

\* A notification that was read and that no send has is one that no step sends.
LEMMA ReadStep ==
  ASSUME NotificationsInv, NotificationsNext, NEW i \in NotificationIds, Read(i)
  PROVE  Read(i)'
  <1>0. /\ notifications \in [NotificationIds -> NotificationStatus \cup {Nothing}]
        /\ sends \in [Senders -> Send \cup {Nothing}]
        /\ updates \in [Senders \cup Readers -> Update \cup {Nothing}]
        /\ created \in Nat /\ i \in Nat
        /\ Nothing \notin NotificationStatus /\ Nothing \notin NotificationIds
        /\ Nothing \notin Send /\ Nothing \notin Update
    BY NotificationsAssumption DEF NotificationsInv, NotificationsTypeOK, NotificationIds
  <1>1. /\ i <= created /\ notifications[i] \in {"READ", Nothing} /\ i \notin retries
        /\ \A s \in Senders : sends[s] # Nothing => sends[s].id # i
        /\ \A u \in Senders \cup Readers :
             updates[u] # Nothing /\ updates[u].id = i => updates[u].status = "READ"
    BY <1>0 DEF Read
  <1>2. ASSUME NEW s \in Senders, NEW send, SendBecomes(s, send),
               send # Nothing => send.id # i,
               UNCHANGED <<notifications, created, updates>>, i \notin retries'
        PROVE  Read(i)'
    BY <1>0, <1>1, <1>2 DEF SendBecomes, Read
  <1>3. ASSUME NEW u \in Senders \cup Readers, Writes(u)
        PROVE  /\ notifications'[i] \in {"READ", Nothing}
               /\ \A v \in Senders \cup Readers :
                    updates'[v] # Nothing => updates'[v] = updates[v]
               /\ DOMAIN updates' = Senders \cup Readers
    BY <1>0, <1>1, <1>3 DEF Writes
  <1>4. CASE HandleEvent
    <2> PICK s \in Sends, on \in SUBSET Channels : sendNotificationToUser(s, on)
      BY <1>4 DEF HandleEvent
    <2> DEFINE send == [step |-> "creating", id |-> Nothing, channels |-> FirstAttempts(on)]
    <2>1. send.id # i
      BY <1>0
    <2> HIDE DEF send
    <2>2. SendBecomes(s, send) /\ UNCHANGED <<notifications, created, updates, retries>> /\ s \in Senders
      BY DEF sendNotificationToUser, send, Senders
    <2> QED
      BY <1>1, <1>2, <2>1, <2>2
  <1>5. ASSUME NEW s \in Senders, SendStep(s) PROVE Read(i)'
    <2>0. sends[s] # Nothing => sends[s] \in Send
      BY <1>0
    <2>1. CASE createNotification(s)
      <3>1. /\ created' = created + 1 /\ UNCHANGED <<updates, retries>>
            /\ notifications'[i] = notifications[i]
            /\ sends' = [sends EXCEPT ![s] = [sends[s] EXCEPT !.step = "delivering",
                                                              !.id = created + 1]]
            /\ sends[s] \in Send
        BY <1>0, <1>1, <2>0, <2>1 DEF createNotification, SendBecomes
      <3>2. [sends[s] EXCEPT !.step = "delivering", !.id = created + 1].id # i
        BY <1>0, <1>1, <3>1 DEF Send
      <3>3. \A q \in Senders : sends'[q] # Nothing => sends'[q].id # i
        BY <1>0, <1>1, <3>1, <3>2
      <3> QED
        BY <1>0, <1>1, <3>1, <3>3 DEF Read
    <2>2. ASSUME NEW c \in Channels, NEW delivery, DeliveryBecomes(s, c, delivery), sends[s] # Nothing
          PROVE  Read(i)'
      <3>1. [sends[s] EXCEPT !.channels[c] = delivery].id = sends[s].id
        BY <2>0, <2>2 DEF Send
      <3> QED
        BY <1>1, <1>2, <2>2, <3>1 DEF DeliveryBecomes
    <2>3. CASE AllSettled(s)
      <3>1. [sends[s] EXCEPT !.step = "SENT"].id = sends[s].id
        BY <2>0, <2>3 DEF AllSettled, Send
      <3> QED
        BY <1>1, <1>2, <2>3, <3>1 DEF AllSettled
    <2>4. CASE FindsSent(s)
      BY <1>0, <1>1, <2>4 DEF FindsSent, Finds, Read
    <2>5. CASE WritesSent(s)
      BY <1>0, <1>1, <1>3, <2>5 DEF WritesSent, SendBecomes, Read
    <2>6. CASE SendFails(s)
      <3>1. sends[s] # Nothing => [sends[s] EXCEPT !.step = "FAILED"].id = sends[s].id
        BY <2>0 DEF Send
      <3> QED
        BY <1>0, <1>1, <2>6, <3>1 DEF SendFails, SendBecomes, Read
    <2> QED
      BY <1>5, <2>1, <2>2, <2>3, <2>4, <2>5, <2>6
         DEF SendStep, Succeeds, AttemptFails, TriesAgain, Delivering
  <1>6. ASSUME NEW r \in Readers, NEW j \in NotificationIds, markNotificationAsRead(r, j)
        PROVE  Read(i)'
    BY <1>0, <1>1, <1>6 DEF markNotificationAsRead, Finds, Read
  <1>7. ASSUME NEW r \in Readers, MarksAsRead(r) \/ ReadFails(r) PROVE Read(i)'
    <2>1. CASE MarksAsRead(r)
      BY <1>1, <1>3, <2>1 DEF MarksAsRead, Read
    <2>2. CASE ReadFails(r)
      BY <1>0, <1>1, <2>2 DEF ReadFails, Read
    <2> QED
      BY <1>7, <2>1, <2>2
  <1>8. CASE cleanupOldNotifications
    BY <1>0, <1>1, <1>8 DEF cleanupOldNotifications, Read
  <1>9. CASE retryFailedNotifications
    BY <1>0, <1>1, <1>9 DEF retryFailedNotifications, Failed, NotificationStatus, Read
  <1>10. CASE RetryStep
    <2>1. ASSUME NEW j \in NotificationIds, NEW on \in SUBSET Channels, Retry(j, on)
          PROVE  Read(i)'
      <3>1. j # i /\ i \notin retries' /\ Retrier \in Senders
        BY <1>1, <2>1 DEF Retry, Senders
      <3> QED
        BY <1>2, <2>1, <3>1 DEF Retry
    <2>2. ASSUME NEW j \in NotificationIds, RetrySkips(j) PROVE Read(i)'
      BY <1>1, <2>2 DEF RetrySkips, Read
    <2> QED
      BY <1>10, <2>1, <2>2 DEF RetryStep
  <1>11. CASE Restart
    BY <1>0, <1>1, <1>11 DEF Restart, Read
  <1> QED
    BY <1>4, <1>5, <1>6, <1>7, <1>8, <1>9, <1>10, <1>11 DEF NotificationsNext

\* The types of the notifications' table, of sends, updates and retries, over
\* restarts and for any number of senders, readers and channels.
THEOREM NotificationsTypeCorrect == NotificationsSpec => []NotificationsTypeOK
  <1>1. NotificationsInv => NotificationsTypeOK
    BY DEF NotificationsInv
  <1> QED
    BY <1>1, NotificationsInitInv, NotificationsStep, PTL DEF NotificationsSpec

\* Nothing is marked as SENT before every channel has delivered it or has been
\* tried as often as the code says.
THEOREM SentAlwaysMeansTried == NotificationsSpec => SentMeansTried
  <1>1. NotificationsInv /\ [NotificationsNext]_notificationsVars
        => [\A i \in NotificationIds :
              notifications[i] # "SENT" /\ notifications'[i] = "SENT" =>
                \E s \in Senders :
                  /\ sends[s] # Nothing /\ sends[s].id = i
                  /\ \A c \in DOMAIN sends[s].channels :
                       Tried(sends[s].channels[c])]_notificationsVars
    BY SentStep
  <1> QED
    BY <1>1, NotificationsInitInv, NotificationsStep, PTL DEF NotificationsSpec, SentMeansTried

\* A notification that was read, and that no send has, stays READ or is
\* removed, whatever is retried.
THEOREM ReadIsAlwaysFinal == NotificationsSpec => ReadIsFinal
  <1>1. NotificationsInv /\ [NotificationsNext]_notificationsVars
        => [\A i \in NotificationIds : Read(i) => Read(i)']_notificationsVars
    BY ReadStep
  <1> QED
    BY <1>1, NotificationsInitInv, NotificationsStep, PTL DEF NotificationsSpec, ReadIsFinal

-----------------------------------------------------------------------------
(* The monitors: positions and counts.                                     *)

\* The positions at which a sequence has something with a certain key.
At(seq, key, v) == {i \in DOMAIN seq : key[seq[i]] = v}

\* The positions of a sequence.
LEMMA PositionsAreFinite ==
  ASSUME NEW V, NEW seq \in Seq(V), NEW P \in SUBSET (DOMAIN seq)
  PROVE  /\ IsFiniteSet(P) /\ Cardinality(P) \in Nat /\ P \in SUBSET (1..Len(seq))
         /\ \A i \in 1..Len(seq) : i # Len(seq) + 1
<1>1. DOMAIN seq = 1..Len(seq) /\ Len(seq) \in Nat
  OBVIOUS
<1>2. IsFiniteSet(DOMAIN seq)
  BY <1>1, FS_Interval
<1>3. IsFiniteSet(P)
  BY <1>2, FS_Subset
<1> QED BY <1>1, <1>3, FS_CardinalityType

\* What is appended adds its own position to those of its key, and counts once.
LEMMA AtAppended ==
  ASSUME NEW V, NEW seq \in Seq(V), NEW x \in V, NEW key, NEW v
  PROVE  /\ key[x] = v => At(Append(seq, x), key, v) = At(seq, key, v) \cup {Len(seq) + 1}
         /\ key[x] # v => At(Append(seq, x), key, v) = At(seq, key, v)
         /\ Cardinality(At(seq, key, v)) \in Nat
         /\ Cardinality(At(Append(seq, x), key, v))
              = Cardinality(At(seq, key, v)) + (IF key[x] = v THEN 1 ELSE 0)
<1> DEFINE n == Len(seq) + 1
           A == At(seq, key, v)
           B == At(Append(seq, x), key, v)
<1>1. /\ DOMAIN seq = 1..Len(seq) /\ Len(seq) \in Nat /\ DOMAIN Append(seq, x) = 1..n
      /\ Append(seq, x)[n] = x /\ \A i \in 1..Len(seq) : Append(seq, x)[i] = seq[i]
  OBVIOUS
<1>2. \A i : i \in 1..n <=> i \in 1..Len(seq) \/ i = n
  BY <1>1
<1>3. \A i : i \in A <=> i \in 1..Len(seq) /\ key[seq[i]] = v
  BY <1>1 DEF At
<1>4. \A i : i \in B <=> (i \in 1..Len(seq) /\ key[seq[i]] = v) \/ (i = n /\ key[x] = v)
  BY <1>1, <1>2 DEF At
<1>5. n \notin 1..Len(seq)
  BY <1>1
<1>6. A \in SUBSET (DOMAIN seq)
  BY DEF At
<1>7. IsFiniteSet(A) /\ Cardinality(A) \in Nat
  BY <1>6, PositionsAreFinite
<1> HIDE DEF A, B, n
<1>8. CASE key[x] = v
  <2>1. B = A \cup {n}
    BY <1>3, <1>4, <1>8
  <2>2. n \notin A
    BY <1>3, <1>5
  <2>3. Cardinality(A \cup {n}) = Cardinality(A) + 1
    BY <1>7, <2>2, FS_AddElement
  <2> QED BY <1>7, <1>8, <2>1, <2>3 DEF A, B, n
<1>9. CASE key[x] # v
  <2>1. \A i : i \in B <=> i \in A
    BY <1>3, <1>4, <1>9
  <2>2. B = A
    BY <2>1
  <2> QED BY <1>7, <1>9, <2>2 DEF A, B
<1> QED BY <1>8, <1>9

\* What is counted by parts is counted in all.
LEMMA CountByParts ==
  ASSUME NEW V, NEW seq \in Seq(V), NEW C, IsFiniteSet(C), NEW key, NEW count,
         \A x \in V : key[x] \in C,
         \A c \in C : count[c] = Cardinality(At(seq, key, c))
  PROVE  SumFunctionOnSet(count, C) = Len(seq)
<1> DEFINE S == DOMAIN seq
           one == [i \in S |-> 1]
           part == [i \in S |-> key[seq[i]]]
<1>1. /\ S = 1..Len(seq) /\ Len(seq) \in Nat
      /\ \A i \in S : seq[i] \in V
  OBVIOUS
<1>2. IsFiniteSet(S) /\ Cardinality(S) = Len(seq)
  BY <1>1, FS_Interval
<1>3. \A i \in S : one[i] = 1 /\ one[i] \in Int /\ part[i] \in C
  BY <1>1
<1>4. \A c \in C : count[c] = SumFunctionOnSet(one, PartOf(S, part, c))
  <2> SUFFICES ASSUME NEW c \in C PROVE count[c] = SumFunctionOnSet(one, PartOf(S, part, c))
    OBVIOUS
  <2>1. PartOf(S, part, c) = At(seq, key, c)
    BY DEF PartOf, At
  <2>2. At(seq, key, c) \in SUBSET S
    BY DEF At
  <2>3. IsFiniteSet(At(seq, key, c)) /\ Cardinality(At(seq, key, c)) \in Nat
    BY <2>2, PositionsAreFinite
  <2>4. \A i \in At(seq, key, c) : one[i] = 1
    BY <1>3, <2>2
  <2> HIDE DEF one, part, S
  <2>5. SumFunctionOnSet(one, At(seq, key, c)) = Cardinality(At(seq, key, c)) * 1
    BY <2>3, <2>4, SumConstant
  <2> QED BY <2>1, <2>3, <2>5
<1> HIDE DEF one, part, S
<1>5. SumFunctionOnSet(count, C) = SumFunctionOnSet(one, S)
  BY <1>2, <1>3, <1>4, SumByParts
<1>6. SumFunctionOnSet(one, S) = Cardinality(S) * 1
  BY <1>2, <1>3, SumConstant
<1> QED BY <1>1, <1>2, <1>5, <1>6

-----------------------------------------------------------------------------
(* Windows.                                                                *)

\* A window stays a sequence, and is shifted when it is full.
LEMMA PushedType ==
  ASSUME NEW V, NEW window \in Seq(V), NEW x \in V, NEW size \in Nat \ {0}
  PROVE  /\ Pushed(window, x, size) \in Seq(V)
         /\ Len(window) < size => Pushed(window, x, size) = Append(window, x)
         /\ ~(Len(window) < size) => /\ window # <<>>
                                     /\ Pushed(window, x, size) = Append(Tail(window), x)
BY DEF Pushed

\* Nothing is kept of nothing.
LEMMA NothingHoldsNothing ==
  ASSUME NEW size \in Nat PROVE HoldsTheLatest(<<>>, size, <<>>, {})
<1>1. Cardinality({}) = 0
  BY FS_EmptySet
<1>2. Min({size, 0}) = 0
  BY MinOfTwo
<1> QED BY <1>1, <1>2 DEF HoldsTheLatest

\* What comes at no position of the window's leaves it as it is.
LEMMA OthersLeaveTheLatest ==
  ASSUME NEW V, NEW window, NEW size, NEW all \in Seq(V), NEW x \in V,
         NEW P \in SUBSET (DOMAIN all), HoldsTheLatest(window, size, all, P)
  PROVE  HoldsTheLatest(window, size, Append(all, x), P)
<1>1. \A i \in P : Append(all, x)[i] = all[i]
  OBVIOUS
<1> QED BY <1>1 DEF HoldsTheLatest

\* push() and shift() keep the latest.
LEMMA PushKeepsTheLatest ==
  ASSUME NEW V, NEW window \in Seq(V), NEW size \in Nat \ {0}, NEW all \in Seq(V), NEW x \in V,
         NEW P \in SUBSET (DOMAIN all), HoldsTheLatest(window, size, all, P)
  PROVE  HoldsTheLatest(Pushed(window, x, size), size, Append(all, x), P \cup {Len(all) + 1})
<1> DEFINE n == Len(all) + 1
           new == Pushed(window, x, size)
           after == Append(all, x)
           Q == P \cup {n}
           Later(R, i) == {j \in R : j > i}
<1>1. /\ Len(all) \in Nat /\ n \in Nat /\ DOMAIN all = 1..Len(all)
      /\ after[n] = x /\ \A i \in DOMAIN all : after[i] = all[i]
  OBVIOUS
<1>2. \A i \in P : i \in Nat /\ i < n /\ i # n
  BY <1>1
<1>3. IsFiniteSet(P) /\ Cardinality(P) \in Nat
  BY PositionsAreFinite
<1>4. Cardinality(Q) = Cardinality(P) + 1
  <2>1. n \notin P
    BY <1>2
  <2> HIDE DEF n
  <2> QED BY <1>3, <2>1, FS_AddElement
<1>5. \A i \in P : /\ Cardinality(Later(P, i)) \in Nat
                   /\ Cardinality(Later(Q, i)) = Cardinality(Later(P, i)) + 1
  <2> SUFFICES ASSUME NEW i \in P
               PROVE  /\ Cardinality(Later(P, i)) \in Nat
                      /\ Cardinality(Later(Q, i)) = Cardinality(Later(P, i)) + 1
    OBVIOUS
  <2>1. n > i /\ n \notin Later(P, i)
    BY <1>1, <1>2
  <2> HIDE DEF n
  <2>2. Later(Q, i) = Later(P, i) \cup {n}
    BY <2>1
  <2>3. Later(P, i) \in SUBSET P
    OBVIOUS
  <2>4. IsFiniteSet(Later(P, i))
    BY <1>3, <2>3, FS_Subset
  <2> HIDE DEF Later, Q
  <2> QED BY <2>1, <2>2, <2>4, FS_AddElement, FS_CardinalityType
<1>6. Cardinality(Later(Q, n)) = 0
  <2>1. Later(Q, n) = {}
    BY <1>1, <1>2
  <2> QED BY <2>1, FS_EmptySet
<1>7. /\ Len(window) = Min({size, Cardinality(P)}) /\ Len(window) \in Nat
      /\ \A k \in 1..Len(window) : \E i \in P :
           window[k] = all[i] /\ Cardinality(Later(P, i)) = Len(window) - k
  <2>1. DOMAIN window = 1..Len(window) /\ Len(window) \in Nat
    OBVIOUS
  <2>2. \A k \in DOMAIN window : \E i \in P :
          window[k] = all[i] /\ Cardinality(Later(P, i)) = Len(window) - k
    BY Zenon DEF HoldsTheLatest
  <2>3. Len(window) = Min({size, Cardinality(P)})
    BY Zenon DEF HoldsTheLatest
  <2> HIDE DEF Later
  <2> QED BY <2>1, <2>2, <2>3
<1>a. n \in Q /\ \A i \in P : i \in Q
  OBVIOUS
<1>8. \A k \in 1..Len(window) : \E i \in Q :
        window[k] = after[i] /\ Cardinality(Later(Q, i)) = Len(window) - k + 1
  <2> SUFFICES ASSUME NEW k \in 1..Len(window)
               PROVE  \E i \in Q : window[k] = after[i]
                                   /\ Cardinality(Later(Q, i)) = Len(window) - k + 1
    OBVIOUS
  <2>1. PICK i \in P : window[k] = all[i] /\ Cardinality(Later(P, i)) = Len(window) - k
    BY <1>7
  <2>2. after[i] = all[i]
    BY <1>1
  <2> HIDE DEF Later, Q, after
  <2> QED BY <1>5, <1>a, <2>1, <2>2
<1>9. /\ size <= Cardinality(P) => Min({size, Cardinality(P)}) = size
      /\ Cardinality(P) <= size => Min({size, Cardinality(P)}) = Cardinality(P)
      /\ size <= Cardinality(P) + 1 => Min({size, Cardinality(P) + 1}) = size
      /\ Cardinality(P) + 1 <= size => Min({size, Cardinality(P) + 1}) = Cardinality(P) + 1
  BY <1>3, MinOfTwo
<1> HIDE DEF Later, Q, after, n, new
<1>10. CASE Len(window) < size
  <2>1. Len(window) = Cardinality(P) /\ Min({size, Cardinality(P) + 1}) = Len(window) + 1
    BY <1>3, <1>7, <1>9, <1>10
  <2>2. /\ Len(new) = Len(window) + 1 /\ DOMAIN new = 1..(Len(window) + 1)
        /\ new[Len(window) + 1] = x /\ \A k \in 1..Len(window) : new[k] = window[k]
    <3>1. new = Append(window, x)
      BY <1>10, PushedType DEF new
    <3> QED BY <3>1
  <2>3. ASSUME NEW k \in 1..(Len(window) + 1)
        PROVE  \E i \in Q : new[k] = after[i] /\ Cardinality(Later(Q, i)) = Len(new) - k
    <3>1. CASE k = Len(window) + 1
      BY <1>1, <1>6, <1>7, <1>a, <2>2, <3>1
    <3>2. CASE k \in 1..Len(window)
      <4>1. PICK i \in Q : window[k] = after[i] /\ Cardinality(Later(Q, i)) = Len(window) - k + 1
        BY <1>8, <3>2
      <4>2. Len(window) - k + 1 = Len(new) - k
        BY <1>7, <2>2, <3>2
      <4> QED BY <2>2, <3>2, <4>1, <4>2
    <3> QED BY <1>7, <3>1, <3>2
  <2>4. Len(new) = Min({size, Cardinality(Q)})
    BY <1>4, <2>1, <2>2
  <2>5. \A k \in DOMAIN new : \E i \in Q : new[k] = after[i] /\ Cardinality(Later(Q, i)) = Len(new) - k
    BY <2>2, <2>3
  <2> QED BY <2>4, <2>5 DEF HoldsTheLatest, Later, Q, new, n, after
<1>11. CASE ~(Len(window) < size)
  <2>1. Len(window) = size /\ Min({size, Cardinality(P) + 1}) = size
    BY <1>3, <1>7, <1>9, <1>11
  <2>2. /\ Len(new) = size /\ DOMAIN new = 1..size
        /\ new[size] = x /\ \A k \in 1..(size - 1) : new[k] = window[k + 1]
    <3>1. new = Append(Tail(window), x) /\ window # <<>>
      <4>1. new = Append(Tail(window), x)
        BY <1>11 DEF new, Pushed
      <4>2. Len(window) >= 1
        BY <2>1
      <4>3. window # <<>>
        BY <4>2
      <4> QED BY <4>1, <4>3
    <3>2. Tail(window) \in Seq(V) /\ Len(Tail(window)) = size - 1
          /\ \A k \in 1..(size - 1) : Tail(window)[k] = window[k + 1]
      BY <2>1, <3>1
    <3> QED BY <3>1, <3>2
  <2>3. ASSUME NEW k \in 1..size
        PROVE  \E i \in Q : new[k] = after[i] /\ Cardinality(Later(Q, i)) = Len(new) - k
    <3>1. CASE k = size
      BY <1>1, <1>6, <1>a, <2>2, <3>1
    <3>2. CASE k \in 1..(size - 1)
      <4>1. k + 1 \in 1..Len(window)
        BY <2>1, <3>2
      <4>2. PICK i \in Q : /\ window[k + 1] = after[i]
                           /\ Cardinality(Later(Q, i)) = Len(window) - (k + 1) + 1
        BY <1>8, <4>1
      <4>3. Len(window) - (k + 1) + 1 = Len(new) - k
        BY <2>1, <2>2, <3>2
      <4> QED BY <2>2, <3>2, <4>2, <4>3
    <3> QED BY <3>1, <3>2
  <2>4. Len(new) = Min({size, Cardinality(Q)})
    BY <1>4, <2>1, <2>2
  <2>5. \A k \in DOMAIN new : \E i \in Q : new[k] = after[i] /\ Cardinality(Later(Q, i)) = Len(new) - k
    BY <2>2, <2>3
  <2> QED BY <2>4, <2>5 DEF HoldsTheLatest, Later, Q, new, n, after
<1> QED BY <1>7, <1>10, <1>11

\* The last of a window is the last of all, and all of a window are recent.
LEMMA LatestIsLast ==
  ASSUME NEW V, NEW window \in Seq(V), NEW size \in Nat, NEW all \in Seq(V),
         HoldsTheLatest(window, size, all, DOMAIN all)
  PROVE  /\ window # <<>> => Last(window) = Last(all)
         /\ \A k \in DOMAIN window : \E i \in DOMAIN all :
              window[k] = all[i] /\ i > Len(all) - size
<1> DEFINE D == DOMAIN all
<1>1. D = 1..Len(all) /\ Len(all) \in Nat /\ Len(window) \in Nat /\ DOMAIN window = 1..Len(window)
  OBVIOUS
<1>2. \A i \in D : Cardinality({j \in D : j > i}) = Len(all) - i
  <2> SUFFICES ASSUME NEW i \in D PROVE Cardinality({j \in D : j > i}) = Len(all) - i
    OBVIOUS
  <2> DEFINE a == i + 1
             L == Len(all)
  <2>1. /\ {j \in D : j > i} = a..L /\ a \in Int /\ L \in Int /\ i \in Int
        /\ i <= L
    BY <1>1
  <2>2. a = i + 1
    OBVIOUS
  <2> HIDE DEF D, a, L
  <2>3. Cardinality(a..L) = IF a > L THEN 0 ELSE L - a + 1
    BY <2>1, FS_Interval
  <2>4. (IF a > L THEN 0 ELSE L - a + 1) = L - i
    BY <2>1, <2>2
  <2> QED BY <2>1, <2>3, <2>4 DEF L
<1>3. Len(window) <= size
  <2>1. IsFiniteSet(D) /\ Cardinality(D) \in Nat
    BY PositionsAreFinite
  <2> DEFINE c == Cardinality(D)
  <2>2. Len(window) = Min({size, c})
    BY DEF HoldsTheLatest
  <2>3. c \in Nat
    BY <2>1
  <2> HIDE DEF c, D
  <2>4. size <= c => Min({size, c}) = size
    BY <2>3, MinOfTwo
  <2>5. c <= size => Min({size, c}) = c
    BY <2>3, MinOfTwo
  <2> QED BY <2>2, <2>3, <2>4, <2>5
<1>4. ASSUME NEW k \in 1..Len(window)
      PROVE  \E i \in 1..Len(all) : window[k] = all[i] /\ Len(all) - i = Len(window) - k
  <2>1. PICK i \in D : window[k] = all[i] /\ Cardinality({j \in D : j > i}) = Len(window) - k
    BY <1>1 DEF HoldsTheLatest
  <2>2. Cardinality({j \in D : j > i}) = Len(all) - i
    BY <1>2
  <2> QED BY <1>1, <2>1, <2>2
<1>5. ASSUME window # <<>> PROVE Last(window) = Last(all)
  <2>1. Len(window) \in 1..Len(window)
    BY <1>5
  <2>2. PICK i \in 1..Len(all) : window[Len(window)] = all[i] /\ Len(all) - i = Len(window) - Len(window)
    BY <1>4, <2>1
  <2> HIDE DEF D
  <2>a. Len(window) - Len(window) = 0
    BY <1>1
  <2>3. i = Len(all)
    BY <1>1, <2>2, <2>a
  <2> QED BY <2>2, <2>3 DEF Last
<1>6. ASSUME NEW k \in DOMAIN window
      PROVE  \E i \in DOMAIN all : window[k] = all[i] /\ i > Len(all) - size
  <2>1. k \in 1..Len(window)
    BY <1>1
  <2>2. PICK i \in 1..Len(all) : window[k] = all[i] /\ Len(all) - i = Len(window) - k
    BY <1>4, <2>1
  <2>3. i > Len(all) - size
    BY <1>1, <1>3, <2>1, <2>2
  <2> QED BY <1>1, <2>2, <2>3
<1> QED BY <1>5, <1>6

\* The two forms in which one meets a recursion over 1..n: a function that is
\* chosen satisfies the equation it is chosen by.
LEMMA FlattenRecurs ==
  ASSUME NEW V, NEW seqs \in Seq(Seq(V)), Len(seqs) # 0
  PROVE  \E f : /\ f[1] = seqs[1]
                /\ \A m \in 2..Len(seqs) : f[m] = f[m - 1] \o seqs[m]
                /\ FlattenSeq(seqs) = f[Len(seqs)]
<1> DEFINE L == Len(seqs)
           D == 1..L
           Step(f, i) == IF i = 1 THEN seqs[i] ELSE f[i - 1] \o seqs[i]
           chosen == CHOOSE f : f = [i \in D |-> Step(f, i)]
           step == [mv \in (1..L) \X Seq(V) |-> mv[2] \o seqs[mv[1]]]
<1>1. L \in Nat \ {0} /\ \A i \in 1..L : seqs[i] \in Seq(V)
  OBVIOUS
<1>2. FlattenSeq(seqs) = chosen[L]
  BY Zenon DEF FlattenSeq
<1>3. \A mv \in (1..L) \X Seq(V) : step[mv] \in Seq(V)
  BY <1>1
<1>4. \A m \in 1..L, s \in Seq(V) : step[<<m, s>>] = s \o seqs[m]
  OBVIOUS
<1>5. <<>> \in Seq(V)
  OBVIOUS
<1> HIDE DEF step, L, chosen
<1>6. PICK g \in [0..L -> Seq(V)] : Recurs(g, L, <<>>, step)
  BY <1>1, <1>3, <1>5, RecursionExists
<1>7. g[0] = <<>> /\ \A m \in 1..L : g[m] = step[<<m, g[m - 1]>>] /\ g[m - 1] \in Seq(V)
  <2>1. g[0] = <<>> /\ \A m \in 1..L : g[m] = step[<<m, g[m - 1]>>]
    BY Zenon, <1>6 DEF Recurs
  <2>2. \A m \in 1..L : m - 1 \in 0..L
    BY <1>1
  <2>3. \A m \in 1..L : g[m - 1] \in Seq(V)
    BY <2>2
  <2> QED BY <2>1, <2>3
<1>8. \A m \in 1..L : g[m] = g[m - 1] \o seqs[m]
  BY <1>4, <1>7
<1> DEFINE h == [i \in D |-> g[i]]
<1>9. g[1] = seqs[1]
  <2>1. g[1] = <<>> \o seqs[1] /\ seqs[1] \in Seq(V)
    <3>1. 1 \in 1..L /\ 1 - 1 = 0
      BY <1>1
    <3>2. g[1] = g[1 - 1] \o seqs[1]
      BY <1>8, <3>1
    <3> QED BY <1>1, <1>7, <3>1, <3>2
  <2> QED BY <2>1
<1>10. \A i \in D : g[i] = Step(h, i)
  <2> SUFFICES ASSUME NEW i \in D PROVE g[i] = Step(h, i)
    OBVIOUS
  <2>1. CASE i = 1
    BY <1>9, <2>1
  <2>2. CASE i # 1
    <3>1. i - 1 \in D
      BY <1>1, <2>2
    <3>2. h[i - 1] = g[i - 1]
      BY <3>1
    <3> QED BY <1>8, <2>2, <3>2
  <2> QED BY <2>1, <2>2
<1>11. h = [i \in D |-> Step(h, i)]
  BY <1>10
<1> HIDE DEF h, D, Step
<1>12. chosen = [i \in D |-> Step(chosen, i)]
  BY Zenon, <1>11 DEF chosen
<1>13. \A i \in D : chosen[i] = Step(chosen, i)
  BY Zenon, <1>12
<1>14. chosen[1] = seqs[1] /\ \A m \in 2..L : chosen[m] = chosen[m - 1] \o seqs[m]
  <2>1. 1 \in D /\ \A m \in 2..L : m \in D /\ m # 1
    BY <1>1 DEF D
  <2>2. chosen[1] = Step(chosen, 1) /\ \A m \in 2..L : chosen[m] = Step(chosen, m)
    BY Zenon, <1>13, <2>1
  <2>3. \A m \in 2..L : Step(chosen, m) = chosen[m - 1] \o seqs[m]
    BY <2>1 DEF Step
  <2>4. Step(chosen, 1) = seqs[1]
    BY DEF Step
  <2> QED BY <2>2, <2>3, <2>4
<1> QED BY <1>2, <1>14 DEF L

\* What is laid end to end is all there, and nothing else.
LEMMA FlattenKeeps ==
  ASSUME NEW V, NEW seqs \in Seq(Seq(V))
  PROVE  /\ FlattenSeq(seqs) \in Seq(V)
         /\ \A n \in DOMAIN seqs : \A k \in DOMAIN seqs[n] :
              \E i \in DOMAIN FlattenSeq(seqs) : FlattenSeq(seqs)[i] = seqs[n][k]
<1>1. CASE Len(seqs) = 0
  <2>1. seqs = <<>>
    BY <1>1
  <2>2. FlattenSeq(seqs) = seqs
    BY <1>1 DEF FlattenSeq
  <2>3. DOMAIN seqs = {} /\ seqs \in Seq(V)
    BY <2>1
  <2> QED BY <2>2, <2>3
<1>2. CASE Len(seqs) # 0
  <2> DEFINE L == Len(seqs)
  <2>1. PICK f : /\ f[1] = seqs[1]
                 /\ \A m \in 2..L : f[m] = f[m - 1] \o seqs[m]
                 /\ FlattenSeq(seqs) = f[L]
    BY <1>2, FlattenRecurs
  <2>2. L \in Nat \ {0} /\ DOMAIN seqs = 1..L /\ \A i \in 1..L : seqs[i] \in Seq(V)
    BY <1>2
  <2> DEFINE Has(s, x) == \E i \in DOMAIN s : s[i] = x
             Full(m) == /\ f[m] \in Seq(V)
                        /\ \A n \in 1..m : \A k \in DOMAIN seqs[n] : Has(f[m], seqs[n][k])
             N == {m \in Nat : m + 1 <= L => Full(m + 1)}
  <2>3. 0 \in N
    BY <2>1, <2>2
  <2>4. ASSUME NEW m \in Nat, m \in N PROVE m + 1 \in N
    <3> SUFFICES ASSUME m + 2 <= L PROVE Full(m + 2)
      <4>1. (m + 1) + 1 = m + 2 /\ m + 1 \in Nat
        OBVIOUS
      <4> HIDE DEF Full, L
      <4> QED BY <4>1
    <3> DEFINE s == f[m + 1]
               t == seqs[m + 2]
    <3>1. s \in Seq(V) /\ \A n \in 1..(m + 1) : \A k \in DOMAIN seqs[n] : Has(s, seqs[n][k])
      BY <2>4
    <3>2. f[m + 2] = s \o t /\ t \in Seq(V)
      <4>1. m + 2 \in 2..L /\ m + 2 \in 1..L /\ (m + 2) - 1 = m + 1
        BY <2>2
      <4>2. f[m + 2] = f[(m + 2) - 1] \o seqs[m + 2]
        BY <2>1, <4>1
      <4> QED BY <2>2, <4>1, <4>2
    <3>3. \A x : Has(s, x) \/ Has(t, x) => Has(s \o t, x)
      <4> HIDE DEF s, t
      <4>1. /\ DOMAIN s = 1..Len(s) /\ DOMAIN t = 1..Len(t) /\ Len(s) \in Nat /\ Len(t) \in Nat
            /\ DOMAIN (s \o t) = 1..(Len(s) + Len(t))
            /\ \A i \in 1..Len(s) : (s \o t)[i] = s[i]
            /\ \A i \in 1..Len(t) : (s \o t)[Len(s) + i] = t[i]
        BY <3>1, <3>2
      <4>2. ASSUME NEW x, NEW i \in DOMAIN s, s[i] = x PROVE Has(s \o t, x)
        <5>1. i \in DOMAIN (s \o t) /\ (s \o t)[i] = x
          BY <4>1, <4>2
        <5> QED BY <5>1
      <4>3. ASSUME NEW x, NEW i \in DOMAIN t, t[i] = x PROVE Has(s \o t, x)
        <5>1. Len(s) + i \in DOMAIN (s \o t) /\ (s \o t)[Len(s) + i] = x
          BY <4>1, <4>3
        <5> QED BY <5>1
      <4> QED BY <4>2, <4>3
    <3>4. s \o t \in Seq(V)
      BY <3>1, <3>2
    <3>5. ASSUME NEW n \in 1..(m + 2), NEW k \in DOMAIN seqs[n] PROVE Has(s \o t, seqs[n][k])
      <4>1. CASE n = m + 2
        <5>1. Has(t, seqs[n][k])
          BY <4>1
        <5> HIDE DEF Has, s, t
        <5> QED BY <3>3, <5>1
      <4>2. CASE n # m + 2
        <5>1. n \in 1..(m + 1)
          BY <4>2
        <5> HIDE DEF Has, s, t
        <5>2. Has(s, seqs[n][k])
          BY <3>1, <5>1
        <5> QED BY <3>3, <5>2
      <4> QED BY <4>1, <4>2
    <3> HIDE DEF Has, s, t
    <3> QED BY <3>2, <3>4, <3>5
  <2> HIDE DEF N
  <2>5. L - 1 \in N
    <3>1. Nat \subseteq N
      BY <2>3, <2>4, SetInduction
    <3> QED BY <2>2, <3>1
  <2>6. Full(L)
    BY <2>2, <2>5 DEF N
  <2> QED BY <2>1, <2>2, <2>6
<1> QED BY <1>1, <1>2

\* The positions of a sequence, and the next one.
AndNext(P, seq) == P \cup {Len(seq) + 1}

\* The first half of AtAppended.
LEMMA AtAppendedOfKey ==
  ASSUME NEW V, NEW seq \in Seq(V), NEW x \in V, NEW key, NEW v, key[x] = v
  PROVE  At(Append(seq, x), key, v) = AndNext(At(seq, key, v), seq)
BY AtAppended DEF AndNext

\* Each key of C is counted as often as it occurs.
CountsOf(count, C, seq, key) ==
    /\ count \in [C -> Nat]
    /\ \A c \in C : count[c] = Cardinality(At(seq, key, c))

\* Nothing counted.
LEMMA CountsOfNone ==
  ASSUME NEW C, NEW key
  PROVE  CountsOf([c \in C |-> 0], C, <<>>, key)
<1>1. \A c \in C : At(<<>>, key, c) = {}
  BY DEF At
<1>2. Cardinality({}) = 0
  BY FS_EmptySet
<1> QED BY <1>1, <1>2 DEF CountsOf

\* A counter that goes up with each one that comes counts them all.
LEMMA CountedOnceMore ==
  ASSUME NEW V, NEW seq \in Seq(V), NEW x \in V, NEW C, NEW key, key[x] \in C,
         NEW count, CountsOf(count, C, seq, key)
  PROVE  CountsOf([count EXCEPT ![key[x]] = @ + 1], C, Append(seq, x), key)
<1> DEFINE after == [count EXCEPT ![key[x]] = @ + 1]
<1>1. count \in [C -> Nat] /\ \A c \in C : count[c] = Cardinality(At(seq, key, c))
  BY DEF CountsOf
<1>2. after \in [C -> Nat] /\ \A c \in C : after[c] = count[c] + (IF key[x] = c THEN 1 ELSE 0)
  BY <1>1
<1>3. ASSUME NEW c \in C PROVE after[c] = Cardinality(At(Append(seq, x), key, c))
  <2> HIDE DEF after
  <2>1. Cardinality(At(Append(seq, x), key, c))
          = Cardinality(At(seq, key, c)) + (IF key[x] = c THEN 1 ELSE 0)
    BY AtAppended
  <2> QED BY <1>1, <1>2, <2>1
<1> QED BY <1>2, <1>3 DEF CountsOf

\* An hour of the day.
LEMMA Remainder ==
  ASSUME NEW a \in Nat, NEW b \in Nat \ {0}
  PROVE  a % b \in 0..(b - 1)
OBVIOUS

\* A window of all samples of a series.
LEMMA SamplePushed ==
  ASSUME NEW V, NEW window \in Seq(V), NEW size \in Nat \ {0}, NEW all \in Seq(V), NEW x \in V,
         HoldsTheLatest(window, size, all, DOMAIN all)
  PROVE  HoldsTheLatest(Pushed(window, x, size), size, Append(all, x), DOMAIN Append(all, x))
<1>1. DOMAIN Append(all, x) = (DOMAIN all) \cup {Len(all) + 1}
  OBVIOUS
<1> DEFINE P == DOMAIN all
<1>2. P \in SUBSET (DOMAIN all)
  OBVIOUS
<1> HIDE DEF P
<1>3. HoldsTheLatest(window, size, all, P)
  BY DEF P
<1>4. HoldsTheLatest(Pushed(window, x, size), size, Append(all, x), P \cup {Len(all) + 1})
  BY <1>2, <1>3, PushKeepsTheLatest
<1> QED BY <1>1, <1>4 DEF P

-----------------------------------------------------------------------------
\* What errors are counted by.
levelOf == [e \in ErrorInfo |-> e.level]
typeOf == [e \in ErrorInfo |-> e.type]
moduleOf == [e \in ErrorInfo |-> e.module]
hourOf == [e \in ErrorInfo |-> e.timestamp % HoursInDay]
Hours == 0..(HoursInDay - 1)

\* The requests of each endpoint.
requests == [e \in Endpoints |-> Len(sampled[<<"api", e>>])]

\* What is known of samples, of requests, of the statistics and of the lists.
SamplesInv ==
    /\ metrics \in [Series -> Seq(Samples)] /\ sampled \in [Series -> Seq(Samples)]
    /\ \A s \in Series :
         HoldsTheLatest(metrics[s], WindowSize[s[1]], sampled[s], DOMAIN sampled[s])

RequestsInv ==
    /\ requestCount \in Nat /\ errorCount \in Nat
    /\ errorCount <= requestCount
    /\ requestCount = SumFunctionOnSet(requests, Endpoints)

StatisticsInv ==
    /\ statistics \in Statistics
    /\ statistics.total = Len(raised)
    /\ CountsOf(statistics.byType, ErrorTypes, raised, typeOf)
    /\ CountsOf(statistics.byModule, ErrorModules, raised, moduleOf)
    /\ CountsOf(statistics.byHour, Hours, raised, hourOf)

ErrorsInv ==
    /\ errors \in [Levels -> Seq(ErrorInfo)] /\ raised \in Seq(ErrorInfo)
    /\ \A l \in Levels :
         HoldsTheLatest(errors[l], WindowSize["errors"], raised, At(raised, levelOf, l))

\* The inductive invariant.
MonitorsInv ==
    SamplesInv /\ RequestsInv /\ StatisticsInv /\ ErrorsInv /\ hour \in 0..MaxHour

USE MonitorsAssumption

\* The series, and their windows.
LEMMA SeriesAre ==
  /\ \A e \in Endpoints : <<"api", e>> \in Series
  /\ \A q \in QueryNames : <<"database", q>> \in Series
  /\ \A s \in Series : s[1] \in {"api", "database", "system"}
  /\ \A s \in Series : WindowSize[s[1]] \in Nat \ {0}
  /\ <<"system", "memory">> \in Series /\ <<"system", "cpu">> \in Series
BY DEF Series

\* The monitor as it starts, and after a reset.
NothingSampled == metrics = NoSamples /\ sampled = NoSamples /\ requestCount = 0 /\ errorCount = 0

\* At first, and after a reset.
LEMMA NoSamplesInv == NothingSampled => SamplesInv /\ RequestsInv
<1> SUFFICES ASSUME NothingSampled PROVE SamplesInv /\ RequestsInv
  OBVIOUS
<1> USE DEF NothingSampled
<1>1. \A s \in Series : metrics[s] = <<>> /\ sampled[s] = <<>> /\ DOMAIN sampled[s] = {}
  BY DEF NoSamples
<1>2. metrics \in [Series -> Seq(Samples)] /\ sampled \in [Series -> Seq(Samples)]
  BY DEF NoSamples
<1>3. ASSUME NEW s \in Series
      PROVE  HoldsTheLatest(metrics[s], WindowSize[s[1]], sampled[s], DOMAIN sampled[s])
  <2>1. WindowSize[s[1]] \in Nat
    BY SeriesAre
  <2>2. HoldsTheLatest(<<>>, WindowSize[s[1]], <<>>, {})
    BY <2>1, NothingHoldsNothing
  <2> QED BY <1>1, <2>2
<1>4. \A e \in Endpoints : requests[e] = 0
  <2> SUFFICES ASSUME NEW e \in Endpoints PROVE requests[e] = 0
    OBVIOUS
  <2>1. <<"api", e>> \in Series
    BY SeriesAre
  <2>2. sampled[<<"api", e>>] = <<>>
    BY <1>1, <2>1
  <2>3. requests[e] = Len(sampled[<<"api", e>>])
    BY DEF requests
  <2> QED BY <2>2, <2>3
<1>5. SumFunctionOnSet(requests, Endpoints) = Cardinality(Endpoints) * 0
  BY <1>4, SumConstant
<1>6. Cardinality(Endpoints) * 0 = 0
  BY FS_CardinalityType
<1> QED BY <1>2, <1>3, <1>5, <1>6 DEF SamplesInv, RequestsInv

\* The tracker as it starts, and after its errors were cleared.
NothingRaised == errors = NoErrors /\ raised = <<>> /\ statistics = NoStatistics

\* At first, and after the errors were cleared.
LEMMA NoErrorsInv == NothingRaised => StatisticsInv /\ ErrorsInv
<1> SUFFICES ASSUME NothingRaised PROVE StatisticsInv /\ ErrorsInv
  OBVIOUS
<1> USE DEF NothingRaised
<1>1. errors \in [Levels -> Seq(ErrorInfo)] /\ raised \in Seq(ErrorInfo)
  BY DEF NoErrors
<1>2. ASSUME NEW l \in Levels
      PROVE  HoldsTheLatest(errors[l], WindowSize["errors"], raised, At(raised, levelOf, l))
  <2>1. At(<<>>, levelOf, l) = {}
    BY DEF At
  <2>2. HoldsTheLatest(<<>>, WindowSize["errors"], <<>>, {})
    BY NothingHoldsNothing
  <2> QED BY <2>1, <2>2 DEF NoErrors
<1>3. statistics \in Statistics
  BY DEF Statistics, NoStatistics
<1>4. /\ statistics.total = 0 /\ statistics.byType = [t \in ErrorTypes |-> 0]
      /\ statistics.byModule = [m \in ErrorModules |-> 0]
      /\ statistics.byHour = [h \in Hours |-> 0]
  BY DEF NoStatistics, Hours
<1>5. /\ CountsOf(statistics.byType, ErrorTypes, <<>>, typeOf)
      /\ CountsOf(statistics.byModule, ErrorModules, <<>>, moduleOf)
      /\ CountsOf(statistics.byHour, Hours, <<>>, hourOf)
  BY <1>4, CountsOfNone
<1>6. statistics.total = Len(raised)
  BY <1>4
<1>7. StatisticsInv
  BY Zenon, <1>3, <1>5, <1>6 DEF StatisticsInv
<1> QED BY <1>1, <1>2, <1>7 DEF ErrorsInv

\* The series of K each got a sample more.
SamplesCame(K, x) ==
    /\ metrics' = [s \in Series |->
         IF s \in K THEN Pushed(metrics[s], x[s], WindowSize[s[1]]) ELSE metrics[s]]
    /\ sampled' = [s \in Series |->
         IF s \in K THEN Append(sampled[s], x[s]) ELSE sampled[s]]

\* Whatever series get a sample.
LEMMA SamplesCameInv ==
  ASSUME SamplesInv, NEW K, NEW x \in [Series -> Samples], SamplesCame(K, x)
  PROVE  SamplesInv'
<1>1. ASSUME NEW s \in Series
      PROVE  /\ metrics'[s] \in Seq(Samples) /\ sampled'[s] \in Seq(Samples)
             /\ HoldsTheLatest(metrics'[s], WindowSize[s[1]], sampled'[s], DOMAIN sampled'[s])
  <2>1. /\ metrics[s] \in Seq(Samples) /\ sampled[s] \in Seq(Samples)
        /\ HoldsTheLatest(metrics[s], WindowSize[s[1]], sampled[s], DOMAIN sampled[s])
        /\ x[s] \in Samples
    BY DEF SamplesInv
  <2>2. WindowSize[s[1]] \in Nat \ {0}
    BY SeriesAre
  <2>3. CASE s \in K
    <3>1. /\ metrics'[s] = Pushed(metrics[s], x[s], WindowSize[s[1]])
          /\ sampled'[s] = Append(sampled[s], x[s])
      BY <2>3 DEF SamplesCame
    <3>2. Pushed(metrics[s], x[s], WindowSize[s[1]]) \in Seq(Samples)
      BY <2>1, <2>2, PushedType
    <3>3. Append(sampled[s], x[s]) \in Seq(Samples)
      BY <2>1
    <3>4. HoldsTheLatest(Pushed(metrics[s], x[s], WindowSize[s[1]]), WindowSize[s[1]],
                         Append(sampled[s], x[s]), DOMAIN Append(sampled[s], x[s]))
      BY <2>1, <2>2, SamplePushed
    <3> QED BY <3>1, <3>2, <3>3, <3>4
  <2>4. CASE s \notin K
    <3>1. metrics'[s] = metrics[s] /\ sampled'[s] = sampled[s]
      BY <2>4 DEF SamplesCame
    <3> QED BY <2>1, <3>1
  <2> QED BY <2>3, <2>4
<1>2. metrics' = [s \in Series |-> metrics'[s]] /\ sampled' = [s \in Series |-> sampled'[s]]
  BY Zenon DEF SamplesCame
<1>3. metrics' \in [Series -> Seq(Samples)] /\ sampled' \in [Series -> Seq(Samples)]
  BY <1>1, <1>2
<1> QED BY <1>1, <1>3 DEF SamplesInv

\* One series got a sample.
LEMMA SampledIsSamplesCame ==
  ASSUME SamplesInv, NEW s \in Series, NEW v \in Samples, Sampled(s, v)
  PROVE  /\ SamplesCame({s}, [r \in Series |-> v])
         /\ \A r \in Series \ {s} : sampled'[r] = sampled[r]
         /\ sampled'[s] = Append(sampled[s], v)
<1>1. metrics \in [Series -> Seq(Samples)] /\ sampled \in [Series -> Seq(Samples)]
  BY DEF SamplesInv
<1>2. metrics' = [metrics EXCEPT ![s] = Pushed(@, v, WindowSize[s[1]])]
  BY DEF Sampled
<1>3. sampled' = [sampled EXCEPT ![s] = Append(@, v)]
  BY DEF Sampled
<1>4. metrics' = [r \in Series |->
         IF r \in {s} THEN Pushed(metrics[r], [q \in Series |-> v][r], WindowSize[r[1]])
                      ELSE metrics[r]]
  BY <1>1, <1>2
<1>5. sampled' = [r \in Series |->
         IF r \in {s} THEN Append(sampled[r], [q \in Series |-> v][r]) ELSE sampled[r]]
  BY <1>1, <1>3
<1> QED BY <1>1, <1>3, <1>4, <1>5 DEF SamplesCame

\* What is asked for at no endpoint is not counted.
LEMMA RequestsKept ==
  ASSUME RequestsInv, requestCount' = requestCount, errorCount' = errorCount,
         \A e \in Endpoints : sampled'[<<"api", e>>] = sampled[<<"api", e>>]
  PROVE  RequestsInv'
<1>1. requests' = requests
  BY Zenon DEF requests
<1> QED BY <1>1 DEF RequestsInv

\* Nothing has been recorded.
LEMMA MonitorsInitInv == MonitorsInit => MonitorsInv
<1> SUFFICES ASSUME MonitorsInit PROVE MonitorsInv
  OBVIOUS
<1>1. SamplesInv /\ RequestsInv
  BY NoSamplesInv DEF MonitorsInit, NothingSampled
<1>2. StatisticsInv /\ ErrorsInv
  BY NoErrorsInv DEF MonitorsInit, NothingRaised
<1> QED BY <1>1, <1>2 DEF MonitorsInv, MonitorsInit

\* What the services that record do, and what is left alone.
LEMMA InterceptInv ==
  ASSUME MonitorsInv, NEW e \in Endpoints, NEW x \in Samples, NEW fails \in BOOLEAN,
         intercept(e, x, fails)
  PROVE  MonitorsInv'
<1> DEFINE s == <<"api", e>>
<1>1. s \in Series /\ SamplesInv /\ RequestsInv
  BY SeriesAre DEF MonitorsInv
<1>2. Sampled(s, x)
  BY DEF intercept
<1> HIDE DEF s
<1>3. /\ SamplesCame({s}, [r \in Series |-> x])
      /\ \A r \in Series \ {s} : sampled'[r] = sampled[r]
      /\ sampled'[s] = Append(sampled[s], x)
  BY <1>1, <1>2, SampledIsSamplesCame
<1>4. SamplesInv'
  <2>1. [r \in Series |-> x] \in [Series -> Samples]
    OBVIOUS
  <2> QED BY <1>1, <1>3, <2>1, SamplesCameInv
<1>5. RequestsInv'
  <2>1. \A d \in Endpoints : /\ requests[d] \in Int
                             /\ requests'[d] = requests[d] + (IF d = e THEN 1 ELSE 0)
    <3> SUFFICES ASSUME NEW d \in Endpoints
                 PROVE  /\ requests[d] \in Int
                        /\ requests'[d] = requests[d] + (IF d = e THEN 1 ELSE 0)
      OBVIOUS
    <3>1. requests[d] = Len(sampled[<<"api", d>>]) /\ requests'[d] = Len(sampled'[<<"api", d>>])
      BY DEF requests
    <3>2. <<"api", d>> \in Series
      BY SeriesAre
    <3>3. sampled[<<"api", d>>] \in Seq(Samples)
      BY <1>1, <3>2 DEF SamplesInv
    <3>4. CASE d = e
      <4>1. sampled'[<<"api", d>>] = Append(sampled[<<"api", d>>], x)
        BY <1>3, <3>4 DEF s
      <4>2. Len(Append(sampled[<<"api", d>>], x)) = Len(sampled[<<"api", d>>]) + 1
        BY <3>3
      <4> QED BY <3>1, <3>3, <3>4, <4>1, <4>2
    <3>5. CASE d # e
      <4>1. <<"api", d>> # s
        BY <3>5 DEF s
      <4>2. sampled'[<<"api", d>>] = sampled[<<"api", d>>]
        BY <1>3, <3>2, <4>1
      <4> QED BY <3>1, <3>3, <3>5, <4>2
    <3> QED BY <3>4, <3>5
  <2>2. SumFunctionOnSet(requests', Endpoints) = SumFunctionOnSet(requests, Endpoints) + 1
    BY <2>1, SumIncrement
  <2>3. /\ requestCount' = requestCount + 1
        /\ errorCount' = IF fails THEN errorCount + 1 ELSE errorCount
    BY DEF intercept
  <2>4. errorCount' \in {errorCount, errorCount + 1}
    BY <2>3
  <2>5. /\ requestCount \in Nat /\ errorCount \in Nat /\ errorCount <= requestCount
        /\ requestCount = SumFunctionOnSet(requests, Endpoints)
    BY <1>1 DEF RequestsInv
  <2>6. requestCount' = SumFunctionOnSet(requests', Endpoints)
    BY <2>2, <2>3, <2>5
  <2>7. requestCount' \in Nat /\ errorCount' \in Nat /\ errorCount' <= requestCount'
    <3>1. requestCount' = requestCount + 1
      BY <2>3
    <3>2. errorCount' = errorCount \/ errorCount' = errorCount + 1
      BY <2>4
    <3>3. requestCount \in Nat /\ errorCount \in Nat /\ errorCount <= requestCount
      BY <2>5
    <3>4. CASE errorCount' = errorCount
      BY <3>1, <3>3, <3>4
    <3>5. CASE errorCount' = errorCount + 1
      BY <3>1, <3>3, <3>5
    <3> QED BY <3>2, <3>4, <3>5
  <2> QED BY <2>6, <2>7 DEF RequestsInv
<1>6. UNCHANGED <<errors, statistics, hour, raised>>
  BY DEF intercept
<1> QED BY <1>4, <1>5, <1>6 DEF MonitorsInv, StatisticsInv, ErrorsInv

\* A query.
LEMMA QueryInv ==
  ASSUME MonitorsInv, NEW q \in QueryNames, NEW x \in Samples, recordDatabaseQueryTime(q, x)
  PROVE  MonitorsInv'
<1> DEFINE s == <<"database", q>>
<1>1. s \in Series /\ SamplesInv /\ RequestsInv
  BY SeriesAre DEF MonitorsInv
<1>2. Sampled(s, x)
  BY DEF recordDatabaseQueryTime
<1>a. \A e \in Endpoints : <<"api", e>> \in Series \ {s}
  BY SeriesAre
<1> HIDE DEF s
<1>3. /\ SamplesCame({s}, [r \in Series |-> x])
      /\ \A r \in Series \ {s} : sampled'[r] = sampled[r]
  BY <1>1, <1>2, SampledIsSamplesCame
<1>4. SamplesInv'
  <2>1. [r \in Series |-> x] \in [Series -> Samples]
    OBVIOUS
  <2> QED BY <1>1, <1>3, <2>1, SamplesCameInv
<1>5. UNCHANGED <<requestCount, errorCount, errors, statistics, hour, raised>>
  BY DEF recordDatabaseQueryTime
<1>6. RequestsInv'
  <2>1. \A e \in Endpoints : sampled'[<<"api", e>>] = sampled[<<"api", e>>]
    BY <1>3, <1>a
  <2> QED BY <1>1, <1>5, <2>1, RequestsKept
<1> QED BY <1>4, <1>5, <1>6 DEF MonitorsInv, StatisticsInv, ErrorsInv

\* The cron: two series at once.
LEMMA ResourcesInv ==
  ASSUME MonitorsInv, NEW memory \in Samples, NEW cpu \in Samples,
         monitorSystemResources(memory, cpu)
  PROVE  MonitorsInv'
<1> DEFINE K == {s \in Series : s[1] = "system"}
           x == [s \in Series |-> IF s[2] = "memory" THEN memory ELSE cpu]
<1>1. SamplesInv /\ RequestsInv
  BY DEF MonitorsInv
<1>2. x \in [Series -> Samples]
  OBVIOUS
<1>3. metrics' = [s \in Series |->
         IF s[1] = "system"
         THEN Pushed(metrics[s], IF s[2] = "memory" THEN memory ELSE cpu, WindowSize["system"])
         ELSE metrics[s]]
  BY DEF monitorSystemResources
<1>4. sampled' = [s \in Series |->
         IF s[1] = "system"
         THEN Append(sampled[s], IF s[2] = "memory" THEN memory ELSE cpu) ELSE sampled[s]]
  BY DEF monitorSystemResources
<1>5. SamplesCame(K, x)
  <2>1. \A s \in Series : /\ s \in K <=> s[1] = "system"
                          /\ x[s] = IF s[2] = "memory" THEN memory ELSE cpu
    OBVIOUS
  <2> HIDE DEF K, x
  <2> QED BY <1>3, <1>4, <2>1 DEF SamplesCame
<1>6. \A e \in Endpoints : sampled'[<<"api", e>>] = sampled[<<"api", e>>]
  BY <1>4, SeriesAre
<1> HIDE DEF K, x
<1>7. SamplesInv'
  BY <1>1, <1>2, <1>5, SamplesCameInv
<1>8. UNCHANGED <<requestCount, errorCount, errors, statistics, hour, raised>>
  BY DEF monitorSystemResources
<1>9. RequestsInv'
  BY <1>1, <1>6, <1>8, RequestsKept
<1> QED BY <1>7, <1>8, <1>9 DEF MonitorsInv, StatisticsInv, ErrorsInv

\* An error: its level, its statistics.
LEMMA ErrorInv ==
  ASSUME MonitorsInv, NEW l \in Levels, NEW t \in ErrorTypes, NEW m \in ErrorModules,
         recordError(l, t, m)
  PROVE  MonitorsInv'
<1> DEFINE e == [level |-> l, type |-> t, module |-> m, timestamp |-> hour]
<1>1. StatisticsInv /\ ErrorsInv /\ hour \in 0..MaxHour
  BY DEF MonitorsInv
<1>2. e \in ErrorInfo
  BY <1>1 DEF ErrorInfo
<1>3. /\ levelOf[e] = l /\ typeOf[e] = t /\ moduleOf[e] = m /\ hourOf[e] = hour % HoursInDay
  BY <1>2 DEF levelOf, typeOf, moduleOf, hourOf
<1>4. hourOf[e] \in Hours
  <2>1. hour \in Nat /\ HoursInDay \in Nat \ {0}
    BY <1>1
  <2>2. hour % HoursInDay \in 0..(HoursInDay - 1)
    BY <2>1, Remainder
  <2> QED BY <1>3, <2>2 DEF Hours
<1>5. /\ errors' = [errors EXCEPT ![l] = Pushed(@, e, WindowSize["errors"])]
      /\ raised' = Append(raised, e)
      /\ UNCHANGED <<metrics, requestCount, errorCount, hour, sampled>>
  BY DEF recordError
<1>6. statistics' = [total |-> statistics.total + 1,
                     byType |-> [statistics.byType EXCEPT ![typeOf[e]] = @ + 1],
                     byModule |-> [statistics.byModule EXCEPT ![moduleOf[e]] = @ + 1],
                     byHour |-> [statistics.byHour EXCEPT ![hourOf[e]] = @ + 1]]
  BY <1>3 DEF recordError, updateStatistics
<1> HIDE DEF e
<1>7. StatisticsInv'
  <2>1. /\ statistics'.total = statistics.total + 1
        /\ statistics'.byType = [statistics.byType EXCEPT ![typeOf[e]] = @ + 1]
        /\ statistics'.byModule = [statistics.byModule EXCEPT ![moduleOf[e]] = @ + 1]
        /\ statistics'.byHour = [statistics.byHour EXCEPT ![hourOf[e]] = @ + 1]
    BY <1>6
  <2>2. /\ raised \in Seq(ErrorInfo)
        /\ statistics \in Statistics /\ statistics.total = Len(raised)
        /\ CountsOf(statistics.byType, ErrorTypes, raised, typeOf)
        /\ CountsOf(statistics.byModule, ErrorModules, raised, moduleOf)
        /\ CountsOf(statistics.byHour, Hours, raised, hourOf)
    BY <1>1 DEF StatisticsInv, ErrorsInv
  <2>3. typeOf[e] \in ErrorTypes /\ moduleOf[e] \in ErrorModules
    BY <1>3
  <2>4. /\ CountsOf(statistics'.byType, ErrorTypes, Append(raised, e), typeOf)
        /\ CountsOf(statistics'.byModule, ErrorModules, Append(raised, e), moduleOf)
        /\ CountsOf(statistics'.byHour, Hours, Append(raised, e), hourOf)
    <3>1. CountsOf([statistics.byType EXCEPT ![typeOf[e]] = @ + 1], ErrorTypes,
                   Append(raised, e), typeOf)
      BY <1>2, <2>2, <2>3, CountedOnceMore
    <3>2. CountsOf([statistics.byModule EXCEPT ![moduleOf[e]] = @ + 1], ErrorModules,
                   Append(raised, e), moduleOf)
      BY <1>2, <2>2, <2>3, CountedOnceMore
    <3>3. CountsOf([statistics.byHour EXCEPT ![hourOf[e]] = @ + 1], Hours,
                   Append(raised, e), hourOf)
      BY <1>2, <1>4, <2>2, CountedOnceMore
    <3> QED BY <2>1, <3>1, <3>2, <3>3
  <2>5. statistics'.total = Len(Append(raised, e))
    BY <2>1, <2>2
  <2>6. statistics' \in Statistics
    <3>1. /\ statistics'.byType \in [ErrorTypes -> Nat]
          /\ statistics'.byModule \in [ErrorModules -> Nat]
          /\ statistics'.byHour \in [0..(HoursInDay - 1) -> Nat]
      BY <2>4 DEF CountsOf, Hours
    <3>2. statistics'.total \in Nat
      BY <2>1, <2>2
    <3>3. statistics' = [total |-> statistics'.total, byType |-> statistics'.byType,
                         byModule |-> statistics'.byModule, byHour |-> statistics'.byHour]
      BY <1>6
    <3> QED BY <3>1, <3>2, <3>3 DEF Statistics
  <2>7. levelOf' = levelOf /\ typeOf' = typeOf /\ moduleOf' = moduleOf /\ hourOf' = hourOf
    BY DEF levelOf, typeOf, moduleOf, hourOf
  <2> QED BY <1>5, <2>4, <2>5, <2>6, <2>7 DEF StatisticsInv
<1>8. ErrorsInv'
  <2>1. errors \in [Levels -> Seq(ErrorInfo)] /\ raised \in Seq(ErrorInfo)
    BY <1>1 DEF ErrorsInv
  <2>2. WindowSize["errors"] \in Nat \ {0}
    OBVIOUS
  <2>3. raised' \in Seq(ErrorInfo)
    BY <1>2, <1>5, <2>1
  <2>4. errors[l] \in Seq(ErrorInfo)
    BY <2>1
  <2>5. Pushed(errors[l], e, WindowSize["errors"]) \in Seq(ErrorInfo)
    BY <1>2, <2>2, <2>4, PushedType
  <2>6. errors' \in [Levels -> Seq(ErrorInfo)]
    BY <1>5, <2>1, <2>5
  <2>7. ASSUME NEW k \in Levels
        PROVE  HoldsTheLatest(errors'[k], WindowSize["errors"], raised', At(raised', levelOf, k))
    <3> DEFINE P == At(raised, levelOf, k)
    <3>1. P \in SUBSET (DOMAIN raised) /\ errors[k] \in Seq(ErrorInfo)
      BY <2>1 DEF At
    <3>2. HoldsTheLatest(errors[k], WindowSize["errors"], raised, P)
      BY <1>1 DEF ErrorsInv
    <3>3. CASE k = l
      <4>1. errors'[k] = Pushed(errors[k], e, WindowSize["errors"])
        BY <1>5, <2>1, <3>3
      <4>a. levelOf[e] = k
        BY <1>3, <3>3
      <4>2. At(Append(raised, e), levelOf, k) = AndNext(At(raised, levelOf, k), raised)
        BY <1>2, <2>1, <4>a, AtAppendedOfKey
      <4>b. At(Append(raised, e), levelOf, k) = P \cup {Len(raised) + 1}
        BY <4>2 DEF AndNext
      <4> HIDE DEF P
      <4>3. HoldsTheLatest(Pushed(errors[k], e, WindowSize["errors"]), WindowSize["errors"],
                           Append(raised, e), P \cup {Len(raised) + 1})
        BY <1>2, <2>1, <2>2, <3>1, <3>2, PushKeepsTheLatest
      <4> QED BY <1>5, <4>1, <4>b, <4>3
    <3>4. CASE k # l
      <4>1. errors'[k] = errors[k]
        BY <1>5, <2>1, <3>4
      <4>2. At(Append(raised, e), levelOf, k) = P
        BY <1>2, <1>3, <2>1, <3>4, AtAppended
      <4> HIDE DEF P
      <4>3. HoldsTheLatest(errors[k], WindowSize["errors"], Append(raised, e), P)
        BY <1>2, <2>1, <3>1, <3>2, OthersLeaveTheLatest
      <4> QED BY <1>5, <4>1, <4>2, <4>3
    <3> QED BY <3>3, <3>4
  <2>8. levelOf' = levelOf
    BY DEF levelOf
  <2> QED BY <2>3, <2>6, <2>7, <2>8 DEF ErrorsInv
<1>9. SamplesInv' /\ RequestsInv' /\ hour' \in 0..MaxHour
  <2>1. requests' = requests
    BY <1>5 DEF requests
  <2> QED BY <1>1, <1>5, <2>1 DEF MonitorsInv, SamplesInv, RequestsInv
<1> QED BY <1>7, <1>8, <1>9 DEF MonitorsInv

\* Whatever is recorded, reset or cleared.
LEMMA MonitorsStep == MonitorsInv /\ [MonitorsNext]_monitorsVars => MonitorsInv'
<1> SUFFICES ASSUME MonitorsInv, [MonitorsNext]_monitorsVars PROVE MonitorsInv'
  OBVIOUS
<1>1. ASSUME NEW x \in Samples, NEW e \in Endpoints, NEW fails \in BOOLEAN, intercept(e, x, fails)
      PROVE  MonitorsInv'
  BY <1>1, InterceptInv
<1>2. ASSUME NEW x \in Samples, NEW q \in QueryNames, recordDatabaseQueryTime(q, x)
      PROVE  MonitorsInv'
  BY <1>2, QueryInv
<1>3. ASSUME NEW x \in Samples, NEW cpu \in Samples, monitorSystemResources(x, cpu)
      PROVE  MonitorsInv'
  BY <1>3, ResourcesInv
<1>4. ASSUME NEW l \in Levels, NEW t \in ErrorTypes, NEW m \in ErrorModules, recordError(l, t, m)
      PROVE  MonitorsInv'
  BY <1>4, ErrorInv
<1>5. CASE resetMetrics
  <2>1. UNCHANGED <<errors, statistics, hour, raised>>
    BY <1>5 DEF resetMetrics
  <2>2. NothingSampled'
    BY <1>5 DEF resetMetrics, NothingSampled
  <2>3. SamplesInv' /\ RequestsInv'
    <3>1. (NothingSampled => SamplesInv /\ RequestsInv)'
      BY NoSamplesInv, PTL
    <3> QED BY <2>2, <3>1
  <2> QED BY <2>1, <2>3 DEF MonitorsInv, StatisticsInv, ErrorsInv
<1>6. CASE clearErrors
  <2>1. UNCHANGED <<metrics, requestCount, errorCount, hour, sampled>>
    BY <1>6 DEF clearErrors
  <2>2. NothingRaised'
    BY <1>6 DEF clearErrors, NothingRaised
  <2>3. StatisticsInv' /\ ErrorsInv'
    <3>1. (NothingRaised => StatisticsInv /\ ErrorsInv)'
      BY NoErrorsInv, PTL
    <3> QED BY <2>2, <3>1
  <2> QED BY <2>1, <2>3 DEF MonitorsInv, SamplesInv, RequestsInv, requests
<1>7. CASE HourPasses
  <2>1. /\ UNCHANGED <<metrics, requestCount, errorCount, errors, statistics, sampled, raised>>
        /\ hour' = hour + 1 /\ hour < MaxHour
    BY <1>7 DEF HourPasses
  <2>2. hour' \in 0..MaxHour
    BY <2>1 DEF MonitorsInv
  <2> QED BY <2>1, <2>2 DEF MonitorsInv, SamplesInv, RequestsInv, requests, StatisticsInv, ErrorsInv
<1>8. CASE UNCHANGED monitorsVars
  BY <1>8 DEF monitorsVars, MonitorsInv, SamplesInv, RequestsInv, requests, StatisticsInv, ErrorsInv
<1> QED BY <1>1, <1>2, <1>3, <1>4, <1>5, <1>6, <1>7, <1>8 DEF MonitorsNext

HIDE MonitorsAssumption

\* The constants, one by one.
LEMMA LimitsAreNumbers ==
  /\ RecentLimit \in Nat /\ HoursInDay \in Nat \ {0} /\ HoursInDay - 1 \in Int
  /\ WindowSize["errors"] \in Nat /\ WindowSize["system"] \in Nat
  /\ Samples \subseteq Nat /\ LevelOrder \in Seq(Levels)
BY MonitorsAssumption

\* The types.
LEMMA MonitorsInvTypes == MonitorsInv => MonitorsTypeOK
BY Zenon DEF MonitorsInv, SamplesInv, RequestsInv, StatisticsInv, ErrorsInv, MonitorsTypeOK

\* The positions of a key, read off the records themselves.
LEMMA PositionsOf ==
  ASSUME NEW seq \in Seq(ErrorInfo), NEW v
  PROVE  /\ At(seq, levelOf, v) = {i \in DOMAIN seq : seq[i].level = v}
         /\ At(seq, typeOf, v) = {i \in DOMAIN seq : seq[i].type = v}
         /\ At(seq, moduleOf, v) = {i \in DOMAIN seq : seq[i].module = v}
<1>1. \A i \in DOMAIN seq : seq[i] \in ErrorInfo
  OBVIOUS
<1>2. \A i \in DOMAIN seq : /\ levelOf[seq[i]] = seq[i].level
                            /\ typeOf[seq[i]] = seq[i].type
                            /\ moduleOf[seq[i]] = seq[i].module
  BY <1>1 DEF levelOf, typeOf, moduleOf
<1> QED BY <1>2 DEF At

\* The windows, said with the records themselves.
LEMMA MonitorsInvWindows == MonitorsInv => WindowsHoldTheLatest
<1> SUFFICES ASSUME MonitorsInv PROVE WindowsHoldTheLatest
  OBVIOUS
<1>1. SamplesInv /\ ErrorsInv
  BY DEF MonitorsInv
<1>2. raised \in Seq(ErrorInfo)
  BY <1>1 DEF ErrorsInv
<1>3. ASSUME NEW l \in Levels
      PROVE  HoldsTheLatest(errors[l], WindowSize["errors"], raised,
                            {i \in DOMAIN raised : raised[i].level = l})
  <2>1. At(raised, levelOf, l) = {i \in DOMAIN raised : raised[i].level = l}
    BY <1>2, PositionsOf
  <2>2. HoldsTheLatest(errors[l], WindowSize["errors"], raised, At(raised, levelOf, l))
    BY <1>1 DEF ErrorsInv
  <2> QED BY <2>1, <2>2
<1> QED BY <1>1, <1>3 DEF WindowsHoldTheLatest, SamplesInv

\* Levels are those of the order in which they are shown.
LEMMA LevelsAreFinite ==
  IsFiniteSet(Levels) /\ DOMAIN LevelOrder = 1..Len(LevelOrder) /\ Len(LevelOrder) \in Nat
  /\ \A l \in Levels : \E n \in DOMAIN LevelOrder : LevelOrder[n] = l
<1>1. DOMAIN LevelOrder = 1..Len(LevelOrder) /\ Len(LevelOrder) \in Nat
  BY LimitsAreNumbers
<1> DEFINE S == DOMAIN LevelOrder
<1>2. IsFiniteSet(S)
  BY <1>1, FS_Interval
<1>3. Levels = {LevelOrder[n] : n \in S}
  BY DEF Levels, ToSet
<1> HIDE DEF S
<1>4. IsFiniteSet({LevelOrder[n] : n \in S})
  BY <1>2, ValuesAreFinite
<1> QED BY <1>1, <1>3, <1>4 DEF S

\* A list holds no more than was raised of its level.
LEMMA ListsAreBounded ==
  ASSUME ErrorsInv, NEW l \in Levels
  PROVE  /\ Len(errors[l]) \in Nat /\ Cardinality(At(raised, levelOf, l)) \in Nat
         /\ Len(errors[l]) <= Cardinality(At(raised, levelOf, l))
<1> DEFINE P == At(raised, levelOf, l)
           size == WindowSize["errors"]
<1>1. raised \in Seq(ErrorInfo) /\ errors[l] \in Seq(ErrorInfo)
  BY DEF ErrorsInv
<1>2. P \in SUBSET (DOMAIN raised)
  BY DEF At
<1>3. size \in Nat /\ Len(errors[l]) \in Nat
  BY <1>1, LimitsAreNumbers
<1>4. Len(errors[l]) = Min({size, Cardinality(P)})
  <2>1. HoldsTheLatest(errors[l], size, raised, P)
    BY DEF ErrorsInv
  <2> QED BY Zenon, <2>1 DEF HoldsTheLatest
<1> HIDE DEF P, size
<1>5. Cardinality(P) \in Nat
  BY <1>1, <1>2, PositionsAreFinite
<1>6. Min({size, Cardinality(P)}) <= Cardinality(P)
  <2>1. size \in Int /\ Cardinality(P) \in Int
    BY <1>3, <1>5
  <2> QED BY Zenon, <2>1, MinIsSmaller
<1>7. Len(errors[l]) <= Cardinality(P)
  BY <1>4, <1>6
<1> QED BY <1>3, <1>5, <1>7 DEF P

\* The counters, and what they add up to.
LEMMA MonitorsInvCounters == MonitorsInv => CountersAgree
<1> SUFFICES ASSUME MonitorsInv PROVE CountersAgree
  OBVIOUS
<1>1. RequestsInv /\ StatisticsInv /\ ErrorsInv /\ raised \in Seq(ErrorInfo)
  BY DEF MonitorsInv, ErrorsInv
<1>2. requestCount = SumFunction([e \in Endpoints |-> Len(sampled[<<"api", e>>])])
  <2>1. requestCount = SumFunctionOnSet(requests, Endpoints)
    BY <1>1 DEF RequestsInv
  <2>2. DOMAIN requests = Endpoints
    BY DEF requests
  <2> QED BY Zenon, <2>1, <2>2 DEF SumFunction, requests
<1>3. errorRate \in 0..100
  <2>1. requestCount \in Nat /\ errorCount \in Nat /\ errorCount <= requestCount
    BY <1>1 DEF RequestsInv
  <2>2. CASE requestCount > 0
    <3> DEFINE a == errorCount * 100
               b == requestCount
               q == a \div b
    <3>1. /\ a \in Int /\ b \in Nat \ {0} /\ 0 \in Int /\ 100 \in Int
          /\ b * 0 <= a /\ a <= b * 100
      BY <2>1, <2>2
    <3>2. errorRate = q
      BY <2>2 DEF errorRate
    <3> HIDE DEF a, b
    <3>3. q \in Int /\ 0 <= q /\ q <= 100
      BY <3>1, QuotientBounds
    <3> HIDE DEF q
    <3> QED BY <3>2, <3>3
  <2>3. CASE ~(requestCount > 0)
    BY <2>3 DEF errorRate
  <2> QED BY <2>2, <2>3
<1>4. /\ statistics.total = Len(raised)
      /\ CountsOf(statistics.byType, ErrorTypes, raised, typeOf)
      /\ CountsOf(statistics.byModule, ErrorModules, raised, moduleOf)
      /\ CountsOf(statistics.byHour, Hours, raised, hourOf)
  BY <1>1 DEF StatisticsInv
<1>5. ASSUME NEW t \in ErrorTypes
      PROVE  statistics.byType[t] = Cardinality({i \in DOMAIN raised : raised[i].type = t})
  <2>1. statistics.byType[t] = Cardinality(At(raised, typeOf, t))
    BY <1>4 DEF CountsOf
  <2>2. At(raised, typeOf, t) = {i \in DOMAIN raised : raised[i].type = t}
    BY Zenon, <1>1, PositionsOf
  <2> QED BY <2>1, <2>2
<1>6. ASSUME NEW m \in ErrorModules
      PROVE  statistics.byModule[m] = Cardinality({i \in DOMAIN raised : raised[i].module = m})
  <2>1. statistics.byModule[m] = Cardinality(At(raised, moduleOf, m))
    BY <1>4 DEF CountsOf
  <2>2. At(raised, moduleOf, m) = {i \in DOMAIN raised : raised[i].module = m}
    BY Zenon, <1>1, PositionsOf
  <2> QED BY <2>1, <2>2
<1>7. SumFunction(statistics.byHour) = statistics.total
  <2> DEFINE count == statistics.byHour
  <2>1. DOMAIN count = Hours /\ \A h \in Hours : count[h] = Cardinality(At(raised, hourOf, h))
    BY <1>4 DEF CountsOf
  <2>2. IsFiniteSet(Hours)
    <3>1. 0 \in Int /\ HoursInDay - 1 \in Int
      BY LimitsAreNumbers
    <3> QED BY <3>1, FS_Interval DEF Hours
  <2>3. \A e \in ErrorInfo : hourOf[e] \in Hours
    <3> SUFFICES ASSUME NEW e \in ErrorInfo PROVE hourOf[e] \in Hours
      OBVIOUS
    <3>1. e.timestamp \in Nat /\ HoursInDay \in Nat \ {0}
      BY LimitsAreNumbers, MonitorsAssumption DEF ErrorInfo
    <3>2. e.timestamp % HoursInDay \in 0..(HoursInDay - 1)
      BY <3>1, Remainder
    <3> QED BY <3>2 DEF Hours, hourOf
  <2> HIDE DEF count
  <2>4. SumFunctionOnSet(count, Hours) = Len(raised)
    BY <1>1, <2>1, <2>2, <2>3, CountByParts
  <2>5. SumFunction(count) = SumFunctionOnSet(count, Hours)
    BY Zenon, <2>1 DEF SumFunction
  <2> QED BY <1>4, <2>4, <2>5 DEF count
<1>8. SumFunction(getErrorStatistics.byLevel) <= statistics.total
  <2> DEFINE kept == [l \in Levels |-> Len(errors[l])]
             count == [l \in Levels |-> Cardinality(At(raised, levelOf, l))]
  <2>1. getErrorStatistics.byLevel = kept /\ DOMAIN kept = Levels
    BY DEF getErrorStatistics
  <2>2. \A l \in Levels : kept[l] \in Int /\ count[l] \in Int /\ kept[l] <= count[l]
    BY <1>1, ListsAreBounded
  <2>3. \A l \in Levels : count[l] = Cardinality(At(raised, levelOf, l))
    OBVIOUS
  <2>4. \A e \in ErrorInfo : levelOf[e] \in Levels
    BY DEF levelOf, ErrorInfo
  <2> HIDE DEF kept, count
  <2>5. SumFunctionOnSet(kept, Levels) <= SumFunctionOnSet(count, Levels)
    BY <2>2, LevelsAreFinite, SumMonotonic
  <2>6. SumFunctionOnSet(count, Levels) = Len(raised)
    <3> DEFINE C == Levels
               keys == levelOf
    <3>1. /\ IsFiniteSet(C) /\ \A e \in ErrorInfo : keys[e] \in C
          /\ \A c \in C : count[c] = Cardinality(At(raised, keys, c))
      BY <2>3, <2>4, LevelsAreFinite
    <3> HIDE DEF C, keys
    <3>2. SumFunctionOnSet(count, C) = Len(raised)
      BY <1>1, <3>1, CountByParts
    <3> QED BY <3>2 DEF C
  <2>7. SumFunction(kept) = SumFunctionOnSet(kept, Levels)
    BY Zenon, <2>1 DEF SumFunction
  <2> QED BY <1>4, <2>1, <2>5, <2>6, <2>7
<1> QED BY <1>2, <1>3, <1>4, <1>5, <1>6, <1>7, <1>8 DEF CountersAgree

-----------------------------------------------------------------------------
\* What getRecentErrors() gives: the lists laid end to end, sorted and cut.
LEMMA RecentAreSorted ==
  ASSUME ErrorsInv
  PROVE  LET shown == getRecentErrors
             kept == UNION {ToSet(errors[l]) : l \in Levels}
         IN  /\ \A e \in kept \ ToSet(shown), i \in DOMAIN shown :
                  e.timestamp <= shown[i].timestamp
             /\ \A i, j \in DOMAIN shown :
                  i < j => shown[i].timestamp >= shown[j].timestamp
<1> DEFINE lists == [n \in DOMAIN LevelOrder |-> errors[LevelOrder[n]]]
           all == FlattenSeq(lists)
           times == [i \in DOMAIN all |-> all[i].timestamp]
           nth == Sorted(times)
           L == Len(all)
           cut == Min({RecentLimit, Len(all)})
           shown == [k \in 1..cut |-> all[nth[k]]]
           kept == UNION {ToSet(errors[l]) : l \in Levels}
<1>1. errors \in [Levels -> Seq(ErrorInfo)] /\ \A n \in DOMAIN LevelOrder : LevelOrder[n] \in Levels
  BY LimitsAreNumbers DEF ErrorsInv
<1>2. lists \in Seq(Seq(ErrorInfo)) /\ DOMAIN lists = DOMAIN LevelOrder
  BY <1>1, LevelsAreFinite
<1>3. \A n \in DOMAIN LevelOrder : lists[n] = errors[LevelOrder[n]]
  OBVIOUS
<1>4. getRecentErrors = shown
  BY Zenon DEF getRecentErrors
<1> HIDE DEF lists
<1>5. /\ all \in Seq(ErrorInfo)
      /\ \A n \in DOMAIN lists : \A k \in DOMAIN lists[n] :
           \E i \in DOMAIN all : all[i] = lists[n][k]
  BY <1>2, FlattenKeeps
<1> HIDE DEF all
<1>6. DOMAIN all = 1..L /\ L \in Nat
  BY <1>5
<1>7. times \in [1..L -> Int] /\ \A i \in 1..L : times[i] = all[i].timestamp
  <2>1. \A i \in DOMAIN all : all[i] \in ErrorInfo
    BY <1>5
  <2>2. \A e \in ErrorInfo : e.timestamp \in Int
    BY DEF ErrorInfo
  <2> QED BY <1>6, <2>1, <2>2
<1>8. cut \in 0..L
  <2>1. cut = Min({RecentLimit, L})
    OBVIOUS
  <2> HIDE DEF L, cut
  <2>2. RecentLimit \in Nat
    BY LimitsAreNumbers
  <2>3. /\ Min({RecentLimit, L}) <= L
        /\ Min({RecentLimit, L}) = RecentLimit \/ Min({RecentLimit, L}) = L
    <3>1. RecentLimit \in Int /\ L \in Int
      BY <1>6, <2>2
    <3> QED BY Zenon, <3>1, MinIsSmaller
  <2> QED BY <1>6, <2>1, <2>2, <2>3
<1>9. DOMAIN shown = 1..cut /\ \A k \in 1..cut : shown[k] = all[nth[k]]
  OBVIOUS
<1>10. ToSet(shown) = {shown[i] : i \in DOMAIN shown}
  BY Zenon DEF ToSet
<1> HIDE DEF times, L, cut, shown, nth
<1>11. /\ nth \in Bijection(1..L, 1..L)
       /\ \A k, l \in 1..L : k < l =>
            \/ times[nth[k]] > times[nth[l]]
            \/ /\ times[nth[k]] = times[nth[l]]
               /\ nth[k] < nth[l]
  BY <1>6, <1>7, SortedIsSorted DEF nth
<1>12. /\ \A k \in 1..L : nth[k] \in 1..L
       /\ \A i \in 1..L : \E k \in 1..L : nth[k] = i
  <2>1. nth \in [1..L -> 1..L] /\ \A i \in 1..L : \E k \in 1..L : nth[k] = i
    <3> DEFINE T == 1..L
    <3> HIDE DEF T
    <3>1. nth \in Bijection(T, T)
      BY <1>11 DEF T
    <3>2. nth \in [T -> T] /\ \A i \in T : \E k \in T : nth[k] = i
      BY <3>1, BijectionProperties
    <3> QED BY <3>2 DEF T
  <2> QED BY <2>1
<1>13. \A k, l \in 1..L : k < l => all[nth[k]].timestamp >= all[nth[l]].timestamp
  <2> SUFFICES ASSUME NEW k \in 1..L, NEW l \in 1..L, k < l
               PROVE  all[nth[k]].timestamp >= all[nth[l]].timestamp
    OBVIOUS
  <2>1. nth[k] \in 1..L /\ nth[l] \in 1..L
    BY <1>12
  <2>2. times[nth[k]] \in Int /\ times[nth[l]] \in Int /\ times[nth[k]] >= times[nth[l]]
    <3>1. times[nth[k]] \in Int /\ times[nth[l]] \in Int
      BY <1>7, <2>1
    <3> QED BY <1>11, <3>1
  <2> QED BY <1>7, <2>1, <2>2
<1>14. ASSUME NEW e \in kept \ ToSet(shown), NEW i \in DOMAIN shown
       PROVE  e.timestamp <= shown[i].timestamp
  <2>1. PICK l \in Levels : e \in ToSet(errors[l])
    OBVIOUS
  <2>2. PICK n \in DOMAIN LevelOrder : LevelOrder[n] = l
    BY LevelsAreFinite
  <2>3. PICK k \in DOMAIN errors[l] : e = errors[l][k]
    BY <2>1 DEF ToSet
  <2>4. PICK p \in DOMAIN all : all[p] = e
    BY <1>2, <1>3, <1>5, <2>2, <2>3
  <2>5. PICK j \in 1..L : nth[j] = p
    BY <1>6, <1>12, <2>4
  <2>6. j \notin 1..cut
    <3>1. ASSUME j \in 1..cut PROVE FALSE
      <4>1. shown[j] = e /\ j \in DOMAIN shown
        BY <1>9, <2>4, <2>5, <3>1
      <4> QED BY <1>10, <4>1
    <3> QED BY <3>1
  <2>7. i \in 1..cut /\ shown[i] = all[nth[i]]
    BY <1>9
  <2>8. i \in 1..L /\ i < j
    <3>1. L \in Nat /\ cut \in Nat /\ cut <= L
      BY <1>6, <1>8
    <3>2. i \in Nat /\ 1 <= i /\ i <= cut
      <4>1. i \in 1..cut
        BY <2>7
      <4> QED BY <3>1, <4>1
    <3>3. j \in Nat /\ 1 <= j /\ j <= L
      BY <2>5, <3>1
    <3>4. cut < j
      BY <2>6, <3>1, <3>3
    <3>5. i <= L
      BY <3>1, <3>2
    <3>6. i < j
      BY <3>1, <3>2, <3>3, <3>4
    <3> QED BY <3>1, <3>2, <3>5, <3>6
  <2>9. all[nth[i]].timestamp >= all[nth[j]].timestamp
    BY <1>13, <2>5, <2>8
  <2>10. all[nth[i]].timestamp \in Int /\ all[nth[j]].timestamp \in Int
    <3>1. nth[i] \in 1..L /\ nth[j] \in 1..L
      BY <1>12, <2>5, <2>8
    <3>2. times[nth[i]] \in Int /\ times[nth[j]] \in Int
      BY <1>7, <3>1
    <3> QED BY <1>7, <3>1, <3>2
  <2> QED BY <2>4, <2>5, <2>7, <2>9, <2>10
<1>15. ASSUME NEW i \in DOMAIN shown, NEW j \in DOMAIN shown, i < j
       PROVE  shown[i].timestamp >= shown[j].timestamp
  <2>1. i \in 1..L /\ j \in 1..L
    BY <1>6, <1>8, <1>9
  <2> QED BY <1>9, <1>13, <1>15, <2>1
<1> QED BY <1>4, <1>14, <1>15

\* Of an average over a limit, some sample is over it.
LEMMA AverageIsReached ==
  ASSUME NEW window \in Seq(Samples), NEW limit \in Nat, calculateAverage(window) > limit
  PROVE  \E k \in DOMAIN window : window[k] > limit
<1> DEFINE D == DOMAIN window
           a == SumFunctionOnSet(window, D)
           b == Len(window)
<1>1. D = 1..b /\ b \in Nat /\ \A k \in D : window[k] \in Nat
  <2>1. D = 1..b /\ b \in Nat /\ \A k \in D : window[k] \in Samples
    OBVIOUS
  <2> QED BY <2>1, LimitsAreNumbers
<1>2. IsFiniteSet(D) /\ Cardinality(D) = b
  <2> HIDE DEF D, b
  <2>1. /\ IsFiniteSet(1..b)
        /\ Cardinality(1..b) = IF 1 > b THEN 0 ELSE b - 1 + 1
    BY <1>1, FS_Interval
  <2>2. (IF 1 > b THEN 0 ELSE b - 1 + 1) = b
    BY <1>1
  <2> QED BY <1>1, <2>1, <2>2
<1>3. window # <<>> /\ calculateAverage(window) = a \div b
  <2>1. ASSUME window = <<>> PROVE FALSE
    BY <2>1 DEF calculateAverage
  <2>2. SumFunction(window) = a
    BY Zenon DEF SumFunction
  <2> QED BY <2>1, <2>2 DEF calculateAverage
<1>4. b \in Nat \ {0}
  BY <1>1, <1>3
<1>5. SUFFICES ASSUME \A k \in D : window[k] <= limit PROVE FALSE
  BY <1>1
<1> HIDE DEF D, a, b
<1>6. /\ \A k \in D : window[k] \in Int /\ window[k] <= limit
      /\ \A k \in D : window[k] \in Int /\ 0 <= window[k]
      /\ \A k \in D : window[k] \in Int
  BY <1>1, <1>5
<1>7. SumFunctionOnSet(window, D) <= Cardinality(D) * limit
  BY <1>2, <1>6, SumAtMost
<1>8. Cardinality(D) * 0 <= SumFunctionOnSet(window, D)
  BY <1>2, <1>6, SumAtLeast
<1>9. SumFunctionOnSet(window, D) \in Int
  BY <1>2, <1>6, SumType
<1>10. a \in Int /\ b * 0 <= a /\ a <= b * limit
  BY <1>2, <1>7, <1>8, <1>9 DEF a
<1>11. a \div b \in Int /\ a \div b <= limit
  <2>1. a \in Int /\ b \in Nat \ {0} /\ 0 \in Int /\ limit \in Int
        /\ b * 0 <= a /\ a <= b * limit
    BY <1>4, <1>10
  <2> QED BY ONLY <2>1, QuotientBounds
<1> QED BY <1>3, <1>11

\* Alerts and recommendations.
LEMMA MonitorsInvRecent == MonitorsInv => ReportsAreRecent
<1> SUFFICES ASSUME MonitorsInv PROVE ReportsAreRecent
  OBVIOUS
<1>1. SamplesInv /\ ErrorsInv
  BY DEF MonitorsInv
<1> DEFINE S(what) == <<"system", what>>
<1>2. \A what \in {"memory", "cpu"} :
        /\ S(what) \in Series /\ metrics[S(what)] \in Seq(Samples)
        /\ sampled[S(what)] \in Seq(Samples)
        /\ HoldsTheLatest(metrics[S(what)], WindowSize["system"], sampled[S(what)],
                          DOMAIN sampled[S(what)])
  BY <1>1, SeriesAre DEF SamplesInv
<1>3. WindowSize["system"] \in Nat
  BY LimitsAreNumbers
<1>4. ASSUME NEW what \in {"memory", "cpu"}
      PROVE
        /\ metrics[S(what)] # <<>> => Last(metrics[S(what)]) = Last(sampled[S(what)])
        /\ \A k \in DOMAIN metrics[S(what)] : \E i \in DOMAIN sampled[S(what)] :
             /\ metrics[S(what)][k] = sampled[S(what)][i]
             /\ i > Len(sampled[S(what)]) - WindowSize["system"]
  <2> DEFINE window == metrics[S(what)]
             all == sampled[S(what)]
             size == WindowSize["system"]
  <2>1. /\ window \in Seq(Samples) /\ all \in Seq(Samples) /\ size \in Nat
        /\ HoldsTheLatest(window, size, all, DOMAIN all)
    BY <1>2, <1>3
  <2> HIDE DEF window, all, size
  <2>2. /\ window # <<>> => Last(window) = Last(all)
        /\ \A k \in DOMAIN window : \E i \in DOMAIN all :
             window[k] = all[i] /\ i > Len(all) - size
    BY <2>1, LatestIsLast
  <2> QED BY <2>2 DEF window, all, size
<1> HIDE DEF S
<1>5. ASSUME NEW what \in generateAlerts \ {"errors"}
      PROVE  Last(sampled[S(what)]) > AlertLimit[what]
  <2>1. what \in {"memory", "cpu"} /\ AlertLimit[what] \in Nat
    BY MonitorsAssumption DEF generateAlerts
  <2>2. AlertLimit[what] < getMetrics(S(what)).current
    BY <2>1 DEF generateAlerts, S
  <2>3. getMetrics(S(what)).current
          = IF metrics[S(what)] = <<>> THEN 0 ELSE Last(metrics[S(what)])
    BY DEF getMetrics
  <2>4. metrics[S(what)] # <<>>
    BY <2>1, <2>2, <2>3
  <2>5. Last(metrics[S(what)]) = Last(sampled[S(what)])
    BY <1>4, <2>1, <2>4
  <2> QED BY <2>2, <2>3, <2>4, <2>5
<1>6. ASSUME NEW what \in generateRecommendations \ {"errors"}
      PROVE  \E i \in DOMAIN sampled[S(what)] :
               /\ i > Len(sampled[S(what)]) - WindowSize["system"]
               /\ sampled[S(what)][i] > AdviceLimit[what]
  <2>1. what \in {"memory", "cpu"} /\ AdviceLimit[what] \in Nat
    BY MonitorsAssumption DEF generateRecommendations
  <2>2. AdviceLimit[what] < getMetrics(S(what)).average
    BY <2>1 DEF generateRecommendations, S
  <2>3. getMetrics(S(what)).average = calculateAverage(metrics[S(what)])
    BY DEF getMetrics
  <2>4. calculateAverage(metrics[S(what)]) > AdviceLimit[what]
    BY <2>2, <2>3
  <2>5. PICK k \in DOMAIN metrics[S(what)] : metrics[S(what)][k] > AdviceLimit[what]
    BY <1>2, <2>1, <2>4, AverageIsReached
  <2>6. PICK i \in DOMAIN sampled[S(what)] :
               /\ metrics[S(what)][k] = sampled[S(what)][i]
               /\ i > Len(sampled[S(what)]) - WindowSize["system"]
    BY <1>4, <2>1
  <2> QED BY <2>5, <2>6
<1>7. LET shown == getRecentErrors
          kept == UNION {ToSet(errors[l]) : l \in Levels}
      IN  /\ \A e \in kept \ ToSet(shown), i \in DOMAIN shown :
               e.timestamp <= shown[i].timestamp
          /\ \A i, j \in DOMAIN shown :
               i < j => shown[i].timestamp >= shown[j].timestamp
  BY <1>1, RecentAreSorted
<1> QED BY <1>5, <1>6, <1>7 DEF ReportsAreRecent, S

\* The types of the windows, lists and counters, for any sizes and limits.
THEOREM MonitorsTypeCorrect == MonitorsSpec => []MonitorsTypeOK
<1>1. MonitorsInit => MonitorsInv
  BY MonitorsInitInv
<1>2. MonitorsInv /\ [MonitorsNext]_monitorsVars => MonitorsInv'
  BY MonitorsStep
<1>3. MonitorsInv => MonitorsTypeOK
  BY MonitorsInvTypes
<1> QED BY <1>1, <1>2, <1>3, PTL DEF MonitorsSpec

\* Whatever was recorded, reset and cleared, and however many windows have
\* overflowed: the windows hold what came last, the counters count everything,
\* and alerts, recommendations and recent errors are about what is recent.
THEOREM MonitorsAreAlwaysCurrent == MonitorsSpec => []MonitorsAreCurrent
<1>1. MonitorsInit => MonitorsInv
  BY MonitorsInitInv
<1>2. MonitorsInv /\ [MonitorsNext]_monitorsVars => MonitorsInv'
  BY MonitorsStep
<1>3. MonitorsInv => MonitorsAreCurrent
  BY MonitorsInvWindows, MonitorsInvCounters, MonitorsInvRecent DEF MonitorsAreCurrent
<1> QED BY <1>1, <1>2, <1>3, PTL DEF MonitorsSpec
=============================================================================
