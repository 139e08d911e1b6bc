------------------------- MODULE NotificationSettings -------------------------
(***************************************************************************)
(* What a user wants to be told, and how (UserNotificationSettingsService).*)
(* A user should have one row of settings, and gets one with defaults when *)
(* a request finds none; but userId is not unique, and between a request's *)
(* query and its save other requests run.  An action is what runs from one *)
(* await to the next.                                                      *)
(*                                                                         *)
(* updateNotificationType() is getUserSettings() and then                  *)
(* updateSettings(), and needs no action of its own.                       *)
(***************************************************************************)
EXTENDS Integers, FiniteSets

CONSTANTS
    NotificationTypes,   \* tradeExecuted, priceAlert, ...
    DeliveryMethods,     \* email, push, websocket
    DefaultMethods,      \* all but push
    SettingsRequests,    \* requests under way
    MaxSettings,         \* bound on ids
    NoSettings           \* no row, no request

SettingsIds == 1..MaxSettings
SettingsRow == [types : SUBSET NotificationTypes, methods : SUBSET DeliveryMethods]

\* A request past its query: what it is going to save or remove.  A row that
\* is to be inserted has no id yet; `then` is what an update waits to switch.
SettingsRequest == [id : SettingsIds \cup {NoSettings}, row : SettingsRow,
                    removes : BOOLEAN,
                    then : {NoSettings} \cup [on : SUBSET NotificationTypes,
                                              off : SUBSET NotificationTypes]]

ASSUME NotificationSettingsAssumption ==
    /\ DefaultMethods \subseteq DeliveryMethods /\ MaxSettings \in Nat
    /\ NoSettings \notin SettingsRow /\ NoSettings \notin SettingsIds
    /\ NoSettings \notin SettingsRequest
    /\ NoSettings \notin [on : SUBSET NotificationTypes, off : SUBSET NotificationTypes]

VARIABLES
    settings,           \* the user's rows: by id, or NoSettings
    inserted,           \* ids given out
    settingsRequests    \* settingsRequests[r], past its query, or NoSettings

settingsVars == <<settings, inserted, settingsRequests>>

SettingsTypeOK ==
    /\ settings \in [SettingsIds -> SettingsRow \cup {NoSettings}]
    /\ inserted \in 0..MaxSettings
    /\ settingsRequests \in [SettingsRequests -> SettingsRequest \cup {NoSettings}]

SettingsInit ==
    /\ settings = [i \in SettingsIds |-> NoSettings]
    /\ inserted = 0
    /\ settingsRequests = [r \in SettingsRequests |-> NoSettings]

-----------------------------------------------------------------------------
Rows == {i \in SettingsIds : settings[i] # NoSettings}

DefaultRow == [types |-> NotificationTypes, methods |-> DefaultMethods]

GoesOn(r, request) ==
    /\ settingsRequests[r] = NoSettings
    /\ settingsRequests' = [settingsRequests EXCEPT ![r] = request]
    /\ UNCHANGED <<settings, inserted>>

\* getUserSettings() where there is no row: createDefaultSettings() to its save.
getUserSettings(r) ==
    /\ Rows = {}
    /\ GoesOn(r, [id |-> NoSettings, row |-> DefaultRow, removes |-> FALSE,
                  then |-> NoSettings])

\* createSettings() to its save, whatever is there.
createSettingsAlways(r, row) ==
    GoesOn(r, [id |-> NoSettings, row |-> row, removes |-> FALSE, then |-> NoSettings])

\* createSettings() to its save; where there is a row it throws.
createSettings(r, row) ==
    /\ Rows = {}
    /\ GoesOn(r, [id |-> NoSettings, row |-> row, removes |-> FALSE, then |-> NoSettings])

Switched(row, change) == [row EXCEPT !.types = (@ \cup change.on) \ change.off]

\* updateSettings() to the save of a row, any of the user's.  A request says of
\* a type that it is on, that it is off, or nothing; it switches no method.
updateSettings(r, change) ==
    \/ \E i \in Rows : GoesOn(r, [id |-> i, row |-> Switched(settings[i], change),
                                  removes |-> FALSE, then |-> NoSettings])
    \/ /\ Rows = {}
       /\ GoesOn(r, [id |-> NoSettings, row |-> DefaultRow, removes |-> FALSE,
                     then |-> change])

\* deleteSettings() to its remove.
deleteSettings(r) ==
    \E i \in Rows : GoesOn(r, [id |-> i, row |-> settings[i], removes |-> TRUE,
                               then |-> NoSettings])

\* remove(), and save() of a row that was loaded; it inserts a row that is
\* gone meanwhile with its id.
WriteSettings(r) ==
    /\ settingsRequests[r] # NoSettings /\ settingsRequests[r].id # NoSettings
    /\ settings' = [settings EXCEPT ![settingsRequests[r].id] =
         IF settingsRequests[r].removes THEN NoSettings ELSE settingsRequests[r].row]
    /\ settingsRequests' = [settingsRequests EXCEPT ![r] = NoSettings]
    /\ UNCHANGED inserted

\* save() of a new row; an update goes on with it.
InsertSettings(r) ==
    /\ settingsRequests[r] # NoSettings /\ settingsRequests[r].id = NoSettings
    /\ inserted < MaxSettings /\ inserted' = inserted + 1
    /\ LET request == settingsRequests[r] IN
       /\ settings' = [settings EXCEPT ![inserted + 1] = request.row]
       /\ settingsRequests' = [settingsRequests EXCEPT ![r] =
            IF request.then = NoSettings THEN NoSettings
            ELSE [id |-> inserted + 1, row |-> Switched(request.row, request.then),
                  removes |-> FALSE, then |-> NoSettings]]

\* A query fails.
SettingsFail(r) ==
    /\ settingsRequests[r] # NoSettings
    /\ settingsRequests' = [settingsRequests EXCEPT ![r] = NoSettings]
    /\ UNCHANGED <<settings, inserted>>

SettingsNext ==
    \E r \in SettingsRequests :
        \/ getUserSettings(r) \/ deleteSettings(r)
        \/ \E types \in SUBSET NotificationTypes, methods \in SUBSET DeliveryMethods :
             createSettings(r, [types |-> types, methods |-> methods])
        \/ \E on, off \in SUBSET NotificationTypes :
             on \cap off = {} /\ updateSettings(r, [on |-> on, off |-> off])
        \/ WriteSettings(r) \/ InsertSettings(r) \/ SettingsFail(r)

SettingsSpec == SettingsInit /\ [][SettingsNext]_settingsVars

-----------------------------------------------------------------------------
(* Properties.                                                             *)

\* Some request is going to insert a row, a new one or one that was removed.
Inserting ==
    \E r \in SettingsRequests :
        /\ settingsRequests[r] # NoSettings /\ ~settingsRequests[r].removes
        /\ settingsRequests[r].id \notin Rows

\* One row, and no request on the way to insert another.
Single == Cardinality(Rows) = 1 /\ ~Inserting

\* Two first requests that overlap give a user two rows, of which later ones
\* read any.  But once a user has a single row, only its deletion ends that,
\* whatever requests overlap.
OneRowStaysOne == [][Single /\ Rows' # {} => Single']_settingsVars
=============================================================================
