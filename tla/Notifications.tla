---------------------------- MODULE Notifications ----------------------------
(***************************************************************************)
(* Notifications of a user (NotificationService): one is created if the    *)
(* user's settings want its type, then sent over every channel that is     *)
(* switched on, each with its own retries, and marked SENT once all of     *)
(* them have settled.  Meanwhile the user reads it, old ones are cleaned   *)
(* up, and those that FAILED are sent again.  An action is what runs from  *)
(* one await to the next; the process may end at any time and start again. *)
(*                                                                         *)
(* The settings that a query finds are those of NotificationSettings; here *)
(* they are any.  No module provides the service yet.                      *)
(***************************************************************************)
EXTENDS Integers, FiniteSets, Functions

CONSTANTS
    Channels,       \* EMAIL, PUSH, WEBSOCKET
    MayFail,        \* those whose send method can throw
    Sends,          \* notifications that may be sent at the same time
    Retrier,        \* the sender of retryFailedNotifications()
    Readers,        \* requests that mark notifications as read
    MaxRetries,
    MaxNotifications,   \* bound on ids
    Nothing         \* no row, no send, no update

Senders == Sends \cup {Retrier}
NotificationIds == 1..MaxNotifications
NotificationStatus == {"PENDING", "SENT", "READ", "FAILED"}

\* A channel of a send: about to try, or waiting before the next attempt.
Delivery == [attempt : 1..MaxRetries, state : {"trying", "waiting", "delivered", "failed"}]

\* A send: creating its row, delivering it, and then writing its status; id is
\* Nothing until there is a row.
Send == [step : {"creating", "delivering", "SENT", "FAILED"},
         id : NotificationIds \cup {Nothing},
         channels : UNION {[cs -> Delivery] : cs \in SUBSET Channels}]

\* updateNotificationStatus() between findOne() and save().
Update == [id : NotificationIds, status : NotificationStatus]

ASSUME NotificationsAssumption ==
    /\ MayFail \subseteq Channels /\ Retrier \notin Sends
    /\ MaxRetries \in Nat \ {0} /\ MaxNotifications \in Nat
    /\ Nothing \notin NotificationStatus /\ Nothing \notin NotificationIds
    /\ Nothing \notin Send /\ Nothing \notin Update

VARIABLES
    notifications,   \* the table: a status or Nothing
    created,         \* ids given out
    sends,           \* sends[s]: what a sender is doing, or Nothing
    updates,         \* of senders and readers, or Nothing
    retries          \* FAILED rows that retryFailedNotifications() has left

notificationsVars == <<notifications, created, sends, updates, retries>>

NotificationsTypeOK ==
    /\ notifications \in [NotificationIds -> NotificationStatus \cup {Nothing}]
    /\ created \in 0..MaxNotifications
    /\ sends \in [Senders -> Send \cup {Nothing}]
    /\ updates \in [Senders \cup Readers -> Update \cup {Nothing}]
    /\ retries \subseteq NotificationIds

NotificationsInit ==
    /\ notifications = [i \in NotificationIds |-> Nothing]
    /\ created = 0
    /\ sends = [s \in Senders |-> Nothing]
    /\ updates = [u \in Senders \cup Readers |-> Nothing]
    /\ retries = {}

-----------------------------------------------------------------------------
(* The status of a notification.                                           *)

Finds(u, i, status) ==
    /\ updates[u] = Nothing
    /\ notifications[i] # Nothing
    /\ updates' = [updates EXCEPT ![u] = [id |-> i, status |-> status]]

\* save(): a row that is gone meanwhile is inserted again.
Writes(u) ==
    /\ updates[u] # Nothing
    /\ notifications' = [notifications EXCEPT ![updates[u].id] = updates[u].status]
    /\ updates' = [updates EXCEPT ![u] = Nothing]

markNotificationAsRead(r, i) ==
    /\ Finds(r, i, "READ")
    /\ UNCHANGED <<notifications, created, sends, retries>>

MarksAsRead(r) == Writes(r) /\ UNCHANGED <<created, sends, retries>>

ReadFails(r) ==
    /\ updates[r] # Nothing
    /\ updates' = [updates EXCEPT ![r] = Nothing]
    /\ UNCHANGED <<notifications, created, sends, retries>>

\* Of a notification that was read; how old it must be is the request's, and
\* the deletion may fail.
cleanupOldNotifications ==
    /\ \E old \in SUBSET {i \in NotificationIds : notifications[i] = "READ"} :
         notifications' = [i \in NotificationIds |->
                             IF i \in old THEN Nothing ELSE notifications[i]]
    /\ UNCHANGED <<created, sends, updates, retries>>

-----------------------------------------------------------------------------
(* Sending.                                                                *)

FirstAttempts(on) == [c \in on |-> [attempt |-> 1, state |-> "trying"]]

SendBecomes(s, send) == sends' = [sends EXCEPT ![s] = send]

\* sendNotificationToUser() to the save of the row: the settings were found
\* and want the type.  Where they do not, it returns.
sendNotificationToUser(s, on) ==
    /\ sends[s] = Nothing
    /\ SendBecomes(s, [step |-> "creating", id |-> Nothing, channels |-> FirstAttempts(on)])
    /\ UNCHANGED <<notifications, created, updates, retries>>

createNotification(s) ==
    /\ sends[s] # Nothing /\ sends[s].step = "creating"
    /\ created < MaxNotifications /\ created' = created + 1
    /\ notifications' = [notifications EXCEPT ![created + 1] = "PENDING"]
    /\ SendBecomes(s, [sends[s] EXCEPT !.step = "delivering", !.id = created + 1])
    /\ UNCHANGED <<updates, retries>>

Delivering(s, c, state) ==
    /\ sends[s] # Nothing /\ sends[s].step = "delivering"
    /\ c \in DOMAIN sends[s].channels
    /\ sends[s].channels[c].state = state

DeliveryBecomes(s, c, delivery) ==
    /\ SendBecomes(s, [sends[s] EXCEPT !.channels[c] = delivery])
    /\ UNCHANGED <<notifications, created, updates, retries>>

\* sendEmailNotification(), sendPushNotification(), sendWebSocketNotification();
\* a user without an address counts as one who got the e-mail.
Succeeds(s, c) ==
    /\ Delivering(s, c, "trying")
    /\ DeliveryBecomes(s, c, [sends[s].channels[c] EXCEPT !.state = "delivered"])

\* After one attempt fewer.
AttemptFailsEarly(s, c) ==
    /\ Delivering(s, c, "trying") /\ c \in MayFail
    /\ DeliveryBecomes(s, c, [sends[s].channels[c] EXCEPT
         !.state = IF sends[s].channels[c].attempt >= MaxRetries - 1 THEN "failed" ELSE "waiting"])

AttemptFails(s, c) ==
    /\ Delivering(s, c, "trying") /\ c \in MayFail
    /\ DeliveryBecomes(s, c, [sends[s].channels[c] EXCEPT
         !.state = IF sends[s].channels[c].attempt = MaxRetries THEN "failed" ELSE "waiting"])

\* The same attempt again.
TriesTheSame(s, c) ==
    /\ Delivering(s, c, "waiting")
    /\ DeliveryBecomes(s, c, [sends[s].channels[c] EXCEPT !.state = "trying"])

\* After retryDelay * attempt.
TriesAgain(s, c) ==
    /\ Delivering(s, c, "waiting")
    /\ DeliveryBecomes(s, c, [attempt |-> sends[s].channels[c].attempt + 1, state |-> "trying"])

Settled(send) == \A c \in DOMAIN send.channels : send.channels[c].state \in {"delivered", "failed"}

\* Promise.allSettled() does not reject, so the notification is SENT however
\* its channels went.
AllSettled(s) ==
    /\ sends[s] # Nothing /\ sends[s].step = "delivering" /\ Settled(sends[s])
    /\ SendBecomes(s, [sends[s] EXCEPT !.step = "SENT"])
    /\ UNCHANGED <<notifications, created, updates, retries>>

\* updateNotificationStatus() of the sender.
FindsSent(s) ==
    /\ sends[s] # Nothing /\ sends[s].step \in {"SENT", "FAILED"}
    /\ Finds(s, sends[s].id, sends[s].step)
    /\ UNCHANGED <<notifications, created, sends, retries>>

\* Saving ends the send.
WritesSent(s) ==
    /\ Writes(s)
    /\ SendBecomes(s, Nothing)
    /\ UNCHANGED <<created, retries>>

\* A query fails, or the row is gone.  A notification that cannot be marked as
\* SENT is marked as FAILED; if it cannot be either, the send rejects.
SendFails(s) ==
    /\ sends[s] # Nothing /\ sends[s].step # "delivering"
    /\ SendBecomes(s, IF sends[s].step = "SENT" THEN [sends[s] EXCEPT !.step = "FAILED"]
                                                ELSE Nothing)
    /\ updates' = [updates EXCEPT ![s] = Nothing]
    /\ UNCHANGED <<notifications, created, retries>>

\* The listeners: of a trade, a price, a portfolio or a strategy, which notify
\* one user, and of the system, which notifies several, each by a send of its own.
HandleEvent == \E s \in Sends, on \in SUBSET Channels : sendNotificationToUser(s, on)

-----------------------------------------------------------------------------
(* Sending again.                                                          *)

\* Whatever was not sent, read ones too.
Unsent == {i \in NotificationIds : notifications[i] \in {"FAILED", "READ"}}

Failed == {i \in NotificationIds : notifications[i] = "FAILED"}

Retrying == retries # {} \/ sends[Retrier] # Nothing

retryFailedNotifications ==
    /\ ~Retrying
    /\ retries' = Failed
    /\ UNCHANGED <<notifications, created, sends, updates>>

\* The settings of the next one: whether they still want its type is not asked.
Retry(i, on) ==
    /\ i \in retries /\ sends[Retrier] = Nothing
    /\ retries' = retries \ {i}
    /\ SendBecomes(Retrier, [step |-> "delivering", id |-> i, channels |-> FirstAttempts(on)])
    /\ UNCHANGED <<notifications, created, updates>>

\* There are no settings, or they could not be read.
RetrySkips(i) ==
    /\ i \in retries /\ sends[Retrier] = Nothing
    /\ retries' = retries \ {i}
    /\ UNCHANGED <<notifications, created, sends, updates>>

\* The process ends, also because a listener's promise rejects, and starts
\* again: nothing that was under way goes on.
Restart ==
    /\ sends' = [s \in Senders |-> Nothing]
    /\ updates' = [u \in Senders \cup Readers |-> Nothing]
    /\ retries' = {}
    /\ UNCHANGED <<notifications, created>>

-----------------------------------------------------------------------------
SendStep(s) ==
    \/ createNotification(s)
    \/ \E c \in Channels : Succeeds(s, c) \/ AttemptFails(s, c) \/ TriesAgain(s, c)
    \/ AllSettled(s) \/ FindsSent(s) \/ WritesSent(s) \/ SendFails(s)

RetryStep == \E i \in NotificationIds : RetrySkips(i) \/ \E on \in SUBSET Channels : Retry(i, on)

NotificationsNext ==
    \/ HandleEvent
    \/ \E s \in Senders : SendStep(s)
    \/ \E r \in Readers : \/ \E i \in NotificationIds : markNotificationAsRead(r, i)
                          \/ MarksAsRead(r) \/ ReadFails(r)
    \/ cleanupOldNotifications
    \/ retryFailedNotifications \/ RetryStep
    \/ Restart

NotificationsSpec == NotificationsInit /\ [][NotificationsNext]_notificationsVars

\* Mail servers and databases answer or time out, and timers fire: what is
\* under way goes on.
NotificationsFairness ==
    /\ \A s \in Senders : WF_notificationsVars(SendStep(s))
    /\ WF_notificationsVars(RetryStep)

NotificationsFairSpec == NotificationsSpec /\ NotificationsFairness

-----------------------------------------------------------------------------
(* Properties.                                                             *)

Tried(delivery) == delivery.state = "delivered" \/ delivery.attempt = MaxRetries

\* SENT does not mean delivered.  But a notification becomes SENT only when
\* every channel that the settings had on has delivered it or has been tried
\* as often as the code says, and by the send that tried.
SentMeansTried ==
    [][\A i \in NotificationIds :
         notifications[i] # "SENT" /\ notifications'[i] = "SENT" =>
           \E s \in Senders :
             /\ sends[s] # Nothing /\ sends[s].id = i
             /\ \A c \in DOMAIN sends[s].channels : Tried(sends[s].channels[c])]_notificationsVars

\* A notification that was read, and that neither a send nor a retry has.
Read(i) ==
    /\ i <= created /\ notifications[i] \in {"READ", Nothing}
    /\ i \notin retries
    /\ \A s \in Senders : sends[s] # Nothing => sends[s].id # i
    /\ \A u \in DOMAIN updates :
         updates[u] # Nothing /\ updates[u].id = i => updates[u].status = "READ"

\* A send that is under way overwrites READ with SENT.  But a notification that
\* is read once its sends have ended is never sent again: whatever is retried
\* and cleaned up, it stays READ or is removed.
ReadIsFinal == [][\A i \in NotificationIds : Read(i) => Read(i)']_notificationsVars

\* A send ends, however often its channels fail, and so does a retry of
\* everything that failed.
SendsSettle ==
    /\ \A s \in Sends : sends[s] # Nothing ~> sends[s] = Nothing
    /\ Retrying ~> ~Retrying
=============================================================================
