----------------------------- MODULE MCBackground -----------------------------
(***************************************************************************)
(* Services behind the requests that share no state, for TLC: a behaviour  *)
(* is one of any of them, and the others stay where they start.            *)
(***************************************************************************)
EXTENDS KisToken, Monitors, Notifications, NotificationSettings

CONSTANTS critical, low

MCLevels == <<critical, low>>

MCWindows == [api |-> 2, database |-> 1, system |-> 2, errors |-> 2]

MCLimits == [memory |-> 1, cpu |-> 1, errors |-> 1]

VARIABLE service   \* the one that is looked at

TokenRests == UNCHANGED kisTokenVars
MonitorsRest == UNCHANGED monitorsVars
NotificationsRest == UNCHANGED notificationsVars
SettingsRest == UNCHANGED settingsVars

BackgroundInit ==
    /\ service \in {"token", "monitors", "notifications", "settings"}
    /\ KisTokenInit /\ MonitorsInit /\ NotificationsInit /\ SettingsInit

BackgroundNext ==
    /\ UNCHANGED service
    /\ \/ /\ service = "token" /\ KisTokenNext
          /\ MonitorsRest /\ NotificationsRest /\ SettingsRest
       \/ /\ service = "monitors" /\ MonitorsNext
          /\ TokenRests /\ NotificationsRest /\ SettingsRest
       \/ /\ service = "notifications" /\ NotificationsNext
          /\ TokenRests /\ MonitorsRest /\ SettingsRest
       \/ /\ service = "settings" /\ SettingsNext
          /\ TokenRests /\ MonitorsRest /\ NotificationsRest

\* Where the notifications are not looked at none is under way, and their
\* fairness asks for nothing.
BackgroundSpec ==
    /\ BackgroundInit
    /\ [][BackgroundNext]_<<service, kisTokenVars, monitorsVars, notificationsVars, settingsVars>>
    /\ NotificationsFairness
=============================================================================
