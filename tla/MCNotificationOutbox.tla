------------------------ MODULE MCNotificationOutbox ------------------------
(***************************************************************************)
(* Small instances of NotificationOutbox for TLC.                          *)
(***************************************************************************)
EXTENDS NotificationOutbox

BothChannels == {"telegram", "email"}
OnlyTelegram == {"telegram"}
Execution == {"ready", "paused"}
CriticalByEmail == [c \in Conditions |-> IF c = "paused" THEN {"email"} ELSE {}]
OneTick == [n \in 1..MaxAttempts |-> 1]
=============================================================================
