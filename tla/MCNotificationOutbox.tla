------------------------ MODULE MCNotificationOutbox ------------------------
(* The instance of NotificationOutbox for TLC: one worker, as deployed.    *)
EXTENDS NotificationOutbox

CONSTANT w1
=============================================================================
