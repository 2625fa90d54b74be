--------------------------- MODULE MCDeviceInbox ---------------------------
(* The instance of DeviceInbox that TLC checks.                             *)
EXTENDS DeviceInbox

CONSTANTS s1, s2, s3, s4, i1, i2, i3

\* s3 has the sender and the timestamp of s1.
MCSmsId == [s \in Sms |-> CASE s = s2 -> i2 [] s = s4 -> i3 [] OTHER -> i1]
=============================================================================
