\* Two SIMs, two broadcasts out of four SMSs, a replaced registration and a crash.
SPECIFICATION InboxFairSpec
CONSTANTS
  s1 = s1 s2 = s2 s3 = s3 s4 = s4
  i1 = i1 i2 = i2 i3 = i3
  Sms = {s1, s2, s3, s4}
  Id = {i1, i2, i3}
  SmsId <- MCSmsId
  Unacceptable = {s2}
  NumberTaken = {s4}
  Receivers = {r1, r2}
  Loop = Loop
  Kicks = {k1}
  MaxBroadcasts = 2
  MaxDevices = 2
  MaxRestarts = 1
  NoOne = NoOne
INVARIANTS
  LostOnlyWhenDisturbed
  OneRowPerRegistration
PROPERTIES
  RelaysAsPromised
  QueuedIsRelayed
\* A revoked phone with nothing queued is at rest.
CHECK_DEADLOCK FALSE
