\* Three messages from two addresses, one contact added by hand.
SPECIFICATION FairSpec
CONSTANTS
  Addresses = {"sms1", "tg1"}
  AccountOf <- MCAccountOf
  PhoneOf <- MCPhoneOf
  Phones = {"p1"}
  NoPhone = "none"
  SmsAccount = "sms"
  Webhooks = {"m1", "m2", "m3"}
  From <- MCFrom
  MaxAdded = 1
  MaxUpsets = 3
INVARIANTS
  OneContactPerAddress
  ConversationsAnswerable
  SmsReachesWriter
PROPERTIES
  MessageGetsThrough
\* With every message stored and nobody acting, the system is at rest.
CHECK_DEADLOCK FALSE
