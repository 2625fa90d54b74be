----------------------------- MODULE MCContacts -----------------------------
(* The instance of Contacts that TLC checks: somebody who writes by SMS and     *)
(* somebody who writes two messages by Telegram.  The contact an agent adds may *)
(* have the phone number of the first, as a contact of another channel would.   *)
EXTENDS Contacts, TLC

MCAccountOf == [sms1 |-> "sms", tg1 |-> "telegram"]
MCPhoneOf   == [sms1 |-> "p1", tg1 |-> NoPhone]
MCFrom      == [m1 |-> "sms1", m2 |-> "tg1", m3 |-> "tg1"]
=============================================================================
