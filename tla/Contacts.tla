------------------------------ MODULE Contacts ------------------------------
(***************************************************************************)
(* Whose message is it, and who gets the answer: contacts, the identities  *)
(* that tie an external address of a channel account to a contact, and the *)
(* conversations (contactResolution.ts, actions/contacts.ts and their      *)
(* repositories).  Webhook requests resolve or create contacts in one      *)
(* transaction and then work on with what they read; a manager may at any  *)
(* moment point an identity at another contact, an agent may add contacts  *)
(* and edit their phone numbers.                                           *)
(***************************************************************************)
EXTENDS Naturals, Sequences, FiniteSets

CONSTANTS
  Addresses,   \* external addresses: a (channel account, externalContactId) each
  AccountOf,   \* the channel account of an address
  PhoneOf,     \* the phone number the channel tells with it, or NoPhone
  Phones,      \* phone numbers
  NoPhone,     \* a null phoneNumber
  SmsAccount,  \* the channel account of the Android gateway
  Webhooks,    \* the messages the channels deliver, each until it is answered 200
  From,        \* the address a message comes from
  MaxAdded,    \* bound: contacts added by hand
  MaxUpsets    \* bound: requests that die, edits and reassignments, together

ASSUME AddressAssumption ==
  /\ IsFiniteSet(Addresses) /\ IsFiniteSet(Webhooks) /\ NoPhone \notin Phones
  /\ PhoneOf \in [Addresses -> Phones \cup {NoPhone}]
  /\ DOMAIN AccountOf = Addresses
  /\ From \in [Webhooks -> Addresses]
ASSUME BoundsAssumption == MaxAdded \in Nat /\ MaxUpsets \in Nat

VARIABLES
  \* --- the database ---
  phone,          \* Contact.phoneNumber, of the contacts in the order of their creation
  identity,       \* the contact an address belongs to, 0 if it has no row
  conversations,  \* the (contact, channel account) pairs with a conversation
  \* --- the requests ---
  pc,             \* where each request is suspended
  target,         \* the contact it resolved
  queued,         \* the SMS waiting for the gateway: in whose conversation, to which address
  \* --- history ---
  auto,           \* the contacts created by webhooks
  merged,         \* the contacts an address was taken from or given to by a manager
  edited,         \* the contacts whose phone number an agent has changed
  upsets          \* requests that died, edits and reassignments

tables == <<phone, identity, conversations>>
work   == <<pc, target>>
vars   == <<tables, work, queued, auto, merged, edited, upsets>>

Numbers     == Phones \cup {NoPhone}
MaxContacts == Cardinality(Addresses) + MaxAdded
Ids         == 1..Len(phone)
Accounts    == {AccountOf[x] : x \in Addresses}
Nobody      == "nobody"
NoSms       == [contact |-> 0, to |-> Nobody]

\* Rows, requests and copies are well-formed, ids refer to existing contacts, and
\* the phone numbers respect @@unique([organizationId, phoneNumber]).
TypeOK ==
  /\ phone \in Seq(Numbers) /\ Len(phone) <= MaxContacts
  /\ \A c, d \in Ids : phone[c] = phone[d] => c = d \/ phone[c] = NoPhone
  /\ identity \in [Addresses -> {0} \cup Ids]
  /\ conversations \subseteq Ids \X Accounts
  /\ pc \in [Webhooks -> {"idle", "create", "refetch", "upsert", "store", "done"}]
  /\ target \in [Webhooks -> {0} \cup Ids]
  /\ queued \in [contact : Ids, to : Addresses] \cup {NoSms}
  /\ auto \subseteq Ids /\ edited \subseteq Ids /\ merged \subseteq Ids
  /\ upsets \in 0..MaxUpsets

\* An empty organization: contacts come from webhooks and from agents.
Init ==
  /\ phone = <<>>
  /\ identity = [x \in Addresses |-> 0]
  /\ conversations = {}
  /\ pc = [w \in Webhooks |-> "idle"]
  /\ target = [w \in Webhooks |-> 0]
  /\ queued = NoSms
  /\ auto = {} /\ merged = {} /\ edited = {}
  /\ upsets = 0

Goto(w, label, c) ==
  /\ pc' = [pc EXCEPT ![w] = label]
  /\ target' = [target EXCEPT ![w] = c]

PhoneTaken(p) == p # NoPhone /\ \E c \in Ids : phone[c] = p

-----------------------------------------------------------------------------
(* resolveOrCreateContactAndConversation, called by the webhook routes        *)

\* The first read of the transaction: does the address have an identity?
FindIdentity(w) ==
  /\ pc[w] = "idle"
  /\ LET c == identity[From[w]] IN Goto(w, IF c = 0 THEN "create" ELSE "upsert", c)
  /\ UNCHANGED <<tables, queued, auto, merged, edited, upsets>>

\* Mutant: the contact is created outside of the transaction, which loses the race
\* on the identity and leaves the contact behind.
CreateContactAndIdentity_NoTransaction(w) ==
  /\ pc[w] = "create"
  /\ ~PhoneTaken(PhoneOf[From[w]])
  /\ LET x == From[w]
         c == Len(phone) + 1
         lost == identity[x] # 0
     IN  /\ c <= MaxContacts
         /\ phone' = Append(phone, PhoneOf[x])
         /\ identity' = IF lost THEN identity ELSE [identity EXCEPT ![x] = c]
         /\ auto' = auto \cup {c}
         /\ Goto(w, IF lost THEN "refetch" ELSE "upsert", IF lost THEN 0 ELSE c)
  /\ UNCHANGED <<conversations, queued, merged, edited, upsets>>

\* The transaction commits: contact and identity appear together.
CreateContactAndIdentity(w) ==
  /\ pc[w] = "create"
  /\ ~PhoneTaken(PhoneOf[From[w]]) /\ identity[From[w]] = 0
  /\ LET x == From[w]
         c == Len(phone) + 1
     IN  /\ phone' = Append(phone, PhoneOf[x])
         /\ identity' = [identity EXCEPT ![x] = c]
         /\ auto' = auto \cup {c}
         /\ Goto(w, "upsert", c)
  /\ UNCHANGED <<conversations, queued, merged, edited, upsets>>

\* The contact is inserted before the identity, so its phone number is the first
\* constraint to be violated: that P2002 does not name externalContactId and is
\* thrown on, the channel gets a 500 and delivers again.
CreateContactRefused(w) ==
  /\ pc[w] = "create"
  /\ PhoneTaken(PhoneOf[From[w]])
  /\ Goto(w, "idle", 0)
  /\ UNCHANGED <<tables, queued, auto, merged, edited, upsets>>

\* Mutant: the request that lost the race tries the insertion again.
LostIdentityRace_Retries(w) ==
  /\ pc[w] = "create"
  /\ ~PhoneTaken(PhoneOf[From[w]]) /\ identity[From[w]] # 0
  /\ Goto(w, "create", 0)
  /\ UNCHANGED <<tables, queued, auto, merged, edited, upsets>>

\* P2002 on externalContactId: everything is rolled back and the winner's row read.
LostIdentityRace(w) ==
  /\ pc[w] = "create"
  /\ ~PhoneTaken(PhoneOf[From[w]]) /\ identity[From[w]] # 0
  /\ Goto(w, "refetch", 0)
  /\ UNCHANGED <<tables, queued, auto, merged, edited, upsets>>

\* Mutant: the row that lost is taken to be the newest contact.
RefetchIdentity_Newest(w) ==
  /\ pc[w] = "refetch"
  /\ Goto(w, "upsert", Len(phone))
  /\ UNCHANGED <<tables, queued, auto, merged, edited, upsets>>

RefetchIdentity(w) ==
  /\ pc[w] = "refetch"
  /\ Goto(w, "upsert", identity[From[w]])
  /\ UNCHANGED <<tables, queued, auto, merged, edited, upsets>>

UpsertForContactAndChannel(c, a) == conversations' = conversations \cup {<<c, a>>}

\* The conversation of (contact, channel account) is created or found; an upsert
\* that loses a race is caught and answered by a read, to the same effect.
UpsertConversation(w) ==
  /\ pc[w] = "upsert"
  /\ UpsertForContactAndChannel(target[w], AccountOf[From[w]])
  /\ Goto(w, "store", target[w])
  /\ UNCHANGED <<phone, identity, queued, auto, merged, edited, upsets>>

\* processInboundMessage stores the message (once, see Inbound) in the conversation
\* it was given, and the route answers 200.
StoreMessage(w) ==
  /\ pc[w] = "store"
  /\ Goto(w, "done", 0)
  /\ UNCHANGED <<tables, queued, auto, merged, edited, upsets>>

\* The request dies between two of its statements; the message is delivered again.
RequestDies(w) ==
  /\ pc[w] \notin {"idle", "done"}
  /\ upsets < MaxUpsets
  /\ upsets' = upsets + 1
  /\ Goto(w, "idle", 0)
  /\ UNCHANGED <<tables, queued, auto, merged, edited>>

-----------------------------------------------------------------------------
(* The contact pages: actions/contacts.ts                                     *)

\* createContact: a taken phone number is a P2002, which leaves no row.
AddContact(p) ==
  /\ Cardinality(Ids \ auto) < MaxAdded
  /\ ~PhoneTaken(p)
  /\ phone' = Append(phone, p)
  /\ UNCHANGED <<identity, conversations, work, queued, auto, merged, edited, upsets>>

\* contactRepository.update: the unique phone number, and the fields that were given.
StoreContact(c, p) == ~PhoneTaken(p) /\ phone' = [phone EXCEPT ![c] = p]

\* updateContact, as far as it is about the phone number.
UpdateContact(c, p) ==
  /\ phone[c] # p
  /\ upsets < MaxUpsets
  /\ upsets' = upsets + 1
  /\ StoreContact(c, p)
  /\ edited' = edited \cup {c}
  /\ UNCHANGED <<identity, conversations, work, queued, auto, merged>>

\* No predicate on the contact it belongs to; conversations and phone numbers stay
\* where they are.
ReassignContact(x, c) == identity' = [identity EXCEPT ![x] = c]

\* connectChannelIdentity: the read before the write only spares a write (and an audit
\* entry) that changes nothing, so a request may as well act at its write.
ConnectChannelIdentity(x, c) ==
  /\ identity[x] \notin {0, c}
  /\ upsets < MaxUpsets
  /\ upsets' = upsets + 1
  /\ ReassignContact(x, c)
  /\ merged' = merged \cup {identity[x], c}
  /\ UNCHANGED <<phone, conversations, work, queued, auto, edited>>

-----------------------------------------------------------------------------
(* An answer by SMS                                                           *)

\* findByContactAndChannelAccount returns the first of these, in no stated order.
IdentitiesFor(c, a) == {x \in Addresses : identity[x] = c /\ AccountOf[x] = a}

\* confirmAndSend finds an identity to send to and leaves the message QUEUED (one
\* message at a time here).
QueueSms(c) ==
  /\ <<c, SmsAccount>> \in conversations /\ queued = NoSms
  /\ \E x \in IdentitiesFor(c, SmsAccount) : queued' = [contact |-> c, to |-> x]
  /\ UNCHANGED <<tables, work, auto, merged, edited, upsets>>

\* Mutant: the gateway is told the number of the contact created last.
NumberToDial_Newest(sms) == phone[Len(phone)]

\* What the gateway is told when it polls: the phone number the contact has by
\* then, not the address the identity holds.
NumberToDial(sms) == phone[sms.contact]

\* The gateway polls, sends and acknowledges (see AndroidGateway).
PickUpSms ==
  /\ queued # NoSms
  /\ queued' = NoSms
  /\ UNCHANGED <<tables, work, auto, merged, edited, upsets>>

-----------------------------------------------------------------------------
Handle(w) ==
  \/ FindIdentity(w) \/ CreateContactAndIdentity(w) \/ CreateContactRefused(w)
  \/ LostIdentityRace(w) \/ RefetchIdentity(w)
  \/ UpsertConversation(w) \/ StoreMessage(w)

Next ==
  \/ \E w \in Webhooks : Handle(w) \/ RequestDies(w)
  \/ \E p \in Numbers : AddContact(p)
  \/ \E c \in Ids, p \in Numbers : UpdateContact(c, p)
  \/ \E c \in Ids : QueueSms(c)
  \/ PickUpSms
  \/ \E x \in Addresses, c \in Ids : ConnectChannelIdentity(x, c)

Spec == Init /\ [][Next]_vars

\* A channel delivers a message until it is answered 200, and the server goes on
\* with a request it has begun; nobody has to add, edit or reassign anything.
FairSpec == Spec /\ \A w \in Webhooks : WF_vars(Handle(w))

-----------------------------------------------------------------------------
(* Properties                                                                 *)

\* However many first messages of one sender arrive together, they make one
\* contact: every contact made by a webhook was made for an address of its own,
\* and none is left without one by a lost race or a request that died.
OneContactPerAddress ==
  /\ \A c \in auto \ merged : \E x \in Addresses : identity[x] = c
  /\ Cardinality(auto) <= Cardinality({x \in Addresses : identity[x] # 0})

\* The agent can answer in every conversation there is: its contact has an
\* identity on its channel account, unless a manager has moved one away.
ConversationsAnswerable ==
  \A v \in conversations : IdentitiesFor(v[1], v[2]) # {} \/ v[1] \in merged

\* A queued SMS goes to the number it answers, unless an agent has edited the
\* contact's phone number or a manager has moved addresses to or from the contact.
SmsReachesWriter ==
  queued # NoSms =>
    \/ NumberToDial(queued) = PhoneOf[queued.to]
    \/ queued.contact \in edited \cup merged

\* A message gets into a conversation, or its sender's first contact is refused
\* because some contact without this address has the sender's phone number.
MessageGetsThrough ==
  \A w \in Webhooks :
    <>(pc[w] = "done" \/ (identity[From[w]] = 0 /\ PhoneTaken(PhoneOf[From[w]])))
=============================================================================
