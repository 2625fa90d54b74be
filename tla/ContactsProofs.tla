--------------------------- MODULE ContactsProofs ---------------------------
(***************************************************************************)
(* What holds of Contacts for any number of addresses, deliveries, agents' *)
(* edits, reassignments and requests that die.                             *)
(***************************************************************************)
EXTENDS Contacts, SequenceTheorems, FiniteSetTheorems, TLAPS

USE DEF tables, work

Labels == {"idle", "create", "refetch", "upsert", "store", "done"}

ContactsOK ==
  /\ phone \in Seq(Numbers)
  /\ \A c, d \in Ids : phone[c] = phone[d] => c = d \/ phone[c] = NoPhone
  /\ identity \in [Addresses -> {0} \cup Ids]
  /\ auto \subseteq Ids /\ edited \subseteq Ids /\ merged \subseteq Ids

\* A request that has resolved its sender holds the sender's contact, unless a manager
\* has moved addresses from or to that contact since.
Resolved(w) == target[w] \in Ids /\ (identity[From[w]] = target[w] \/ target[w] \in merged)

RequestsOK ==
  /\ pc \in [Webhooks -> Labels] /\ target \in [Webhooks -> {0} \cup Ids]
  /\ \A w \in Webhooks : /\ pc[w] = "refetch" => identity[From[w]] # 0
                         /\ pc[w] \in {"upsert", "store"} => Resolved(w)

\* A contact has the phone number of each of its addresses, until an agent or a manager
\* changes what the webhooks wrote.
NumbersKept ==
  \A x \in Addresses : LET c == identity[x]
                       IN  c = 0 \/ phone[c] = PhoneOf[x] \/ c \in edited \cup merged

ConversationsOK == conversations \subseteq Ids \X Accounts /\ ConversationsAnswerable

QueueOK == queued \in [contact : Ids, to : Addresses] \cup {NoSms} /\ SmsReachesWriter

Identified == {x \in Addresses : identity[x] # 0}

AutoOK ==
  /\ \A c \in auto \ merged : \E x \in Addresses : identity[x] = c
  /\ Cardinality(auto) <= Cardinality(Identified)

BoundsOK == Cardinality(Ids \ auto) <= MaxAdded /\ upsets \in 0..MaxUpsets

ContactsInv ==
  ContactsOK /\ RequestsOK /\ NumbersKept /\ ConversationsOK /\ QueueOK /\ AutoOK /\ BoundsOK

-----------------------------------------------------------------------------
LEMMA IdsFinite == ContactsOK => IsFiniteSet(Ids) /\ Cardinality(Ids) = Len(phone) /\ Len(phone) \in Nat
BY FS_Interval DEF ContactsOK, Ids

\* A new contact, whether a webhook or an agent creates it.
LEMMA NewContact ==
  ASSUME ContactsOK, NEW p \in Numbers, ~PhoneTaken(p), phone' = Append(phone, p)
  PROVE  /\ phone' \in Seq(Numbers) /\ Ids' = Ids \cup {Len(phone) + 1} /\ Len(phone) + 1 \notin Ids
         /\ \A c \in Ids : phone'[c] = phone[c]
         /\ phone'[Len(phone) + 1] = p
         /\ \A c, d \in Ids' : phone'[c] = phone'[d] => c = d \/ phone'[c] = NoPhone
<1>0. Len(phone) \in Nat /\ Ids = 1..Len(phone) /\ phone \in Seq(Numbers)
  BY DEF ContactsOK, Ids
<1>1. phone' \in Seq(Numbers) /\ Len(phone') = Len(phone) + 1
  BY <1>0
<1>2. Ids' = Ids \cup {Len(phone) + 1} /\ Len(phone) + 1 \notin Ids
  BY <1>0, <1>1 DEF Ids
<1>3. /\ \A c \in Ids : phone'[c] = phone[c]
      /\ phone'[Len(phone) + 1] = p
  BY <1>0
<1>4. \A c \in Ids : phone[c] # p \/ p = NoPhone
  BY DEF PhoneTaken
<1>5. \A c, d \in Ids' : phone'[c] = phone'[d] => c = d \/ phone'[c] = NoPhone
  <2> SUFFICES ASSUME NEW c \in Ids', NEW d \in Ids', phone'[c] = phone'[d], c # d
               PROVE  phone'[c] = NoPhone
    OBVIOUS
  <2>1. CASE c \in Ids /\ d \in Ids
    BY <1>3, <2>1 DEF ContactsOK
  <2>2. CASE c = Len(phone) + 1 /\ d \in Ids
    BY <1>3, <1>4, <2>2
  <2>3. CASE d = Len(phone) + 1 /\ c \in Ids
    BY <1>3, <1>4, <2>3
  <2> QED BY <1>2, <2>1, <2>2, <2>3
<1> QED BY <1>1, <1>2, <1>3, <1>5

\* A step of a request that leaves the tables alone.
LEMMA RequestStep ==
  ASSUME ContactsInv, NEW w \in Webhooks, NEW label \in Labels, NEW c \in {0} \cup Ids,
         Goto(w, label, c), UNCHANGED <<phone, identity, queued, auto, merged, edited>>,
         label = "refetch" => identity[From[w]] # 0,
         label \in {"upsert", "store"} => c \in Ids /\ (identity[From[w]] = c \/ c \in merged),
         upsets' \in 0..MaxUpsets,
         conversations' = conversations
           \/ (c \in Ids /\ (identity[From[w]] = c \/ c \in merged)
               /\ UpsertForContactAndChannel(c, AccountOf[From[w]]))
  PROVE  ContactsInv'
<1>0. From[w] \in Addresses
  BY AddressAssumption
<1>1. ContactsOK' /\ Ids' = Ids
  BY DEF ContactsInv, ContactsOK, Ids
<1>2. RequestsOK'
  BY <1>1 DEF ContactsInv, RequestsOK, Resolved, Goto
<1>3. NumbersKept' /\ AutoOK' /\ BoundsOK'
  BY <1>1 DEF ContactsInv, NumbersKept, AutoOK, BoundsOK, Identified
<1>4. QueueOK'
  BY <1>1 DEF ContactsInv, QueueOK, SmsReachesWriter, NumberToDial
<1>5. ConversationsOK'
  <2>1. CASE conversations' = conversations
    BY <1>1, <2>1 DEF ContactsInv, ConversationsOK, ConversationsAnswerable, IdentitiesFor
  <2>2. CASE c \in Ids /\ (identity[From[w]] = c \/ c \in merged)
             /\ UpsertForContactAndChannel(c, AccountOf[From[w]])
    <3>1. conversations' \subseteq Ids \X Accounts
      BY <1>0, <2>2 DEF ContactsInv, ConversationsOK, UpsertForContactAndChannel, Accounts
    <3>2. IdentitiesFor(c, AccountOf[From[w]]) # {} \/ c \in merged
      BY <1>0, <2>2 DEF IdentitiesFor
    <3> QED
      BY <1>1, <2>2, <3>1, <3>2
      DEF ContactsInv, ConversationsOK, ConversationsAnswerable, IdentitiesFor, UpsertForContactAndChannel
  <2> QED BY <2>1, <2>2
<1> QED BY <1>1, <1>2, <1>3, <1>4, <1>5 DEF ContactsInv

LEMMA CreateStep ==
  ASSUME ContactsInv, NEW w \in Webhooks, CreateContactAndIdentity(w) PROVE ContactsInv'
<1> DEFINE x == From[w]
           c == Len(phone) + 1
<1>0. x \in Addresses /\ PhoneOf[x] \in Numbers
  BY AddressAssumption DEF Numbers
<1>1. /\ phone' = Append(phone, PhoneOf[x]) /\ ~PhoneTaken(PhoneOf[x])
      /\ identity[x] = 0 /\ identity' = [identity EXCEPT ![x] = c]
      /\ auto' = auto \cup {c} /\ Goto(w, "upsert", c)
      /\ UNCHANGED <<conversations, queued, merged, edited, upsets>>
  BY DEF CreateContactAndIdentity
<1>2. /\ Ids' = Ids \cup {c} /\ c \notin Ids /\ c # 0
      /\ \A d \in Ids : phone'[d] = phone[d]
      /\ phone'[c] = PhoneOf[x]
  <2>1. c # 0
    BY IdsFinite DEF ContactsInv
  <2> QED BY <1>0, <1>1, <2>1, NewContact DEF ContactsInv
<1>3. ContactsOK'
  BY <1>0, <1>1, <1>2, NewContact DEF ContactsInv, ContactsOK
<1>4. /\ identity'[x] = c
      /\ \A y \in Addresses \ {x} : identity'[y] = identity[y]
      /\ \A y \in Addresses : identity[y] # 0 => identity'[y] = identity[y]
  BY <1>0, <1>1 DEF ContactsInv, ContactsOK
<1>5. RequestsOK'
  <2>1. pc' \in [Webhooks -> Labels] /\ target' \in [Webhooks -> {0} \cup Ids']
    BY <1>1, <1>2 DEF ContactsInv, RequestsOK, Goto, Labels
  <2>2. pc'[w] = "upsert" /\ target'[w] = c
    BY <1>1 DEF ContactsInv, RequestsOK, Goto
  <2>3. ASSUME NEW v \in Webhooks \ {w}
        PROVE  /\ pc'[v] = "refetch" => identity'[From[v]] # 0
               /\ pc'[v] \in {"upsert", "store"} => Resolved(v)'
    <3>1. pc'[v] = pc[v] /\ target'[v] = target[v] /\ From[v] \in Addresses
      BY <1>1, AddressAssumption DEF ContactsInv, RequestsOK, Goto
    <3>2. pc[v] = "refetch" => identity'[From[v]] # 0
      BY <1>4, <3>1 DEF ContactsInv, RequestsOK
    <3>3. ASSUME Resolved(v) PROVE Resolved(v)'
      <4>1. target[v] # 0 /\ target[v] \in Ids'
        BY <1>2, <3>3 DEF Resolved, Ids
      <4> QED BY <1>1, <1>4, <3>1, <3>3, <4>1 DEF Resolved
    <3> QED BY <3>1, <3>2, <3>3 DEF ContactsInv, RequestsOK
  <2>4. Resolved(w)'
    BY <1>2, <1>4, <2>2 DEF Resolved
  <2> QED BY <2>1, <2>2, <2>3, <2>4 DEF RequestsOK
<1>6. NumbersKept'
  BY <1>1, <1>2, <1>4 DEF ContactsInv, ContactsOK, NumbersKept
<1>7. ConversationsOK'
  <2>1. conversations' \subseteq Ids' \X Accounts
    BY <1>1, <1>2 DEF ContactsInv, ConversationsOK
  <2>2. ASSUME NEW v \in conversations PROVE IdentitiesFor(v[1], v[2])' # {} \/ v[1] \in merged'
    <3>1. v[1] \in Ids
      BY DEF ContactsInv, ConversationsOK
    <3>2. v[1] # 0
      BY <3>1 DEF Ids
    <3> QED
      BY <1>1, <1>4, <3>2 DEF ContactsInv, ConversationsOK, ConversationsAnswerable, IdentitiesFor
  <2> QED BY <1>1, <2>1, <2>2 DEF ConversationsOK, ConversationsAnswerable
<1>8. QueueOK'
  BY <1>1, <1>2 DEF ContactsInv, QueueOK, SmsReachesWriter, NumberToDial
<1>9. AutoOK'
  <2>1. \A d \in auto' \ merged' : \E y \in Addresses : identity'[y] = d
    <3>1. \A d \in auto : d # 0
      BY DEF ContactsInv, ContactsOK, Ids
    <3> QED BY <1>0, <1>1, <1>4, <3>1 DEF ContactsInv, AutoOK
  <2>2. IsFiniteSet(auto) /\ c \notin auto /\ IsFiniteSet(Identified) /\ x \notin Identified
    BY <1>1, <1>2, IdsFinite, FS_Subset, AddressAssumption DEF ContactsInv, ContactsOK, Identified
  <2>3. Identified' = Identified \cup {x}
    BY <1>0, <1>2, <1>4 DEF Identified
  <2>4. Cardinality(auto') = Cardinality(auto) + 1 /\ Cardinality(Identified') = Cardinality(Identified) + 1
    BY <1>1, <2>2, <2>3, FS_AddElement
  <2>5. Cardinality(auto) \in Nat /\ Cardinality(Identified) \in Nat
    BY <2>2, FS_CardinalityType
  <2> QED BY <2>1, <2>4, <2>5 DEF ContactsInv, AutoOK
<1>10. BoundsOK'
  <2>1. Ids' \ auto' = Ids \ auto
    BY <1>1, <1>2 DEF ContactsInv, ContactsOK
  <2> QED BY <1>1, <2>1 DEF ContactsInv, BoundsOK
<1> QED BY <1>3, <1>5, <1>6, <1>7, <1>8, <1>9, <1>10 DEF ContactsInv

LEMMA AddStep ==
  ASSUME ContactsInv, NEW p \in Numbers, AddContact(p) PROVE ContactsInv'
<1> DEFINE c == Len(phone) + 1
<1>1. /\ phone' = Append(phone, p) /\ ~PhoneTaken(p) /\ Cardinality(Ids \ auto) < MaxAdded
      /\ UNCHANGED <<identity, conversations, work, queued, auto, merged, edited, upsets>>
  BY DEF AddContact
<1>2. /\ Ids' = Ids \cup {c} /\ c \notin Ids
      /\ \A d \in Ids : phone'[d] = phone[d]
  BY <1>1, NewContact DEF ContactsInv
<1>3. ContactsOK'
  BY <1>1, <1>2, NewContact DEF ContactsInv, ContactsOK
<1>4. RequestsOK' /\ AutoOK'
  BY <1>1, <1>2 DEF ContactsInv, RequestsOK, Resolved, AutoOK, Identified
<1>5. NumbersKept'
  BY <1>1, <1>2 DEF ContactsInv, ContactsOK, NumbersKept
<1>6. ConversationsOK'
  BY <1>1, <1>2 DEF ContactsInv, ConversationsOK, ConversationsAnswerable, IdentitiesFor
<1>7. QueueOK'
  BY <1>1, <1>2 DEF ContactsInv, QueueOK, SmsReachesWriter, NumberToDial
<1>8. BoundsOK'
  <2>1. Ids' \ auto' = (Ids \ auto) \cup {c} /\ c \notin Ids \ auto
    BY <1>1, <1>2 DEF ContactsInv, ContactsOK
  <2>2. IsFiniteSet(Ids \ auto)
    BY IdsFinite, FS_Subset DEF ContactsInv
  <2>3. Cardinality(Ids' \ auto') = Cardinality(Ids \ auto) + 1 /\ Cardinality(Ids \ auto) \in Nat
    BY <2>1, <2>2, FS_AddElement, FS_CardinalityType
  <2> QED BY <1>1, <2>3, BoundsAssumption DEF ContactsInv, BoundsOK
<1> QED BY <1>3, <1>4, <1>5, <1>6, <1>7, <1>8 DEF ContactsInv

LEMMA UpdateStep ==
  ASSUME ContactsInv, NEW c \in Ids, NEW p \in Numbers, UpdateContact(c, p) PROVE ContactsInv'
<1>1. /\ phone' = [phone EXCEPT ![c] = p] /\ ~PhoneTaken(p) /\ edited' = edited \cup {c}
      /\ upsets < MaxUpsets /\ upsets' = upsets + 1
      /\ UNCHANGED <<identity, conversations, work, queued, auto, merged>>
  BY DEF UpdateContact, StoreContact
<1>2. phone' \in Seq(Numbers) /\ Ids' = Ids /\ \A d \in Ids : phone'[d] = IF d = c THEN p ELSE phone[d]
  <2>1. phone' \in Seq(Numbers) /\ Len(phone') = Len(phone)
    BY <1>1 DEF ContactsInv, ContactsOK, Ids
  <2>2. \A d \in Ids : phone'[d] = IF d = c THEN p ELSE phone[d]
    BY <1>1 DEF ContactsInv, ContactsOK, Ids
  <2> QED BY <2>1, <2>2 DEF Ids
<1>3. ContactsOK'
  BY <1>1, <1>2 DEF ContactsInv, ContactsOK, PhoneTaken
<1>4. RequestsOK' /\ AutoOK' /\ ConversationsOK'
  BY <1>1, <1>2 DEF ContactsInv, RequestsOK, Resolved, AutoOK, Identified, ConversationsOK,
                    ConversationsAnswerable, IdentitiesFor
<1>5. NumbersKept'
  BY <1>1, <1>2 DEF ContactsInv, ContactsOK, NumbersKept
<1>6. QueueOK'
  BY <1>1, <1>2 DEF ContactsInv, QueueOK, SmsReachesWriter, NumberToDial
<1>7. BoundsOK'
  BY <1>1, <1>2, BoundsAssumption DEF ContactsInv, BoundsOK
<1> QED BY <1>3, <1>4, <1>5, <1>6, <1>7 DEF ContactsInv

LEMMA ConnectStep ==
  ASSUME ContactsInv, NEW x \in Addresses, NEW c \in Ids, ConnectChannelIdentity(x, c)
  PROVE  ContactsInv'
<1> DEFINE old == identity[x]
<1>1. /\ identity' = [identity EXCEPT ![x] = c] /\ old \in Ids /\ c # 0
      /\ merged' = merged \cup {old, c} /\ upsets < MaxUpsets /\ upsets' = upsets + 1
      /\ UNCHANGED <<phone, conversations, pc, target, queued, auto, edited>>
  BY DEF ConnectChannelIdentity, ReassignContact, ContactsInv, ContactsOK, Ids
<1>2. /\ Ids' = Ids /\ identity'[x] = c
      /\ \A y \in Addresses \ {x} : identity'[y] = identity[y]
      /\ \A y \in Addresses : identity'[y] = 0 <=> identity[y] = 0
  BY <1>1 DEF ContactsInv, ContactsOK, Ids
<1>3. ContactsOK'
  BY <1>1, <1>2 DEF ContactsInv, ContactsOK
<1>4. RequestsOK'
  BY <1>1, <1>2, AddressAssumption DEF ContactsInv, RequestsOK, Resolved
<1>5. NumbersKept'
  BY <1>1, <1>2 DEF ContactsInv, NumbersKept
<1>6. ConversationsOK'
  BY <1>1, <1>2 DEF ContactsInv, ConversationsOK, ConversationsAnswerable, IdentitiesFor
<1>7. QueueOK'
  BY <1>1, <1>2 DEF ContactsInv, QueueOK, SmsReachesWriter, NumberToDial
<1>8. AutoOK'
  <2>1. Identified' = Identified
    BY <1>2 DEF Identified
  <2> QED BY <1>1, <1>2, <2>1 DEF ContactsInv, AutoOK
<1>9. BoundsOK'
  BY <1>1, <1>2, BoundsAssumption DEF ContactsInv, BoundsOK
<1> QED BY <1>3, <1>4, <1>5, <1>6, <1>7, <1>8, <1>9 DEF ContactsInv

LEMMA QueueStep ==
  ASSUME ContactsInv, (\E c \in Ids : QueueSms(c)) \/ PickUpSms PROVE ContactsInv'
<1>1. UNCHANGED <<phone, identity, conversations, pc, target, auto, merged, edited, upsets>>
  BY DEF QueueSms, PickUpSms
<1>2. ContactsOK' /\ RequestsOK' /\ NumbersKept' /\ ConversationsOK' /\ AutoOK' /\ BoundsOK'
  BY <1>1 DEF ContactsInv, ContactsOK, RequestsOK, Resolved, NumbersKept, ConversationsOK,
              ConversationsAnswerable, IdentitiesFor, AutoOK, BoundsOK, Identified, Ids
<1>3. QueueOK'
  <2>1. CASE PickUpSms
    BY <2>1 DEF PickUpSms, QueueOK, SmsReachesWriter
  <2>2. ASSUME NEW c \in Ids, QueueSms(c) PROVE QueueOK'
    <3>1. PICK x \in Addresses : identity[x] = c /\ queued' = [contact |-> c, to |-> x]
      BY <2>2 DEF QueueSms, IdentitiesFor
    <3>2. phone[c] = PhoneOf[x] \/ c \in edited \cup merged
      BY <3>1 DEF ContactsInv, NumbersKept, Ids
    <3> QED BY <1>1, <3>1, <3>2 DEF QueueOK, SmsReachesWriter, NumberToDial, Ids
  <2> QED BY <2>1, <2>2
<1> QED BY <1>2, <1>3 DEF ContactsInv

LEMMA ContactsStep == ContactsInv /\ [Next]_vars => ContactsInv'
<1> SUFFICES ASSUME ContactsInv, [Next]_vars PROVE ContactsInv'
  OBVIOUS
<1>0. \A w \in Webhooks : From[w] \in Addresses /\ identity[From[w]] \in {0} \cup Ids
                          /\ target[w] \in {0} \cup Ids
  BY AddressAssumption DEF ContactsInv, ContactsOK, RequestsOK
<1>b. upsets \in 0..MaxUpsets
  BY DEF ContactsInv, BoundsOK
<1>1. ASSUME NEW w \in Webhooks, Handle(w) PROVE ContactsInv'
  <2>1. CASE FindIdentity(w)
    BY <1>0, <1>b, <2>1, RequestStep DEF FindIdentity, Labels
  <2>2. CASE CreateContactAndIdentity(w)
    BY <2>2, CreateStep
  <2>3. CASE CreateContactRefused(w)
    BY <1>b, <2>3, RequestStep DEF CreateContactRefused, Labels
  <2>4. CASE LostIdentityRace(w)
    BY <1>b, <2>4, RequestStep DEF LostIdentityRace, Labels
  <2>5. CASE RefetchIdentity(w)
    <3>1. identity[From[w]] \in Ids
      BY <1>0, <2>5 DEF RefetchIdentity, ContactsInv, RequestsOK
    <3> QED BY <1>b, <2>5, <3>1, RequestStep DEF RefetchIdentity, Labels
  <2>6. CASE UpsertConversation(w)
    <3>1. Resolved(w)
      BY <2>6 DEF UpsertConversation, ContactsInv, RequestsOK
    <3> QED BY <1>b, <2>6, <3>1, RequestStep DEF UpsertConversation, Resolved, Labels
  <2>7. CASE StoreMessage(w)
    BY <1>b, <2>7, RequestStep DEF StoreMessage, Labels
  <2> QED BY <1>1, <2>1, <2>2, <2>3, <2>4, <2>5, <2>6, <2>7 DEF Handle
<1>2. ASSUME NEW w \in Webhooks, RequestDies(w) PROVE ContactsInv'
  <2>1. upsets' \in 0..MaxUpsets
    BY <1>2, <1>b, BoundsAssumption DEF RequestDies
  <2> QED BY <1>2, <2>1, RequestStep DEF RequestDies, Labels
<1>3. CASE UNCHANGED vars
  BY <1>3 DEF vars, ContactsInv, ContactsOK, RequestsOK, Resolved, NumbersKept, ConversationsOK,
     ConversationsAnswerable, IdentitiesFor, QueueOK, SmsReachesWriter, NumberToDial, AutoOK,
     BoundsOK, Identified, Ids
<1> QED
  BY <1>1, <1>2, <1>3, AddStep, UpdateStep, ConnectStep, QueueStep DEF Next

LEMMA ContactsInvariant == Spec => []ContactsInv
<1>1. Init => ContactsInv
  <2> SUFFICES ASSUME Init PROVE ContactsInv
    OBVIOUS
  <2>1. phone = <<>> /\ Ids = {} /\ auto = {} /\ conversations = {} /\ queued = NoSms
    BY DEF Init, Ids
  <2>2. Identified = {} /\ Ids \ auto = {} /\ Cardinality({}) = 0
    BY <2>1, FS_EmptySet DEF Init, Identified
  <2>3. AutoOK /\ BoundsOK
    BY <2>1, <2>2, BoundsAssumption DEF Init, AutoOK, BoundsOK
  <2>4. ContactsOK /\ RequestsOK /\ NumbersKept
    BY <2>1, AddressAssumption DEF Init, ContactsOK, RequestsOK, NumbersKept, Labels
  <2>5. ConversationsOK /\ QueueOK
    BY <2>1 DEF ConversationsOK, ConversationsAnswerable, QueueOK, SmsReachesWriter
  <2> QED BY <2>3, <2>4, <2>5 DEF ContactsInv
<1> QED BY <1>1, ContactsStep, PTL DEF Spec

-----------------------------------------------------------------------------
\* The tables, requests and copies stay well-formed, phone numbers unique, and there
\* are never more contacts than addresses and contacts added by hand.
THEOREM TypeCorrect == Spec => []TypeOK
<1>1. ContactsInv => TypeOK
  <2> SUFFICES ASSUME ContactsInv PROVE TypeOK
    OBVIOUS
  <2>1. Len(phone) <= MaxContacts
    <3>1. /\ IsFiniteSet(auto) /\ IsFiniteSet(Ids \ auto) /\ IsFiniteSet(Ids)
          /\ Cardinality(Ids) = Len(phone)
      BY IdsFinite, FS_Subset DEF ContactsInv, ContactsOK
    <3>2. /\ Cardinality(auto) \in Nat /\ Cardinality(Ids \ auto) \in Nat
          /\ Cardinality(Identified) <= Cardinality(Addresses) /\ Cardinality(Identified) \in Nat
          /\ Cardinality(Addresses) \in Nat
      BY <3>1, FS_CardinalityType, FS_Subset, AddressAssumption DEF Identified
    <3>3. Cardinality(Ids) = Cardinality(auto) + Cardinality(Ids \ auto)
      <4>1. Ids \cap auto = auto
        BY DEF ContactsInv, ContactsOK
      <4>2. Cardinality(Ids \ auto) = Cardinality(Ids) - Cardinality(Ids \cap auto)
        BY <3>1, FS_Difference
      <4>3. Cardinality(Ids) \in Nat
        BY <3>1, FS_CardinalityType
      <4> QED BY <3>2, <4>1, <4>2, <4>3
    <3> QED BY <3>1, <3>2, <3>3, BoundsAssumption DEF ContactsInv, AutoOK, BoundsOK, MaxContacts
  <2> QED
    BY <2>1 DEF TypeOK, ContactsInv, ContactsOK, RequestsOK, ConversationsOK, QueueOK, BoundsOK, Labels
<1> QED BY <1>1, ContactsInvariant, PTL

\* First messages that arrive together make one contact for their address, and none
\* that belongs to no address.
THEOREM OneContact == Spec => []OneContactPerAddress
<1>1. ContactsInv => OneContactPerAddress
  BY DEF ContactsInv, AutoOK, OneContactPerAddress, Identified
<1> QED BY <1>1, ContactsInvariant, PTL

\* Every conversation has somebody to answer to, until a manager moves an address.
THEOREM Answerable == Spec => []ConversationsAnswerable
<1>1. ContactsInv => ConversationsAnswerable
  BY DEF ContactsInv, ConversationsOK
<1> QED BY <1>1, ContactsInvariant, PTL

\* An SMS goes to the number it answers, until somebody changes the contact.
THEOREM SmsToWriter == Spec => []SmsReachesWriter
<1>1. ContactsInv => SmsReachesWriter
  BY DEF ContactsInv, QueueOK
<1> QED BY <1>1, ContactsInvariant, PTL
=============================================================================
