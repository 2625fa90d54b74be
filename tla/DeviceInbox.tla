---------------------------- MODULE DeviceInbox ----------------------------
(***************************************************************************)
(* The inbound half of the Android gateway: received SMSs are written to a *)
(* queue file (PendingInboundStore.kt) by the broadcast receiver           *)
(* (SmsReceivedReceiver.kt) and pushed to the server by the foreground     *)
(* service's flushes (GatewayForegroundService.kt).                        *)
(*                                                                         *)
(* Each receiver constructs a PendingInboundStore of its own, so only the  *)
(* service's flushes share a mutex.  An update of the file reads it,       *)
(* truncates it and writes it; a truncated or garbled file reads as the    *)
(* empty queue.  The order of the queue's entries is left out.             *)
(*                                                                         *)
(* Its names are apart from those of AndroidGateway and Devices, the other *)
(* specifications of the phone, so that PhoneProofs can extend all three.  *)
(***************************************************************************)
EXTENDS Naturals, FiniteSets

CONSTANTS
  Sms,            \* received messages
  Id, SmsId,      \* their externalMessageIds: sha256(sender:timestamp)
  Unacceptable,   \* Sms the server answers 400, e.g. of an alphanumeric sender
  NumberTaken,    \* Sms of a new sender whose number some other contact has
  Receivers,      \* receivers that may run at once: one per SIM
  Loop,           \* the flush of the poll loop
  Kicks,          \* flushes started by receivers that may run at once
  MaxBroadcasts,  \* bound: SMS_RECEIVED broadcasts, repeated ones included
  MaxDevices,     \* bound: registrations of the phone
  MaxRestarts,    \* bound: times the phone's process dies
  NoOne

Flushers == {Loop} \cup Kicks
Processes == Receivers \cup Flushers

ASSUME SmsIdAssumption ==
  SmsId \in [Sms -> Id] /\ Unacceptable \cup NumberTaken \subseteq Sms
ASSUME ProcessesAssumption ==
  /\ Loop \notin Kicks
  /\ Receivers \cap Flushers = {}
  /\ NoOne \notin Processes \cup Sms
ASSUME BoundsAssumption ==
  MaxBroadcasts \in Nat /\ MaxDevices \in Nat \ {0} /\ MaxRestarts \in Nat

VARIABLES
  \* --- the phone's storage ---
  file,       \* entries the queue file holds, as readLocked would return them
  revokedPhone, \* GatewayConfigStore.revoked
  \* --- the phone's process ---
  place,      \* where each receiver and flush is
  sms,        \* the entry it is working on
  copy,       \* the list it read and is about to write
  todo,       \* the flush's snapshot of the queue, less what it has tried
  mutex,      \* holder of the service's store's mutex
  \* --- the server ---
  device,     \* the phone's current registration
  refused,    \* that registration was revoked on the dashboard
  keys,       \* (registration, externalMessageId) pairs with a Message row
  rows,       \* number of Message rows of each externalMessageId
  \* --- history ---
  queued,     \* messages whose enqueue has returned
  disturbed,  \* two updates of the file overlapped, or one was cut short
  broadcasts, restarts

relay     == <<place, sms, copy, todo, mutex>>
inbox     == <<device, refused, keys, rows>>
inboxVars == <<file, revokedPhone, relay, inbox, queued, disturbed, broadcasts, restarts>>

\* The queue, the processes and the server's rows are well-formed, and the mutex
\* is held exactly by the flush that is updating the file.
InboxTypeOK ==
  /\ file \subseteq Sms /\ revokedPhone \in BOOLEAN
  /\ place \in [Processes -> {"idle", "enqueue", "kick", "peek", "next", "remove",
                              "truncate", "write"}]
  /\ sms \in [Processes -> Sms \cup {NoOne}]
  /\ copy \in [Processes -> SUBSET Sms] /\ todo \in [Processes -> SUBSET Sms]
  /\ mutex \in Flushers \cup {NoOne}
  /\ \A f \in Flushers : place[f] \in {"truncate", "write"} <=> mutex = f
  /\ device \in 1..MaxDevices /\ refused \in BOOLEAN
  /\ keys \subseteq (1..MaxDevices) \X Id /\ rows \in [Id -> Nat]
  /\ queued \subseteq Sms /\ disturbed \in BOOLEAN
  /\ broadcasts \in 0..MaxBroadcasts /\ restarts \in 0..MaxRestarts

AllIdle == [p \in Processes |-> "idle"]
NoSms == [p \in Processes |-> NoOne]
Nothing == [p \in Processes |-> {}]

InboxInit ==
  /\ file = {} /\ revokedPhone = FALSE
  /\ place = AllIdle /\ sms = NoSms /\ copy = Nothing /\ todo = Nothing /\ mutex = NoOne
  /\ device = 1 /\ refused = FALSE /\ keys = {} /\ rows = [i \in Id |-> 0]
  /\ queued = {} /\ disturbed = FALSE /\ broadcasts = 0 /\ restarts = 0

MoveTo(p, label) == place' = [place EXCEPT ![p] = label]

IdsOf(entries) == {SmsId[s] : s \in entries}

-----------------------------------------------------------------------------
(* Updates of the file                                                        *)

\* Reads the queue in order to write list back.
BeginUpdate(p, list) ==
  /\ copy' = [copy EXCEPT ![p] = list]
  /\ MoveTo(p, "truncate")
  /\ disturbed' = (disturbed \/ \E q \in Processes : place[q] \in {"truncate", "write"})

\* writeText opens the file, which empties it ...
Truncate(p) ==
  /\ place[p] = "truncate"
  /\ file' = {}
  /\ MoveTo(p, "write")
  /\ UNCHANGED <<revokedPhone, sms, copy, todo, mutex, inbox, queued, disturbed,
                 broadcasts, restarts>>

\* ... and writes it.  Over what another store wrote meanwhile, the shorter of
\* two texts leaves the tail of the longer one, which no longer parses.
Write(p) ==
  /\ place[p] = "write"
  /\ IF file = {} THEN file' = copy[p] ELSE file' \in {copy[p], {}}
  /\ IF p \in Receivers
       THEN MoveTo(p, "kick") /\ queued' = queued \cup {sms[p]} /\ UNCHANGED mutex
       ELSE MoveTo(p, "next") /\ mutex' = NoOne /\ UNCHANGED queued
  /\ copy' = [copy EXCEPT ![p] = {}] /\ sms' = [sms EXCEPT ![p] = NoOne]
  /\ UNCHANGED <<revokedPhone, todo, inbox, disturbed, broadcasts, restarts>>

-----------------------------------------------------------------------------
(* The broadcast receiver                                                     *)

\* onReceive.  A broadcast may repeat an earlier one.  A revoked phone drops the
\* message: the remaining steps are those of a phone that relays.
Receive(r, s) ==
  /\ place[r] = "idle" /\ ~revokedPhone
  /\ broadcasts < MaxBroadcasts
  /\ broadcasts' = broadcasts + 1
  /\ sms' = [sms EXCEPT ![r] = s]
  /\ MoveTo(r, "enqueue")
  /\ UNCHANGED <<file, revokedPhone, copy, todo, mutex, inbox, queued, disturbed, restarts>>

\* PendingInboundStore.enqueue, under a mutex that nobody else has.
EnqueueSms(r) ==
  /\ place[r] = "enqueue"
  /\ IF SmsId[sms[r]] \in IdsOf(file)
       THEN /\ MoveTo(r, "kick") /\ queued' = queued \cup {sms[r]}
            /\ sms' = [sms EXCEPT ![r] = NoOne] /\ UNCHANGED <<copy, disturbed>>
       ELSE BeginUpdate(r, file \cup {sms[r]}) /\ UNCHANGED <<sms, queued>>
  /\ UNCHANGED <<file, revokedPhone, todo, mutex, inbox, broadcasts, restarts>>

\* startForegroundService(ACTION_FLUSH_INBOUND); a revoked phone's service only
\* stops itself again.
Kick(r) ==
  /\ place[r] = "kick"
  /\ IF revokedPhone
       THEN MoveTo(r, "idle")
       ELSE \E k \in Kicks :
              /\ place[k] = "idle"
              /\ place' = [place EXCEPT ![r] = "idle", ![k] = "peek"]
  /\ UNCHANGED <<file, revokedPhone, sms, copy, todo, mutex, inbox, queued, disturbed,
                 broadcasts, restarts>>

-----------------------------------------------------------------------------
(* A flush of the queue                                                       *)

\* Mutant: the poll loop does not flush; only a new SMS does.
MayStart_KickedOnly(f) == place[f] = "peek"

\* The poll loop flushes in every cycle while the device is not revoked.
MayStart(f) == place[f] = "peek" \/ (f = Loop /\ place[f] = "idle" /\ ~revokedPhone)

\* peekAll
Peek(f) ==
  /\ MayStart(f)
  /\ mutex = NoOne
  /\ todo' = [todo EXCEPT ![f] = file]
  /\ MoveTo(f, "next")
  /\ UNCHANGED <<file, revokedPhone, sms, copy, mutex, inbox, queued, disturbed,
                 broadcasts, restarts>>

\* Mutant: the row is inserted without its idempotency key.
Store_Always(s) ==
  /\ keys' = keys \cup {<<device, SmsId[s]>>}
  /\ rows' = [rows EXCEPT ![SmsId[s]] = @ + 1]
  /\ rows[SmsId[s]] <= MaxDevices
  /\ UNCHANGED <<device, refused>>

\* processInboundMessage's insert; a duplicate is answered like the first one.
Store(s) ==
  /\ IF <<device, SmsId[s]>> \in keys
       THEN UNCHANGED <<keys, rows>>
       ELSE /\ keys' = keys \cup {<<device, SmsId[s]>>}
            /\ rows' = [rows EXCEPT ![SmsId[s]] = @ + 1]
  /\ UNCHANGED <<device, refused>>

\* The flush turns to its next entry.  After the phone has learnt that it is
\* revoked, the loop's job is cancelled at once; a kicked flush may go on until
\* the service is destroyed.
Pushes(f, s) ==
  /\ place[f] = "next" /\ s \in todo[f]
  /\ revokedPhone => f # Loop
  /\ UNCHANGED <<file, copy, mutex, queued, disturbed, broadcasts, restarts>>

Tried(f, s) == todo' = [todo EXCEPT ![f] = @ \ {s}]

\* Success, or a 400: the entry is to be removed.
PushAnswered(f, s) ==
  /\ Pushes(f, s) /\ ~refused /\ s \notin NumberTaken
  /\ IF s \in Unacceptable THEN UNCHANGED inbox ELSE Store(s)
  /\ sms' = [sms EXCEPT ![f] = s] /\ Tried(f, s)
  /\ MoveTo(f, "remove")
  /\ UNCHANGED revokedPhone

\* Mutant: a failed call is taken for a refused payload.
PushLost_Removed(f, s) ==
  /\ Pushes(f, s)
  /\ MoveTo(f, "remove") /\ sms' = [sms EXCEPT ![f] = s] /\ Tried(f, s)
  /\ UNCHANGED <<inbox, revokedPhone>>

\* NetworkFailure or ServerError, or the flush was cancelled while it waited: the
\* entry stays queued, and may be stored all the same.  For a number that another
\* contact has, creating the sender's contact is a unique violation that nobody
\* handles: a 500, and so at every repetition.
PushLost(f, s) ==
  /\ Pushes(f, s)
  /\ \/ UNCHANGED inbox
     \/ ~refused /\ s \notin Unacceptable \cup NumberTaken /\ Store(s)
  /\ Tried(f, s)
  /\ UNCHANGED <<place, sms, revokedPhone>>

EndFlush(f) ==
  /\ MoveTo(f, "idle")
  /\ todo' = [todo EXCEPT ![f] = {}] /\ UNCHANGED sms

\* 429 ends the flush for this cycle.
PushRateLimited(f, s) ==
  /\ Pushes(f, s) /\ ~refused
  /\ EndFlush(f)
  /\ UNCHANGED <<inbox, revokedPhone>>

\* 401: onRevoked
PushUnauthorized(f, s) ==
  /\ Pushes(f, s) /\ refused
  /\ revokedPhone' = TRUE
  /\ EndFlush(f)
  /\ UNCHANGED inbox

\* Mutant: what is left of the flush's snapshot is written back.
BeginRemove_FromSnapshot(f) ==
  /\ place[f] = "remove"
  /\ mutex = NoOne /\ mutex' = f
  /\ BeginUpdate(f, todo[f])
  /\ UNCHANGED <<file, revokedPhone, sms, todo, inbox, queued, broadcasts, restarts>>

\* PendingInboundStore.remove
BeginRemove(f) ==
  /\ place[f] = "remove"
  /\ mutex = NoOne /\ mutex' = f
  /\ BeginUpdate(f, {e \in file : SmsId[e] # SmsId[sms[f]]})
  /\ UNCHANGED <<file, revokedPhone, sms, todo, inbox, queued, broadcasts, restarts>>

\* Every entry was tried, or the service is stopping.
FlushEnds(f) ==
  /\ place[f] = "next"
  /\ todo[f] = {} \/ revokedPhone
  /\ EndFlush(f)
  /\ UNCHANGED <<file, revokedPhone, copy, mutex, inbox, queued, disturbed,
                 broadcasts, restarts>>

-----------------------------------------------------------------------------
(* The dashboard, the operator and the phone's other calls                    *)

Elsewhere == UNCHANGED <<file, relay, keys, rows, queued, disturbed, broadcasts, restarts>>

RevokePhone ==
  /\ ~refused /\ device < MaxDevices
  /\ refused' = TRUE
  /\ Elsewhere /\ UNCHANGED <<revokedPhone, device>>

\* A heartbeat or a poll is answered 401.
OtherCallUnauthorized ==
  /\ refused /\ ~revokedPhone
  /\ revokedPhone' = TRUE
  /\ Elsewhere /\ UNCHANGED <<device, refused>>

\* The dashboard registers the phone as a new device (of another number: the old
\* one stays taken) and the operator enters its token.  By then the stopped
\* service's flushes are over.  The queue file stays as it is.
SaveNewCredentials ==
  /\ revokedPhone /\ \A f \in Flushers : place[f] = "idle"
  /\ device' = device + 1 /\ refused' = FALSE /\ revokedPhone' = FALSE
  /\ Elsewhere

\* START_STICKY and onTaskRemoved bring the service back.
RelayDies ==
  /\ restarts < MaxRestarts
  /\ restarts' = restarts + 1
  /\ place' = AllIdle /\ sms' = NoSms /\ copy' = Nothing /\ todo' = Nothing /\ mutex' = NoOne
  /\ disturbed' = (disturbed \/ \E p \in Processes : place[p] = "write")
  /\ UNCHANGED <<file, revokedPhone, inbox, queued, broadcasts>>

-----------------------------------------------------------------------------
ReceiverStep(r) == EnqueueSms(r) \/ Truncate(r) \/ Write(r) \/ Kick(r)

FlushStep(f) ==
  \/ Peek(f) \/ BeginRemove(f) \/ Truncate(f) \/ Write(f) \/ FlushEnds(f)
  \/ \E s \in Sms :
       \/ PushAnswered(f, s) \/ PushLost(f, s)
       \/ PushRateLimited(f, s) \/ PushUnauthorized(f, s)

InboxNext ==
  \/ \E r \in Receivers : ReceiverStep(r) \/ \E s \in Sms : Receive(r, s)
  \/ \E f \in Flushers : FlushStep(f)
  \/ RevokePhone \/ OtherCallUnauthorized \/ SaveNewCredentials
  \/ RelayDies

InboxSpec == InboxInit /\ [][InboxNext]_inboxVars

\* Coroutines run on, the poll loop never stops, and of the pushes that it makes
\* again and again and that have another answer than a 500, one is answered in the end.
InboxFairness ==
  /\ \A r \in Receivers : WF_inboxVars(ReceiverStep(r))
  /\ \A f \in Flushers : WF_inboxVars(FlushStep(f))
  /\ SF_inboxVars(\E s \in Sms : PushAnswered(Loop, s))

InboxFairSpec == InboxSpec /\ InboxFairness

-----------------------------------------------------------------------------
Kept(s) ==
  SmsId[s] \in IdsOf(file) \cup {k[2] : k \in keys} \cup IdsOf(Unacceptable)

AtRest == \A p \in Processes : place[p] # "write"

\* An SMS whose enqueue returned is still in the file or is on the server, through
\* lost calls, rate limits, revocation, new registrations and crashes, as long as
\* no two updates of the file overlapped and none was cut short.
LostOnlyWhenDisturbed == AtRest /\ ~disturbed => \A s \in queued : Kept(s)

\* The registrations of the phone that have brought a message to the server.
BroughtBy(i) == {d \in 1..device : <<d, i>> \in keys}

\* However often an SMS is broadcast, pushed, put back by a stale write and pushed
\* again, the inbox shows it once for each registration of the phone that brought it.
OneRowPerRegistration == \A i \in Id : rows[i] = Cardinality(BroughtBy(i))

\* What the phone has: the queue, and what is about to be written over it.
Held == IdsOf(file) \cup UNION {IdsOf(copy[p]) : p \in {q \in Processes : place[q] = "write"}}

Promised == INSTANCE Relay WITH
  Refused      <- IdsOf(Unacceptable),
  held         <- Held,
  shown        <- rows,
  registration <- device,
  upset        <- disturbed

\* Whatever receivers, flushes, registrations and crashes interleave, the phone lets
\* go of an SMS only for its row or a refusal, also when the flush works on a snapshot
\* of the queue that is out of date, and shows no SMS that it had let go of.
RelaysAsPromised == Promised!Spec

\* A queued SMS reaches the server, whichever calls get lost and whatever else is in
\* the queue, unless the file was disturbed or the phone is not registered any more.
\* The SMSs whose number is taken stay queued: they are pushed for ever, and must not
\* keep the others from the server.
QueuedIsRelayed ==
  \A s \in Sms \ NumberTaken :
    (s \in queued) ~> (\/ SmsId[s] \in {k[2] : k \in keys} \cup IdsOf(Unacceptable)
                        \/ refused \/ disturbed)

=============================================================================
