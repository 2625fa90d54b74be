# AutoTranslator in TLA+

AutoTranslator is a shared inbox that translates: contacts write over Telegram,
WhatsApp or SMS in their language, agents read and answer in theirs. This
directory models the parts of it where order, failure and concurrency decide
whether a message is lost, sent twice, sent to somebody else, or shown in a
state it is not in. Paths below are relative to the repository; `server/` stands
for `src/server/` and `app-kt/` for
`android-gateway/app/src/main/kotlin/com/autotranslator/gateway/`.

## The system

The server is a Next.js application that may run as many instances at once
(serverless invocations included). Its instances share nothing but one Postgres
database, so everything that happens between two awaits of a request can be
interleaved with any other request, and a request that dies leaves what it had
written. Only the creation of a contact with its identity and the insert of an
inbound message with its event run in a transaction. The Android gateway is an
app that polls the server and sends and receives SMSs.

| Component | State | Operations | Meets | Module |
|---|---|---|---|---|
| Status table, retry policy (`server/messaging/retryQueue.ts`) | none; attempts are counted from `retry_scheduled` events | `canTransition`, `nextRetryDecision`, `runRetryWorkerOnce` | all message services | `MessageStatus`, `Outbound` |
| Outbound life cycle (`outboundService.ts`, `actions/messages.ts`) | `Message` row, its `MessageEvent`s | compose, confirm, retry, edit draft | adapters, translation, retry worker | `Outbound`, `Delivery` |
| Compose page (`inbox/[conversationId]/`) | draft, box, pending request | submit, review, edit, confirm, refresh | outbound life cycle, languages | `Composer` |
| Inbound life cycle (`inboundService.ts`, webhook routes) | `Message` row, contact's languages | process, answer duplicate, retry translation | channels, glossaries, translation | `Inbound` |
| Contacts and conversations (`contactResolution.ts`, `actions/contacts.ts`) | contact, identity, conversation rows | resolve or create, add, edit, reassign | inbound, outbound, gateway | `Contacts` |
| Languages (`resolveLanguage.ts`, `conversationRepository.ts`, `contactRepository.ts`) | four settings | resolve, filter | compose, inbound, lists | `Languages` |
| Delivery status (`deliveryStatusService.ts`) | `Message` row, events | apply a callback | WhatsApp, outbound | `DeliveryStatus` |
| Android gateway, server (`gateways/*.ts`) | `Message` row | pending page, acknowledge, fail | the phone app | `AndroidGateway` |
| Android gateway, app (`app-kt/`) | two JSON files, config store, loops | poll, send, report, flush; receive SMS | server, the phone's radio | `AndroidGateway`, `DeviceInbox`, `Relay`, `Devices` |
| Devices and rate limiter (`actions/android.ts`, `androidAuth.ts`, `rateLimit.ts`) | `ChannelAccount` row, window per device | register, authenticate, heartbeat, revoke | the app | `Devices` |
| Channel setup (`actions/telegram.ts`, `actions/whatsapp.ts`, webhook routes) | `ChannelAccount` row, the webhook registered upstream | connect, verify, admit updates | Telegram, Meta | `ChannelSetup` |
| Channel adapters, failure classifier (`channels/*/adapter.ts`, `failureClassifier.ts`, `providers/openai.ts`) | none | send, throw, classify | outbound life cycle, worker | `ChannelAdapters` |
| Sign-in (`auth.ts`, `credentialsAuth.ts`, `authTokenRefresh.ts`, `sign-in/page.tsx`) | session cookies, magic links | password, link, refresh | every page | `SignIn` |
| People (`actions/users.ts`, `teams.ts`, `conversations.ts`, the settings, teams and assignment pages) | users, teams, audit log, assignment | invite, change role, deactivate, assign | every Server Action | `Team` |

How they fit together: a webhook update is admitted (`ChannelSetup`), its sender
resolved (`Contacts`), the message stored and translated (`Inbound`). An agent
answers (`Composer`), the answer is translated into the language `Languages`
resolves and carried by the row's life cycle (`Outbound`, which implements
`Delivery`) to a channel adapter, whose errors `ChannelAdapters` lists; a WhatsApp row then follows its callbacks
(`DeliveryStatus`), an SMS row is polled, sent and reported by the phone
(`AndroidGateway`), whose right to call is the subject of `Devices` and whose own
inbox is `DeviceInbox`, which implements `Relay`. Who may click at all is decided by `SignIn` and `Team`.
`Composer` and `Inbound` and the theorems about
languages share `Languages` or the same rule; `Outbound`, `Inbound`,
`DeliveryStatus` and `AndroidGateway` share `MessageStatus`. Each module cuts
its neighbours down to the statements it can observe, and says so.

What is hard, and what each part owes:

* **Outbound.** A row is written by two kinds of statements: the conditional
  `claimForTransition` and plain updates that look at the id only. Owed: one
  request at a time talks to the channel; a message is delivered at most once;
  automatic attempts are bounded; nothing stays sending, or failed for a passing reason.
* **Compose page.** The page compares with what it was told, not with what is
  stored. Owed: what was confirmed is what is sent; one text is one message, unless the agent
  had reason to write it again; it is in the language the field named.
* **Inbound.** Webhooks are repeated and overlap, and languages and glossaries
  change under way. Owed: acknowledged means stored; a redelivery costs nothing;
  a translated message stays translated; terms fit the language.
* **Contacts.** First messages race, managers move identities, agents edit phone
  numbers. Owed: one contact per address; every conversation can be answered; an
  SMS goes to the number that wrote.
* **Delivery status.** Callbacks come twice, in any order, and about an earlier
  send. Owed: "delivered" is true; a delivered message is not sent again.
* **Android gateway.** The phone polls and reports over a network that loses
  requests and answers, and its process dies. Owed: SENT means sent; an SMS is
  repeated only if an outcome went unreported; a received SMS gets to the server, once for
  each registration that brings it, unless the server refuses its number.
* **Devices.** Revocation meets heartbeats and tests already under way. Owed: a
  revoked device stays revoked; "disconnected" is true; the app stops.
* **Channel setup.** A registration is five awaits without a transaction. Owed:
  ACTIVE means registered upstream; an organization has one account per channel;
  updates are served as updates of the bot they were sent to, or of the Meta app.
* **People.** Check, read, write and audit are four statements. Owed: an owner
  remains; the audit log tells the history; nobody is signed in by guess, and the
  deactivated act no more.

`PROJECT.json` lists every component and every hazard with its line.

## Modules

### Outbound and Delivery

`Outbound` is one outbound row. Rows never share state, and every statement names
one row by id, so nothing is lost by following one. `Requests` are the server
invocations: `Users` (compose, confirm, edit, retry button) and `Workers` (one
candidate of one worker pass). `pc[r]` is the await at which request `r` is
suspended, and each action is one database statement or one answer of an external
service.

| State | Code |
|---|---|
| `status`, `text`, `lastFailure` | `Message.status`; `translatedText` as none, machine or edited; `classification` of the latest failure event |
| `retries`, `due` | number of `retry_scheduled` events; the latest `scheduledFor` has passed |
| `seen[r]` | the row object the request holds, re-read where the code re-reads (`Reread`) |
| `offered` | a client was answered DRAFT and shows confirm and edit |
| `overwritten`, `accepted`, `ambiguous`, `rawDraft`, `rawSent` | history, read by properties only |

| Actions | Code |
|---|---|
| `InsertMessage`, `ReturnExisting`, `StoreTranslation`, `TranslationFails` | `sendMessage` |
| `Confirm`, `CheckSendable`, `NoIdentity`, `ClaimSend`, `RereadClaimed`, `AdapterAccepts`, `SendFails`, `RecordSendResult` | `confirmAndSend` |
| `TransitionToFailed`, `CountRetries`, `InsertRetryScheduled`, `MoveToDeadLetter` | `transitionToFailed`, `finalizeFailure`, `scheduleNextRetry` |
| `RetryManually`, `WorkerPass`, `ClaimRetry`, `RereadRetried` | `retryMessage`, `runRetryWorkerOnce` |
| `EditDraft`, `MarkTranslationEdited` | `recordTranslationEdit` |
| `ScheduledTimePasses`, `Crash` | the clock; the loss of a server instance |

`claimForTransition` is two steps because it is two statements, the conditional
update and `findByIdInOrgOrThrow`. `UpdateStatus(expected, to)` is the plain
update; `expected` is not in the code, it is the status the caller's comment
relies on and only sets `overwritten`. The properties say what holds *until* such
an overwrite: that is the boundary of what the claims protect.
What an adapter may throw, and so `lastFailure`, comes from `ChannelAdapters` for the
constant `Channel`: no other pair of outcome and class is modelled. `updateTranslationResult` of a composed message, for instance, puts a row that a
second click has meanwhile confirmed back to PENDING.

`Delivery` is the promise without requests, claims or rows: one attempt at a
time, taken at most once, never attempted again once taken, given up only when
the automatic attempts are used up. `Promise` in `Outbound` instantiates it with a
refinement mapping (`phase <- Phase`, `taken <- accepted`, `attempts <- retries`,
`disturbed <- overwritten \/ ambiguous`); `DeliversAsPromised` is `Promise!Spec`,
checked by TLC and proved. Its weak point is stated, not hidden: `Disturb` allows
everything once an unconditional update hit a status its author did not expect, or
the channel took a message and reported an error.

### ChannelAdapters

No state. For each channel the errors its `sendMessage` may throw, before the
channel took the message and after, with the three things the classifier looks
at (hint, HTTP status, "unsupported language"), the classifier itself, and the
errors of the translation provider. `HttpStatus` stands for the answers by one
member of each kind the classifier tells apart.

### Composer

One conversation page of one agent against the server actions it calls and four
language settings that colleagues, the contact and the detection change.
`shown` is the target language the page was told, `draft` the row under review
with the text last told and the text in the box, `request` the step the server is
at. `HandleConfirmSend` decides between edit and confirm by comparing box and told
text, as `composer.tsx` does. On the server each await is a step: a row is inserted
(`InsertReply`) and translated (`TranslateReply`, `TranslationFails`), an edit checked
(`RecordTranslationEdit`) and stored (`MarkTranslationEdited`), the row claimed
(`ClaimReply`), handed to the channel (`ChannelTakes`), its outcome stored
(`StoreOutcome`), and only then are the event and the next retry written and the action
answered (`AnswerOutcome`). `ActionFails` is a throw at any of these steps, also after
SENT or FAILED was stored: the page shows an error over a row that was sent or will be
retried. `ReloadPage` loses answers; `RefreshPage` is `router.refresh`; `RetryReply` is
the claim of the worker or of the thread's button and `RetrySends` the rest of that
retry, which a confirmation may overtake. `failed` is history: rows whose translation
failed, whose edit was stored by a confirmation that failed, and over which an error was
answered after they had left PENDING. Concurrent requests on one row otherwise are left
to `Outbound`.

### Inbound

One inbound row, any number of `Webhooks` deliveries and `Users` retries.
`processInboundMessage` is `Deliver` (contact, languages), `InsertReceived` or
`AnswerDuplicate` (the unique key), `LanguageDetected`, `FindApplicableTerms`,
`StoreDelivered` or `TranslationFails`; `retryInboundTranslation` is `BeginRetry`,
`WritePending`, `ReadPending` and the same four. The contact's languages
(`preferred`, `detected`) and the glossaries change between any two steps;
`asOf` stamps a copy with the edits there had been when its request began.
`acked` is the channel's 200; `overlapped`, `crashed` and `begun`, the number of
deliveries that have set about the translation, are history. A page may
offer "Retry" for a row that has moved on.

### Contacts

`phone` holds the contacts in the order of their creation, `identity` the contact
of an address, `conversations` the (contact, account) pairs. A webhook request is
`FindIdentity`, `CreateContactAndIdentity` (one transaction) or one of its two ways to
lose (`CreateContactRefused`: P2002 on the phone number, a 500; `LostIdentityRace`:
P2002 on the identity, answered by `RefetchIdentity`), `UpsertConversation`,
`StoreMessage`, and may die in between and be delivered again. Beside them run
`AddContact`, `UpdateContact`, `ConnectChannelIdentity` and an answer by SMS
(`QueueSms`, `PickUpSms`) whose number is read when the phone polls. `auto`,
`merged` and `edited` are history: who was created by a webhook, moved by a
manager, edited by an agent.

### Languages

No behaviour, functions only: the chain of `resolveTargetLanguage`, the same for
an inbound message's reader, and the two filters in SQL that restate the chain
(`listForInbox`, `listForContactsPage`). Both filters spread the condition of the
language and that of a search into one object under the same key `OR`, so the search
replaces the language (`SpreadOr`). `ComposerProofs` relates them.

### ChannelSetup

A Connect click is `ValidateCredentials`, `FindOrgAccount`, `StoreCredentials`,
`SetWebhook`, `Activate`, `RecordAudit`, each an await, with a refusal, a lost
answer and a death at each place the code has them. Rows name the bot, whose
secret they hold and which click wrote them; `hook` is what the channel knows:
Telegram has a webhook for each bot, Meta one for each app (`AppOf`), which posts the
updates of all its numbers to one URL, signed with one app secret (`Poster`).
Telegram's account waits at PENDING_SETUP for its webhook, WhatsApp's is ACTIVE at
once and its webhook is set up by the operator (`VerifyHandshake`).
`ReceiveUpdate` is the webhook route's admission by status and secret, which does not
compare an update's `phone_number_id` with the account's; `HandleUpdate` is what is
later done with the row read then. `disturbed` are the
clicks that overlapped another of their organization and channel, or of their bot.

### Devices

`devices` are the rows of registered phones; registration is two statements and an
answer (`CreateDevice`, `SetDeviceTokenHash`, `AnswerToken`), any of which may be the last.
The app is its config store (`stored`, `revoked`), its service (`client`, `quiet`) and
three jobs with a call each: heartbeat, poll and "Test connection". A call is
`Call`, `Authenticate` (token, then the window of the rate limiter), the handler, the
answer. `StopService` cancels the loops' calls and not the test. Left out: the
in-memory flag by which the screen learns of a revocation (the config store says
the same), and the moment between `stopService` and `onDestroy`.

### SignIn and Team

`SignIn` is the session of each browser (`cookie`), the magic links that are still
valid and the users whose email a second organization has registered:
a sign-in names no organization, so `Matches` counts rows in all of them.
`RefreshedRole` is the `jwt` callback, which reads the user's row on every request;
`RefreshSession` is its effect on a session whose user is not active any more.

`Team` extends it. It starts from what `seed.ts` leaves. Role changes and
deactivations run in `Requests`: `ReadTarget`, `CountActiveOwners`
(`assertNotRemovingLastOwner`), `ReadBefore`, `UpdateRole` or `Deactivate`,
`RecordAudit`; every guard of an action reads the refreshed session of the browser
it came from; `Calls(b)` says that a page of browser `b` calls one. Invitations, teams, members and assignments are single statements.
`UsersSection`, `TeamCard` and `AssignmentPanel` are the pages: what they offer is
what can be called, and a list may be as old as one likes (two tabs of one browser
share its cookie and need no state of their own). `stale` are requests whose
checks another write has overtaken, `raced` that such a request removed an owner,
`muddled` the users about whom two requests overlapped or one died unrecorded.

### DeliveryStatus

The callbacks of one WhatsApp row. The channel takes up to `MaxSends` sends of
the row, each with a fate of its own, and may tell each status of each send any
number of times; `Received` are the sends that got there. `ReceiveCallback`, `RecordEvent`, `WriteStatus` are the three
statements of `applyDeliveryStatusUpdate`; a handler can die after either of the
first two. The sending side is that of `Outbound`, cut down to the statements
that touch `status` and `externalMessageId`. The channel is assumed honest: it
does not report a delivered message failed, and does not accept a call that it
answers with an error (`Outbound` drops the second assumption).

### AndroidGateway

One SMS between server and phone. `Handlers` are the server requests at work on
a report; a handler whose caller has timed out goes on (`AnswerLost`). The phone
is one coroutine, so `dpc` is its place in `flushPendingActions`,
`pollAndSendOnce`, `acknowledgeOrQueue` and `failOrQueue`; `entry` is what
`PendingActionStore` keeps for the message, the only part that survives
`PhoneCrash`. `ReportRateLimited` is the 429 that is neither retried nor stored.
`MaxTries` is `withBackoff(maxAttempts = 2)`; `copies` counts the SMSs the
contact got, up to 2. `AndroidGateway`, `DeviceInbox` and `Devices` are three
specifications of one phone; their names do not overlap, so that one proof module
can extend all three.

### DeviceInbox

The phone's queue of received SMSs. Processes are the broadcast receivers (one
per SIM: the telephony stack hands out one SMS of a SIM at a time) and the
flushes: `Loop` is the poll loop's, `Kicks` those that receivers start. An update
of the file is `BeginUpdate` (read), `Truncate`, `Write`, because `writeText`
truncates first and `readLocked` takes whatever does not parse for an empty
queue. `mutex` is the service's; a receiver's store has a mutex nobody else
holds, so it has no variable. A push is one step: the server's handler only adds
to `keys`. A revoked phone stops; `SaveNewCredentials` is its registration as a new
device, for which the server's keys start afresh while the file stays.
`disturbed` is history: two updates of the file overlapped, or the process died
inside `writeText`. `NumberTaken` are the SMSs of a new sender whose number another
contact has: the server answers each push of them 500 (`CreateContactRefused` of
`Contacts`), so they are only ever lost (`PushLost`) and stay in the queue.

`Relay` is the promise without a file, flushes or calls: the phone lets go of an SMS
only when the server shows it or may refuse it, and the server shows it once at most
for each registration, while the phone has it. `Promised` in `DeviceInbox` instantiates it
(`held <- Held`, `shown <- rows`, `registration <- device`, `upset <- disturbed`).
What the phone has (`Held`) is the file's content and the list that is about to be
written over it, so that truncating and writing is one step of the promise. The promise
is about identifiers, as the code's deduplication is. A refused identifier may be shown
after the phone has let go of it, when two SMSs share it; after an upset only the
bound on the rows is promised.

### MC modules

They give a run its functions (`MCContacts`, `MCChannelSetup`, `MCTeam`,
`MCDeviceInbox`) or its symmetry (`MCComposer`, `MCOutbound`; the instances treat
the permuted values alike). Two have a view. That of `MCOutbound` drops
`lastFailure`, which nothing in that run reads, and folds together values of
the history variables that no property can tell apart any more. That of
`MCComposer` drops the settings once the last row has taken its language from them
and keeps of a row's languages whether they are as they were shown.

## Runs

| Run | Properties | Bounds |
|---|---|---|
| `outbound_safety` | `ExclusiveOwner`, `NoDuplicateDelivery`, `RawTextOnlyFromRawDraft`, `RetryOvershootBounded`, `DeliversAsPromised` (refinement) | 2 agents, 1 worker pass, 1 attempt, crashes, Telegram |
| `outbound_liveness` | `FailedIsPickedUp`, `SendingResolves` | 1 agent, 1 worker, 1 attempt, no crash, WhatsApp |
| `inbound` | `AckedIsStored`, `WebhooksTranslateOnce`, `TermsOfItsLanguage`, `DeliveredIsFinal`, `PendingResolves` | 2 deliveries, 2 retries, 2 languages, 1 edit, crashes |
| `contacts` | `OneContactPerAddress`, `ConversationsAnswerable`, `SmsReachesWriter`, `MessageGetsThrough` | 3 messages from 2 addresses, 1 added contact, 3 deaths, edits or reassignments |
| `composer` | `SentAsReviewed`, `OneMessagePerText`, `TranslatedAsShown` | 2 rows, 2 languages, 1 change of a setting, any number of throws, retries and reloads |
| `delivery_status` | `ShownDeliveredIsTrue`, `DeliveredNotResent`, `DeliveredOnlyForward` | 2 handlers, 2 senders, 3 sends, crashes |
| `android_gateway` | `SentMeansSent`, `NoRepeatedSms`, `SentIsFinal`, `QueuedResolves`, no deadlock | 2 handlers, 1 attempt, 1 phone crash |
| `device_inbox` | `LostOnlyWhenDisturbed`, `OneRowPerRegistration`, `RelaysAsPromised` (refinement), `QueuedIsRelayed` | 2 SIMs, 2 broadcasts out of 4 SMSs (repeated, of the same identifier, refused, or of a number that is taken), 1 kicked flush, 2 registrations, 1 crash |
| `channel_setup` | `ActiveMeansRegistered`, `OneAccountPerOrg`, `ServedByBotOrApp`, no deadlock | 3 clicks for 2 bots of 2 organizations, 2 for 2 numbers of 2 apps, 2 at once, 2 updates, one to a number nobody connected |
| `devices` | `RevokedStaysDisabled`, `DisconnectedIsTrue`, `RevokedAppStops` | 2 numbers, limit 1, 3 revocations, entries or losses |
| `team` | `OwnerRemains`, `AuditChain`, `NeverGuesses`, `OnlyTheActiveAct` | 3 users, 1 browser, 2 requests, 1 death, 1 link at a time, 1 email another organization may register |
| `outbound_glossary` (violation) | `GlossaryApplied` | 1 row |

Why the bounds are enough to be worth something. Requests are interchangeable and
may start again when they have finished, so two agents and a worker make every
pair of flows overlap, and a third flow overlap with both; one attempt reaches
scheduling, overshoot and DEAD_LETTER. Two sends are what it takes for a callback
to be about the wrong one, a third one for an old callback to be about neither of the
last two; two handlers are a late one and a current one. Two
messages of one address race for its contact, a third from an address whose
number a contact added by hand may have already; three upsets are a death, an edit and a
reassignment in one behaviour. Two rows of the compose page are a text and its
repetition. Three clicks for bots are two of one organization and one of another for the
same bot, the two ways to overlap; two overlap at one time, the third before or after.
The clicks for numbers move an account from one app to another while the first app still
posts to its URL, also for a third number. Four SMSs are one of each kind, of which a
behaviour has any two. A limit of one makes every second call of a
window a refusal; two numbers are a device and its replacement. Two requests in
flight can remove the last two owners. One browser is enough for its user to be
deactivated, signed out or followed by another between two requests, while the
requests of the one before are still under way. An adapter's errors differ between channels
in what may follow a message that was taken; Telegram's are those with every outcome
(refused, broken, lost), and the theorems hold for each channel. For the modules under "What is proved" the
proofs remove the bounds.

Deadlock is not checked where the system may rest (a message sent and no request
under way, everything told by the channel, a revoked phone, an organization
without an active user); each cfg says which. `android_gateway`, whose poll loop never
rests, checks it, and so does `channel_setup`, where `AllEnded` names the one way to rest.

Each property of a passing run has a mutant: a definition of the model changed
the way a slip in the code would change it (the `_Suffix` operator before the
definition), under which TLC finds the property violated.

### Fairness

* `Outbound`: weak fairness of every step of a request that has begun (awaits
  end: the provider's client has a timeout, fetch fails in the end), of the
  worker's pass (cron) and of the clock. Users owe nothing. Instances do not
  die in this run: a row whose owner dies stays SENDING, because the worker looks
  at FAILED rows only, the retry button at FAILED and DEAD_LETTER, and confirm at
  PENDING.
* `Inbound`: weak fairness of begun requests. `PendingResolves` is conditional
  on no crash for the same reason.
* `Contacts`: weak fairness of a request's steps, which includes that a channel
  that was not answered 200 delivers again; deaths are bounded.
* `AndroidGateway`: weak fairness of the phone and of the handlers, and strong
  fairness of the calls and answers that matter: a network that fails every
  time proves nothing about the code, one that keeps coming back does. The
  phone's fairness includes the radio: `SmsSendManager.send` has no timeout of
  its own, so that every segment's broadcast arrives is an assumption about the
  platform. Process death is bounded by `MaxCrashes`.
* `DeviceInbox`: weak fairness of begun receivers and of the flushes (the poll loop
  never ends), strong fairness of an answered push of the loop, for the reason
  just given. A push of a number that is taken has no answer but a 500: `QueuedIsRelayed`
  asks nothing of it, and shows that it keeps no other SMS from the server. Neither
  dashboard nor operator owes anything.
* `Devices`: weak fairness of the loops' authentication, handler and answers and of the end of
  the silence after a 429; strong fairness of the loops' calls, which a silence or
  a call under way keeps disabling for a while. Losses are bounded. Nobody is
  obliged to press a button.

## What came out

One run shows a documented behaviour the code does not have: `outbound_glossary`.
`glossary-section.tsx:79` says that terms are merged into every translation call
for their languages; `sendMessage` passes no source language, and the engine looks
terms up for a known source only, so an agent's answers are translated without
them.

The properties are conditional wherever the code is: each "unless" below is
a history variable or a conjunct that TLC shows to be needed.

*Outbound and compose page.* Every failed translation is classified transient
(`UntranslatedIsTransient`): the provider wraps what its client throws without the
status and the message that `failureClassifier.ts` looks for, so the permanent
kinds it knows (an unsupported language, a refused key) are retried up to the cap.
Every error after the channel took a message is transient too
(`TakenThenTransient`), so such a message is sent again by itself. A draft answered before its translation was stored
can be confirmed, and the raw text goes out (the comment at
`outboundService.ts:414` excludes it). A permanent failure has no `retry_scheduled` event and therefore counts
as due: the worker retries it, up to the cap, where the comment at
`outboundService.ts:345` says that permanent failures stay FAILED and are not retried
automatically; `FailedIsPickedUp` therefore asks for transient failures only. A worker pass retries a row that another
request moved to DEAD_LETTER after the pass listed it. An instance that dies
between claim and result leaves the row SENDING; one without an identity leaves it PENDING. The compose
field sends no idempotency key: after a lost answer the agent's second try is a second
message. Status and answer are separate awaits: when the insert of the event or the
scheduling throws after SENT or FAILED was stored (`outboundService.ts:295`, `:356-359`),
the page shows an error over a message that was sent, and the agent sends the text
again; or over one that the worker will send, in the wording stored then, whatever the
agent confirms afterwards is refused. The box of a draft is compared with the text first told
(`composer.tsx:110`), so an edit stored by a confirmation that then failed stays
although the old wording was restored; a text that was to be reviewed and whose
translation failed is retried and sent without review. The page's language can
differ from the one `sendMessage` resolves if a setting changed since it was
rendered (`composer.tsx:4-8` says it never can).

*Inbound.* A slower overlapping retry reopens a DELIVERED row. The override of a
conversation decides the language in both directions (`OverrideBothWays`), a
retry uses the language stored with the row.

*Lists.* The inbox and the contact list drop the language filter as soon as a search is
typed: both conditions are spread under the key `OR` (`conversationRepository.ts:183-213`,
`contactRepository.ts:72-84`) and the second one replaces the first.

*Delivery status.* The transition is checked against a status read before the event was
inserted, so two callbacks handled at once can be applied in the wrong order; a
callback that overtakes the write of `externalMessageId` is forgotten; one that
died after its event is taken for a repetition.

*Contacts.* The number an SMS goes to is the contact's at poll time, not the one
that wrote. A phone number that another contact has makes a new sender's first message
fail with a 500 for ever, and the phone keeps such an SMS in its queue and pushes it
again at every poll. After a reassignment the old conversation has nobody to
answer to, and a contact with two identities of one account is answered at either.

*Android.* A message whose ACKNOWLEDGE is stored is still QUEUED, is sent again,
and a failure replaces the ACKNOWLEDGE. The receiver's and the service's
queue stores have a mutex each on one file: an SMS can be lost. A
429 on an acknowledgement is not stored. A late 401 of the old token marks newly
entered credentials revoked. A registration that dies, and a revoked device, keep
their number for ever (it is unique).

*Channel setup.* Overlapping clicks can leave Telegram and the row with different
secrets, or an organization with two accounts, of which the next click takes any. A
failed re-registration takes an ACTIVE bot back to PENDING_SETUP. A mistyped WhatsApp app secret is
found out by nobody: every update is refused. The app secret belongs to the Meta app, not
to the number, and the route takes its URL to tell the account of every block
(`webhook/[channelAccountId]/route.ts:144`), where `parse.ts:11-16` says that
`phone_number_id` identifies it: what customers write to another number of the app is
stored under this account.

*People.* Two removals that overlap can leave no owner; the role that is taken
away is not compared with the administrator's own; the audit record can miss or tell a role
that another request wrote in between (`AuditChain` holds of users whose requests
neither overlapped nor died); a deactivated user can be assigned, and the seed itself
assigns a conversation to a user and to a team (`seed.ts:303`), which the panel never
does. Once a second organization registers an email, neither password nor link lets its
user in, in either organization. A link lets in a user who was deactivated after it
was asked for; the next request ends that session, which the comment at
`credentialsAuth.ts:84` does not know yet (it says a token is not checked again).

## What is proved

Every theorem below is checked by TLAPS for every value of the constants (any
number of requests, users, addresses, clicks, languages, sends, attempts). The assumptions are
the named `ASSUME`s of the modules, which say that identifier sets are finite and
disjoint, that functions have the right domain, that bounds are numbers, and in `Team`
that the organization starts with an owner; TLC evaluates them on the instances. Each
inductive invariant was checked by TLC on the instance of its run before it was proved.

Every invariant and every action property of a passing run is the statement of a
theorem. By module:

* **`OutboundProofs`.** `TypeCorrect`: Booleans and data are separate lemmas
  (`FlagsStep`, `DataStep`), because the provers good at one are not at the other.
  `OwnershipIsExclusive` and `DeliveredAtMostOnce` are not inductive; `DispatchInv`
  adds `AcceptedOnce`: while nothing was overwritten and no accepted call
  reported as failed, a row whose message the channel has taken is either SENDING
  under an owner that knows it, or has the status the adapter answered; no claim
  accepts that status. `RawTextNeedsRawDraft`: `RawInv` follows the text through the
  copies. `RetryOvershoot`: `RetryInv` counts the requests that have decided to
  insert and not yet done so; `retries` plus that number stays within
  `MaxAttempts + Cardinality(Requests) - 1`. `DeadLetterNeedsCap`,
  `LifecycleFollowed`, `TakenStays`: action properties, by a case for each
  statement that writes the status. `OutboundImplementsDelivery`: under
  `RefinementInv` (the invariants above and `TakenKnown`, that whoever waits for an
  accepted call's answer has it counted) every step of `Outbound` is a step of
  `Delivery` or leaves its variables unchanged; the steps after a disturbance are
  `Disturb`. `TakenThenTransient` and `UntranslatedIsTransient` are about the
  operators of `ChannelAdapters`, for every channel.
* **`InboundProofs`.** `TypeCorrect`; `NothingAckedIsLost`;
  `TranslatedByOneDelivery` and `DeliveredStays` from `WorkInv`: nobody works on a
  row that is not stored, a delivery sets about it only as it stores it, and until two requests have met, one works at most and
  nobody on a DELIVERED row. `RightTerms` from `TermsInv`: a copy as old as the last
  edit knows the terms of its language, at every label.
* **`ContactsProofs`.** `TypeCorrect`, `OneContact`, `Answerable`, `SmsToWriter`
  from one invariant: a request holds its sender's contact unless a manager moved
  it (`Resolved`), a contact has the number of each of its addresses unless
  somebody changed it (`NumbersKept`), and `Cardinality(auto)` is at most the
  number of identified addresses, which also bounds the table.
* **`ComposerProofs`.** `OnlyWhatWasReviewed`, `NoTextTwice` and `LanguageAsShown`
  from one invariant in four parts, which together say what page, request and row
  know of each other at each step: `PageInv` (a draft is the row of the text being
  written, PENDING unless an error was answered over it; a request that has claimed its
  row has left PENDING), `ReviewInv` (at every step the row's content is a wording that was
  confirmed or told, and the box's unless an edit was stored whose confirmation failed or
  an error was answered over it), `OnceInv` (a text with a row that has left PENDING is
  behind the page, in the request under way, or worth writing again), `ToldInv` (a page as old as the settings names their language). Sequences
  only grow, so rows keep their numbers (`SequenceTheorems`). The module also has the theorems about
  `Languages`: without a search the inbox filter finds exactly the conversations whose
  contact is written to in a language, up to those that have only the organization's
  default, and with a search what the search matches (`FilterFindsLanguage`); without
  either search or override the two filters agree, and with a search both find the same
  for every language (`FiltersAgree`); `OverrideBothWays`; `ReaderIgnoresContact`.
* **`DeliveryStatusProofs`.** None of the three properties is inductive: a callback about
  an earlier send is refused only because of what the row went through since. The
  argument is the *spent* send: it has failed, its FAILED callback is recorded and
  nobody is about to write it. A row is open to another send only when all its
  sends are spent (`SpentInv`), and spent stays spent: its event is in the table, so
  no callback about its failure is applied again, and `CallbackAppliedOnce` keeps
  two handlers from being at the same one. A send that the contact received never fails, so it is never spent:
  `DeliveredIsDelivered` (about the send the row names) and `ReceivedOnce` (of all the
  sends one at most is received) follow. `DeliveredIsFinal` needs `ApartInv`: until two callbacks
  were handled at once, the status a handler has read is the row's.
* **`PhoneProofs`.** *Devices:* `RevocationIsFinal`; `DisconnectedTruly` from
  `RefusedInv`: a 401 on its way is about a token that is refused for good
  (`RefusedForGood`: no step makes an inauthentic token good again once its
  registration is answered). *AndroidGateway:* `SentLeftThePhone` from `SmsInv`: wherever an
  acknowledgement is (row, report, stored entry, handler), an SMS has left the phone before
  it. `OneSms` and `SentStays` from `OrderlyInv`: as long as every outcome was reported
  and every report answered, the handler the phone waits for is the only one at
  work, and what it is doing fits the phone's place and the row's status.
  *DeviceInbox:* `NoSmsLost` from `FileInv`: while undisturbed, one process updates the file
  at a time, and what was queued is in the file or in what that process is about to
  write, unless the server has it or never takes it; a flush removes only what is settled.
  `OneRowEach`: only a push that the server stores moves rows or keys (`RowsMove`), and it
  adds the row and the registration's key for its identifier together or neither. `InboxImplementsRelay` needs more: until an upset, an update writes
  back what the file still holds, and a flush's snapshot is out of date only in what
  this registration was answered (`SnapshotInv`), which outlasts the flush because new
  credentials wait for the flushes to end; a flush removes only what was answered, and
  what has a key has a row (`HandedInv`). `GatewayTypeCorrect`, `InboxTypeCorrect` and
  `DevicesTypeCorrect` are the type invariants; that of `Devices` includes that
  no number is registered twice.
* **`ChannelSetupProofs`.** `ServedWhereWritten` from `SetupInv`: what a channel signs
  with is a secret only the accounts of that bot, or of numbers of that app, can hold, so
  admission identifies the bot or the app, and no more than that. `SecondAccount` and `ActiveIsRegistered` from `ClickInv`: clicks that
  run at once about one bot or one organization are all in `disturbed`
  (`OverlapInv`), a click writes rows of its organization (`OwnRows`), a row beside
  another is created under the eyes of a disturbed click (`SecondRow`), and what an
  undisturbed click has stored and registered is still there (`StoredInv`).
* **`TeamProofs`.** `AnOwnerRemains` from `TeamInv`, whose core is `CheckedInv`: a request
  past its count that no write has overtaken leaves another owner. `AuditTellsHistory` from
  `HistoryInv`: of a user outside `muddled`, one request is at work at most; the
  last record ends with the role the user has, but while that request has written
  and not yet recorded, and then with the role it read. `SignInNeverGuesses` and
  `TheDeactivatedAreOut` are properties of single steps; the latter says of each browser
  that calls that its own session is a user's who is active.

Only model-checked, because the prover has neither fairness nor ENABLED:
`FailedIsPickedUp`, `SendingResolves` (`Outbound`), `PendingResolves` (`Inbound`),
`MessageGetsThrough` (`Contacts`), `QueuedResolves` (`AndroidGateway`),
`QueuedIsRelayed` (`DeviceInbox`), `RevokedAppStops` (`Devices`), and the violation
`GlossaryApplied`. Freedom from deadlock is checked only, too. The type invariants of `Outbound`, `Inbound`,
`Contacts`, `Composer`, `DeliveryStatus`, `AndroidGateway`, `DeviceInbox` and `Devices` are
theorems and need no run; those of `Team` and `ChannelSetup` document the variables, and
the proofs use the parts they need (`PeopleOK`, `JobsOK`, `RowsOK`).

## Plan

1. The phone's side of an outgoing SMS as an implementation of one attempt of
   `Delivery`, as `DeviceInbox` is one of `Relay`.
2. The remaining type invariants as theorems (`Team`, `ChannelSetup`), and
   the safety half of the liveness properties: what a request that has begun can
   only lead to.
3. Several organizations in `Team`, so that an email shared by two of them is seen from
   both sides.

## Not modelled

* Several rows at once: a worker pass is sequential over its candidates, a flush
  over its entries, and only their relative order is lost.
* The length of a window of the rate limiter. It is a fixed window, so up to twice the
  limit minus one further requests can fall around a boundary; `Devices` has the counter,
  the refusal and the reset, not the clock.
* Conversation status, high-risk flag, archived contacts, `unreadCount` and
  `lastMessageAt`: single writes that nothing modelled reads. Internal notes: a
  single insert of a finished row.
* Hashing, encryption, environment, logging: stateless or configuration. Of the seed,
  only the people, the team and a second run are in the model. Contents and wording of messages and prompts; requests and
  formatting of the adapters, which appear by their outcomes.
* Database errors other than unique violations and lost connections.
* Organizations as such: every module but `ChannelSetup` follows one, and every
  query names it. `SignIn` sees another one only in that it registers an email.

## Running

    tlc -workers 2 -config MCOutbound.cfg MCOutbound
    tlc -workers 2 -config MCContacts.cfg MCContacts
    tlapm ChannelSetupProofs.tla

Each run names its module and cfg in `PROJECT.json`; the longest takes about three
minutes, the proofs of a module less.
