---------------------------- MODULE ChannelSetup ----------------------------
(***************************************************************************)
(* Connecting a Telegram bot or a WhatsApp number to an organization       *)
(* (actions/telegram.ts, actions/whatsapp.ts) and the webhook routes that  *)
(* let its updates in.  A registration is a chain of awaits - validate,    *)
(* read the account, store new credentials, tell Telegram, mark ACTIVE -   *)
(* without a transaction or a predicate, so registrations may overlap, die *)
(* half way and leave the row and the channel disagreeing.                 *)
(***************************************************************************)
EXTENDS Naturals, Sequences, FiniteSets

CONSTANTS
  Requests,   \* the "Connect" clicks
  OrgOf,      \* the organization of a click's administrator
  Numbers,    \* WhatsApp phone numbers
  AppOf,      \* the Meta app of a number: it has one webhook and one app secret
  Bots,       \* Telegram bots
  AccountOf,  \* the bot or number whose credentials a click submits
  Updates,    \* what customers write
  SentTo,     \* the bot or number they write to
  MaxAtOnce,  \* bound: clicks whose requests are under way at one time
  None        \* no webhook, no row, nothing answered yet

Apps == {AppOf[n] : n \in Numbers}

\* OrgOf and AppOf are functions; the secrets of clicks and of apps differ.
ASSUME SetupAssumption ==
  /\ IsFiniteSet(Requests) /\ IsFiniteSet(Updates) /\ MaxAtOnce \in Nat
  /\ DOMAIN OrgOf = Requests /\ DOMAIN AppOf = Numbers
  /\ Bots \cap (Numbers \cup Apps) = {}
  /\ AccountOf \in [Requests -> Numbers \cup Bots]
  /\ SentTo \in [Updates -> Numbers \cup Bots]
  /\ Requests \cap (Apps \cup {"mistyped"}) = {} /\ "mistyped" \notin Apps

VARIABLES
  accounts,   \* the ChannelAccount rows, in the order of their creation
  hook,       \* where a bot's or an app's updates are posted and how they are signed
  pc,         \* where a click's request is suspended
  row,        \* the account it found, 0 if none, and then the one it wrote
  copy,       \* the account row an update's request works with
  answered,   \* the bot or number an update was handled with
  disturbed   \* history: clicks that overlapped another of their org or bot

clicks  == <<pc, row, disturbed>>
updates == <<copy, answered>>
vars    == <<accounts, hook, clicks, updates>>

Externals == Numbers \cup Bots
Mistyped  == "mistyped"
Secrets   == Requests \cup Apps \cup {Mistyped}
Posters   == Bots \cup Apps

\* Who posts the updates of a bot or number, and signs them: Telegram does it bot by bot,
\* Meta app by app, for all the numbers of the app.
Poster(b) == IF b \in Bots THEN b ELSE AppOf[b]

Rows      == [org : {OrgOf[r] : r \in Requests}, bot : Externals,
              secret : Secrets, by : Requests, status : {"PENDING_SETUP", "ACTIVE"}]
Ids       == 1..Len(accounts)
Labels    == {"idle", "validated", "found", "stored", "registered", "activated",
              "done", "failed"}

SameChannel(b, c) == (b \in Bots) = (c \in Bots)

\* Rows, requests and copies are well-formed, and no bot or number has two accounts:
\* @@unique([channelType, externalAccountId]).
TypeOK ==
  /\ accounts \in Seq(Rows)
  /\ \A i, j \in Ids : accounts[i].bot = accounts[j].bot => i = j
  /\ hook \in [Posters -> {None} \cup [account : Ids, secret : Secrets]]
  /\ pc \in [Requests -> Labels]
  /\ row \in [Requests -> {0} \cup Ids]
  /\ copy \in [Updates -> {None} \cup Rows]
  /\ answered \in [Updates -> {None} \cup Externals]
  /\ disturbed \subseteq Requests

Init ==
  /\ accounts = <<>>
  /\ hook = [p \in Posters |-> None]
  /\ pc = [r \in Requests |-> "idle"]
  /\ row = [r \in Requests |-> 0]
  /\ copy = [u \in Updates |-> None] /\ answered = [u \in Updates |-> None]
  /\ disturbed = {}

Goto(r, label) == pc' = [pc EXCEPT ![r] = label]
\* A request that fails leaves nothing of its own behind.
Fails(r)       == Goto(r, "failed") /\ row' = [row EXCEPT ![r] = 0]
Running        == {r \in Requests : pc[r] \notin {"idle", "done", "failed"}}
Overlaps(r)    == {q \in Running \ {r} : \/ AccountOf[q] = AccountOf[r]
                                         \/ /\ OrgOf[q] = OrgOf[r]
                                            /\ SameChannel(AccountOf[q], AccountOf[r])}

-----------------------------------------------------------------------------
(* registerTelegramWebhook and connectWhatsAppAccount                         *)

\* getMe, or the phone number's own info: the credentials are validated first.
\* Nothing asks WhatsApp about the app secret, which may be mistyped.
ValidateCredentials(r) ==
  /\ pc[r] = "idle" /\ Cardinality(Running) < MaxAtOnce
  /\ \E valid \in BOOLEAN : Goto(r, IF valid THEN "validated" ELSE "failed")
  /\ disturbed' = disturbed \cup
       IF pc'[r] = "failed" \/ Overlaps(r) = {} THEN {} ELSE Overlaps(r) \cup {r}
  /\ UNCHANGED <<accounts, hook, row, updates>>

\* Mutant: the account found is taken to be still missing.
FindOrgAccount_None(r) ==
  /\ pc[r] = "validated"
  /\ Goto(r, "found")
  /\ UNCHANGED <<accounts, hook, row, disturbed, updates>>

\* listByChannelType has no order: accounts[0] is any account of the organization.
FindOrgAccount(r) ==
  /\ pc[r] = "validated"
  /\ LET mine == {i \in Ids : /\ accounts[i].org = OrgOf[r]
                              /\ SameChannel(accounts[i].bot, AccountOf[r])}
     IN \E i \in IF mine = {} THEN {0} ELSE mine : row' = [row EXCEPT ![r] = i]
  /\ Goto(r, "found")
  /\ UNCHANGED <<accounts, hook, disturbed, updates>>

\* Mutant: the secret that is stored already is kept.
SecretsOf_Kept(r) ==
  IF row[r] # 0 THEN {accounts[row[r]].secret}
                ELSE IF AccountOf[r] \in Bots THEN {r} ELSE {AppOf[AccountOf[r]], Mistyped}

\* A click draws a new webhook secret for Telegram; the app secret is what was typed.
SecretsOf(r) == IF AccountOf[r] \in Bots THEN {r} ELSE {AppOf[AccountOf[r]], Mistyped}

\* Telegram's account waits for setWebhook, WhatsApp's is ACTIVE at once.
NewRow(r, secret) ==
  [org |-> OrgOf[r], bot |-> AccountOf[r], secret |-> secret, by |-> r,
   status |-> IF AccountOf[r] \in Bots THEN "PENDING_SETUP" ELSE "ACTIVE"]

\* P2002: the bot belongs to another account, whose row it stays.
AlreadyConnected(r) == \E i \in Ids \ {row[r]} : accounts[i].bot = AccountOf[r]

StoreCredentials(r, secret) ==
  /\ pc[r] = "found" /\ ~AlreadyConnected(r)
  /\ IF row[r] # 0
     THEN accounts' = [accounts EXCEPT ![row[r]] = NewRow(r, secret)] /\ UNCHANGED row
     ELSE /\ accounts' = Append(accounts, NewRow(r, secret))
          /\ row' = [row EXCEPT ![r] = Len(accounts) + 1]
  /\ Goto(r, IF AccountOf[r] \in Bots THEN "stored" ELSE "activated")
  /\ UNCHANGED <<hook, disturbed, updates>>

CredentialsRefused(r) ==
  /\ pc[r] = "found" /\ AlreadyConnected(r)
  /\ Fails(r)
  /\ UNCHANGED <<accounts, hook, disturbed, updates>>

\* Telegram takes the URL of the account and this click's secret; the answer arrives
\* or is lost, and the click then fails.
SetWebhook(r) ==
  /\ pc[r] = "stored"
  /\ hook' = [hook EXCEPT ![AccountOf[r]] = [account |-> row[r], secret |-> r]]
  /\ Fails(r) \/ (Goto(r, "registered") /\ UNCHANGED row)
  /\ UNCHANGED <<accounts, disturbed, updates>>

\* Mutant: the answer of setWebhook is not looked at.
SetWebhookRefused_Ignored(r) ==
  /\ pc[r] = "stored"
  /\ Goto(r, "registered")
  /\ UNCHANGED <<accounts, hook, row, disturbed, updates>>

\* Telegram refuses: the row keeps the new credentials and waits at PENDING_SETUP.
SetWebhookRefused(r) ==
  /\ pc[r] = "stored"
  /\ Fails(r)
  /\ UNCHANGED <<accounts, hook, disturbed, updates>>

\* updateStatus has no predicate: the row becomes ACTIVE whatever is stored in it now.
Activate(r) ==
  /\ pc[r] = "registered"
  /\ accounts' = [accounts EXCEPT ![row[r]].status = "ACTIVE"]
  /\ Goto(r, "activated")
  /\ UNCHANGED <<hook, row, disturbed, updates>>

\* The audit record is the last await.
RecordAudit(r) ==
  /\ pc[r] = "activated"
  /\ Goto(r, "done")
  /\ UNCHANGED <<accounts, hook, row, disturbed, updates>>

\* The server instance dies, or the database does not answer.
RequestDies(r) ==
  /\ r \in Running
  /\ Fails(r)
  /\ UNCHANGED <<accounts, hook, disturbed, updates>>

-----------------------------------------------------------------------------
(* the webhook routes                                                         *)

\* The operator enters the URL at Meta, whose GET is answered if the account is ACTIVE
\* and holds the verify token of the form; the app's numbers then post there, all of
\* them, signed with the app's secret.  A later number of the app takes the URL away.
VerifyHandshake(r) ==
  /\ pc[r] = "done" /\ AccountOf[r] \in Numbers
  /\ accounts[row[r]].status = "ACTIVE" /\ accounts[row[r]].by = r
  /\ LET app == AppOf[AccountOf[r]]
     IN hook' = [hook EXCEPT ![app] = [account |-> row[r], secret |-> app]]
  /\ UNCHANGED <<accounts, clicks, updates>>

\* 404 unless the account of the URL is ACTIVE, 401 unless the update is signed with
\* the secret stored now: the channel keeps it and tries again.  The number that an
\* update of WhatsApp names is not compared with the account's.
Admits(account, signature) == account.status = "ACTIVE" /\ account.secret = signature

ReceiveUpdate(u) ==
  /\ copy[u] = None /\ answered[u] = None /\ hook[Poster(SentTo[u])] # None
  /\ LET h == hook[Poster(SentTo[u])]
     IN  /\ Admits(accounts[h.account], h.secret)
         /\ copy' = [copy EXCEPT ![u] = accounts[h.account]]
  /\ UNCHANGED <<accounts, hook, clicks, answered>>

\* The message is stored, or the command answered, with the row read before.
HandleUpdate(u) ==
  /\ copy[u] # None
  /\ answered' = [answered EXCEPT ![u] = copy[u].bot]
  /\ copy' = [copy EXCEPT ![u] = None]
  /\ UNCHANGED <<accounts, hook, clicks>>

\* 500: Telegram and Meta deliver again.
HandlerThrows(u) ==
  /\ copy[u] # None
  /\ copy' = [copy EXCEPT ![u] = None]
  /\ UNCHANGED <<accounts, hook, clicks, answered>>

\* Every click has ended; updates may wait for ever at a bot nobody registers again.
AllEnded ==
  /\ Running = {} /\ \A r \in Requests : pc[r] # "idle"
  /\ UNCHANGED vars

Next ==
  \/ \E r \in Requests :
       \/ ValidateCredentials(r) \/ FindOrgAccount(r)
       \/ \E secret \in SecretsOf(r) : StoreCredentials(r, secret)
       \/ CredentialsRefused(r) \/ SetWebhook(r) \/ SetWebhookRefused(r)
       \/ Activate(r) \/ RecordAudit(r) \/ RequestDies(r) \/ VerifyHandshake(r)
  \/ \E u \in Updates : ReceiveUpdate(u) \/ HandleUpdate(u) \/ HandlerThrows(u)
  \/ AllEnded

Spec == Init /\ [][Next]_vars

-----------------------------------------------------------------------------

\* An ACTIVE bot whose credentials a click stored alone is the bot Telegram posts for:
\* the row, the webhook URL and the secret agree, however earlier clicks ended.
\* Overlapping clicks break it and only a later click that runs alone repairs it.
ActiveMeansRegistered ==
  \A i \in Ids :
    LET a == accounts[i]
    IN  a.bot \in Bots /\ a.status = "ACTIVE" /\ a.by \notin disturbed
          => hook[a.bot] = [account |-> i, secret |-> a.secret]

\* An organization gets a second account of a channel only if two of its clicks
\* overlapped: the read that decides between update and create is not locked.
OneAccountPerOrg ==
  \A i, j \in Ids :
    i # j /\ accounts[i].org = accounts[j].org /\ SameChannel(accounts[i].bot, accounts[j].bot)
      => \E q, r \in disturbed : q # r /\ OrgOf[q] = accounts[i].org /\ OrgOf[r] = accounts[i].org

\* A customer of a bot is served as a customer of that bot: an update that comes in over
\* a URL whose account has moved on to another bot is refused, even while clicks overlap.
\* A customer of a number is served as one of a number of the same Meta app, and not
\* necessarily of the number written to: the route takes its URL to tell the account of
\* every block (route.ts:145-149) where parse.ts:11-16 would look at phone_number_id.
ServedByBotOrApp ==
  \A u \in Updates : answered[u] # None => Poster(answered[u]) = Poster(SentTo[u])
=============================================================================
