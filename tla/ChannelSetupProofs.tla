------------------------- MODULE ChannelSetupProofs -------------------------
(***************************************************************************)
(* What holds of ChannelSetup for any number of organizations, bots,       *)
(* numbers, clicks and updates.                                            *)
(***************************************************************************)
EXTENDS ChannelSetup, SequenceTheorems, TLAPS

USE DEF clicks, updates

\* A row holds the credentials that one click submitted and that click's secret.
RowOK(a) ==
  /\ a \in Rows /\ AccountOf[a.by] = a.bot
  /\ a.bot \in Bots => a.secret = a.by
  /\ a.bot \in Numbers => a.secret \in {AppOf[a.bot], Mistyped}

RowsOK == accounts \in Seq(Rows) /\ \A i \in Ids : RowOK(accounts[i])

ClicksOK ==
  /\ pc \in [Requests -> Labels]
  /\ row \in [Requests -> {0} \cup Ids]
  /\ \A r \in Requests :
       pc[r] \in {"stored", "registered", "activated", "done"} => row[r] \in Ids
  /\ \A r \in Requests : pc[r] \in {"stored", "registered"} => AccountOf[r] \in Bots

\* A channel posts to an account, signed with a secret only it and that click know, or
\* with the secret of the app.
HookOK(p, h) ==
  /\ h.account \in Ids
  /\ p \in Bots => h.secret \in Requests /\ AccountOf[h.secret] = p
  /\ p \in Apps => h.secret = p

HooksOK == DOMAIN hook = Posters /\ \A p \in Posters : hook[p] # None => HookOK(p, hook[p])

CopiesOK ==
  /\ DOMAIN copy = Updates /\ DOMAIN answered = Updates
  /\ \A u \in Updates : copy[u] # None => Poster(copy[u].bot) = Poster(SentTo[u])

SetupInv == RowsOK /\ ClicksOK /\ HooksOK /\ CopiesOK

-----------------------------------------------------------------------------
\* What Telegram or Meta signed is admitted by an account of the bot or app only.
LEMMA AdmittedBelongs ==
  ASSUME NEW p \in Posters, NEW a, RowOK(a), NEW h, HookOK(p, h), Admits(a, h.secret)
  PROVE  Poster(a.bot) = p
<1>1. a \in Rows /\ (a.bot \in Bots \/ a.bot \in Numbers) /\ a.secret = h.secret
  BY DEF RowOK, Rows, Externals, Admits
<1>2. CASE a.bot \in Bots
  <2>1. a.secret \in Requests /\ AccountOf[a.secret] = a.bot
    BY <1>1, <1>2 DEF RowOK, Rows
  <2>2. p \notin Apps
    BY <1>1, <2>1, SetupAssumption DEF HookOK
  <2> QED BY <1>1, <1>2, <2>1, <2>2 DEF HookOK, Posters, Poster
<1>3. CASE a.bot \in Numbers
  <2>1. AppOf[a.bot] \in Apps /\ a.bot \notin Bots /\ a.secret \in {AppOf[a.bot], Mistyped}
    BY <1>3, SetupAssumption DEF RowOK, Apps
  <2>2. a.secret \notin Requests
    BY <2>1, SetupAssumption DEF Mistyped
  <2>3. p \in Apps /\ a.secret = p
    BY <1>1, <2>2 DEF HookOK, Posters
  <2>4. p = AppOf[a.bot]
    BY <2>1, <2>3, SetupAssumption DEF Mistyped
  <2> QED BY <2>1, <2>4 DEF Poster
<1> QED BY <1>1, <1>2, <1>3

LEMMA NewRowOK ==
  ASSUME NEW r \in Requests, NEW secret \in SecretsOf(r) PROVE RowOK(NewRow(r, secret))
BY SetupAssumption DEF RowOK, NewRow, SecretsOf, Rows, Secrets, Externals, Apps

\* A row is written or appended.
LEMMA RowsStep ==
  ASSUME RowsOK, NEW e, RowOK(e),
         \/ \E i \in Ids : accounts' = [accounts EXCEPT ![i] = e]
         \/ accounts' = Append(accounts, e)
  PROVE  RowsOK' /\ Ids \subseteq Ids' /\ (Len(accounts') > Len(accounts) => Len(accounts) + 1 \in Ids')
<1>0. e \in Rows /\ accounts \in Seq(Rows) /\ Ids = 1..Len(accounts) /\ Len(accounts) \in Nat
  BY DEF RowOK, RowsOK, Ids
<1>1. ASSUME NEW i \in Ids, accounts' = [accounts EXCEPT ![i] = e]
      PROVE  RowsOK' /\ Ids' = Ids
  <2>1. accounts' \in Seq(Rows) /\ Len(accounts') = Len(accounts)
    BY <1>0, <1>1, ExceptSeq
  <2>2. \A j \in Ids : accounts'[j] = IF j = i THEN e ELSE accounts[j]
    BY <1>1 DEF RowsOK, Ids
  <2>3. Ids' = Ids
    BY <2>1 DEF Ids
  <2> QED BY <2>1, <2>2, <2>3 DEF RowsOK, RowOK
<1>2. CASE accounts' = Append(accounts, e)
  <2>1. accounts' \in Seq(Rows) /\ Len(accounts') = Len(accounts) + 1
    BY <1>0, <1>2
  <2>2. Ids' = Ids \cup {Len(accounts) + 1}
    BY <1>0, <2>1 DEF Ids
  <2>3. /\ \A j \in Ids : accounts'[j] = accounts[j]
        /\ accounts'[Len(accounts) + 1] = e
    BY <1>0, <1>2
  <2> QED BY <2>1, <2>2, <2>3 DEF RowsOK, RowOK
<1> QED BY <1>1, <1>2 DEF Ids

LEMMA SetupStep == SetupInv /\ [Next]_vars => SetupInv'
<1> SUFFICES ASSUME SetupInv, [Next]_vars PROVE SetupInv'
  OBVIOUS
<1> USE DEF SetupInv
<1>a. ASSUME UNCHANGED accounts PROVE RowsOK' /\ Ids' = Ids
  BY <1>a DEF RowsOK, RowOK, Ids
<1>b. ASSUME Ids \subseteq Ids', UNCHANGED hook PROVE HooksOK'
  BY <1>b DEF HooksOK, HookOK
<1>c. ASSUME UNCHANGED <<copy, answered>> PROVE CopiesOK'
  BY <1>c DEF CopiesOK
<1>d. ASSUME Ids \subseteq Ids', UNCHANGED <<pc, row>> PROVE ClicksOK'
  BY <1>d DEF ClicksOK
\* A click that goes on without writing a row.
<1>e. ASSUME NEW r \in Requests, NEW label \in Labels, Goto(r, label),
             \/ UNCHANGED row
             \/ label \in {"found", "failed"} /\ \E i \in {0} \cup Ids : row' = [row EXCEPT ![r] = i],
             label \in {"registered", "activated", "done"} => pc[r] \in {"stored", "registered", "activated"},
             label = "registered" => pc[r] = "stored", label # "stored", Ids' = Ids
      PROVE  ClicksOK'
  BY <1>e DEF ClicksOK, Goto
<1>1. ASSUME NEW r \in Requests,
             \/ ValidateCredentials(r) \/ FindOrgAccount(r) \/ CredentialsRefused(r)
             \/ SetWebhookRefused(r) \/ RecordAudit(r) \/ RequestDies(r)
      PROVE  SetupInv'
  <2>1. UNCHANGED <<accounts, hook, copy, answered>>
    BY <1>1 DEF ValidateCredentials, FindOrgAccount, CredentialsRefused, SetWebhookRefused,
                RecordAudit, RequestDies
  <2>2. RowsOK' /\ Ids' = Ids /\ HooksOK' /\ CopiesOK'
    BY <2>1, <1>a, <1>b, <1>c
  <2>3. CASE FindOrgAccount(r)
    <3>1. Goto(r, "found") /\ \E i \in {0} \cup Ids : row' = [row EXCEPT ![r] = i]
      BY <2>3 DEF FindOrgAccount
    <3> QED BY <2>2, <3>1, <1>e DEF Labels
  <2>4. CASE CredentialsRefused(r) \/ SetWebhookRefused(r) \/ RequestDies(r)
    <3>1. Goto(r, "failed") /\ \E i \in {0} \cup Ids : row' = [row EXCEPT ![r] = i]
      BY <2>4 DEF CredentialsRefused, SetWebhookRefused, RequestDies, Fails
    <3> QED BY <2>2, <3>1, <1>e DEF Labels
  <2>5. CASE ValidateCredentials(r) \/ RecordAudit(r)
    <3>1. /\ UNCHANGED row
          /\ \E label \in {"validated", "failed", "done"} :
               Goto(r, label) /\ (label = "done" => pc[r] = "activated")
      BY <2>5 DEF ValidateCredentials, RecordAudit
    <3> QED BY <2>2, <3>1, <1>e DEF Labels
  <2> QED BY <1>1, <2>2, <2>3, <2>4, <2>5
<1>2. ASSUME NEW r \in Requests, NEW secret \in SecretsOf(r), StoreCredentials(r, secret)
      PROVE  SetupInv'
  <2>1. /\ RowsOK' /\ Ids \subseteq Ids'
        /\ Len(accounts') > Len(accounts) => Len(accounts) + 1 \in Ids'
    <3>1. row[r] # 0 => row[r] \in Ids
      BY DEF ClicksOK
    <3> QED BY <1>2, <3>1, NewRowOK, RowsStep DEF StoreCredentials
  <2>2. row' \in [Requests -> {0} \cup Ids'] /\ row'[r] \in Ids'
        /\ \A q \in Requests \ {r} : row'[q] = row[q]
    <3>1. CASE row[r] # 0
      BY <1>2, <2>1, <3>1 DEF StoreCredentials, ClicksOK
    <3>2. CASE row[r] = 0
      <4>1. Len(accounts') = Len(accounts) + 1
        BY <1>2, <3>2 DEF StoreCredentials, RowsOK
      <4>2. Len(accounts) + 1 \in Ids'
        BY <4>1, <2>1 DEF RowsOK
      <4> QED BY <1>2, <2>1, <3>2, <4>2 DEF StoreCredentials, ClicksOK
    <3> QED BY <3>1, <3>2
  <2>3. PICK label \in {"stored", "activated"} : Goto(r, label) /\ (label = "stored" => AccountOf[r] \in Bots)
    BY <1>2 DEF StoreCredentials
  <2>4. ClicksOK'
    BY <1>2, <2>1, <2>2, <2>3 DEF StoreCredentials, ClicksOK, Goto, Labels
  <2> QED BY <1>2, <2>1, <2>4, <1>b, <1>c DEF StoreCredentials
<1>3. ASSUME NEW r \in Requests, SetWebhook(r) PROVE SetupInv'
  <2>1. RowsOK' /\ Ids' = Ids /\ CopiesOK'
    BY <1>3, <1>a, <1>c DEF SetWebhook
  <2>2. ASSUME Fails(r) PROVE ClicksOK'
    BY <2>1, <2>2, <1>e DEF Fails, Labels
  <2>3. ASSUME Goto(r, "registered"), UNCHANGED row PROVE ClicksOK'
    BY <1>3, <2>1, <2>3, <1>e DEF SetWebhook, Labels
  <2>4. HooksOK'
    BY <1>3, <2>1, SetupAssumption DEF SetWebhook, HooksOK, HookOK, ClicksOK, Posters
  <2>5. ClicksOK'
    BY <1>3, <2>2, <2>3 DEF SetWebhook
  <2> QED BY <2>1, <2>4, <2>5
<1>4. ASSUME NEW r \in Requests, Activate(r) PROVE SetupInv'
  <2> DEFINE e == [accounts[row[r]] EXCEPT !.status = "ACTIVE"]
  <2>1. row[r] \in Ids /\ accounts' = [accounts EXCEPT ![row[r]] = e]
    BY <1>4 DEF Activate, ClicksOK
  <2>2. RowOK(e)
    BY <2>1 DEF RowsOK, RowOK, Rows
  <2>3. RowsOK' /\ Ids' = Ids
    <3>1. RowsOK'
      BY <2>1, <2>2, RowsStep
    <3>2. Len(accounts') = Len(accounts)
      BY <2>1 DEF RowsOK
    <3> QED BY <3>1, <3>2 DEF Ids
  <2>4. ClicksOK'
    BY <1>4, <2>3, <1>e DEF Activate, Labels
  <2> QED BY <1>4, <2>3, <2>4, <1>b, <1>c DEF Activate
<1>5. ASSUME NEW r \in Requests, VerifyHandshake(r) PROVE SetupInv'
  <2>1. RowsOK' /\ Ids' = Ids /\ CopiesOK' /\ ClicksOK'
    BY <1>5, <1>a, <1>c, <1>d DEF VerifyHandshake
  <2>2. HooksOK'
    <3>1. AppOf[AccountOf[r]] \in Posters /\ AppOf[AccountOf[r]] \notin Bots
      BY <1>5, SetupAssumption DEF VerifyHandshake, Posters, Apps
    <3> QED BY <1>5, <2>1, <3>1 DEF VerifyHandshake, HooksOK, HookOK, ClicksOK
  <2> QED BY <2>1, <2>2
<1>6. ASSUME NEW u \in Updates, ReceiveUpdate(u) \/ HandleUpdate(u) \/ HandlerThrows(u)
      PROVE  SetupInv'
  <2>1. RowsOK' /\ HooksOK' /\ ClicksOK'
    BY <1>6, <1>a, <1>b, <1>d DEF ReceiveUpdate, HandleUpdate, HandlerThrows
  <2>2. CASE ReceiveUpdate(u)
    <3> DEFINE p == Poster(SentTo[u])
    <3>1. p \in Posters /\ hook[p] # None
      BY <2>2, SetupAssumption DEF ReceiveUpdate, Poster, Posters, Apps
    <3>2. HookOK(p, hook[p])
      BY <3>1 DEF HooksOK
    <3>3. RowOK(accounts[hook[p].account])
      BY <3>2 DEF HookOK, RowsOK
    <3>4. Poster(accounts[hook[p].account].bot) = p
      BY <2>2, <3>1, <3>2, <3>3, AdmittedBelongs DEF ReceiveUpdate
    <3> QED BY <2>1, <2>2, <3>4 DEF ReceiveUpdate, CopiesOK
  <2>3. CASE HandleUpdate(u) \/ HandlerThrows(u)
    BY <2>1, <2>3 DEF HandleUpdate, HandlerThrows, CopiesOK
  <2> QED BY <1>6, <2>2, <2>3
<1>7. CASE UNCHANGED vars
  BY <1>7, <1>a, <1>b, <1>c, <1>d DEF vars
<1> QED
  BY <1>1, <1>2, <1>3, <1>4, <1>5, <1>6, <1>7 DEF Next, AllEnded

LEMMA SetupInvariant == Spec => []SetupInv
<1>1. Init => SetupInv
  <2> SUFFICES ASSUME Init PROVE SetupInv
    OBVIOUS
  <2>1. accounts = <<>> /\ Ids = {}
    BY DEF Init, Ids
  <2> QED BY <2>1 DEF Init, SetupInv, RowsOK, ClicksOK, HooksOK, CopiesOK, Labels
<1> QED BY <1>1, SetupStep, PTL DEF Spec

\* Whoever writes to a bot is served as a customer of that bot, whoever writes to a number
\* as one of the numbers of its app, however registrations overlap, fail or move an account
\* to another bot or number.
THEOREM ServedWhereWritten == Spec => []ServedByBotOrApp
<1>1. Init => ServedByBotOrApp
  BY DEF Init, ServedByBotOrApp
<1>2. SetupInv /\ ServedByBotOrApp /\ [Next]_vars => ServedByBotOrApp'
  <2> SUFFICES ASSUME SetupInv, ServedByBotOrApp, [Next]_vars PROVE ServedByBotOrApp'
    OBVIOUS
  <2>1. ASSUME NEW u \in Updates, HandleUpdate(u) PROVE ServedByBotOrApp'
    BY <2>1 DEF HandleUpdate, ServedByBotOrApp, SetupInv, CopiesOK
  <2>2. ASSUME UNCHANGED answered PROVE ServedByBotOrApp'
    BY <2>2 DEF ServedByBotOrApp
  <2>3. UNCHANGED answered \/ \E u \in Updates : HandleUpdate(u)
    BY DEF Next, ValidateCredentials, FindOrgAccount, StoreCredentials, CredentialsRefused,
           SetWebhook, SetWebhookRefused, Activate, RecordAudit, RequestDies, VerifyHandshake,
           ReceiveUpdate, HandlerThrows, AllEnded, vars
  <2> QED BY <2>1, <2>2, <2>3
<1> QED BY <1>1, <1>2, SetupInvariant, PTL DEF Spec

-----------------------------------------------------------------------------
(* Clicks that overlap no other                                               *)

Concerns(q, r) == \/ AccountOf[q] = AccountOf[r]
                  \/ OrgOf[q] = OrgOf[r] /\ SameChannel(AccountOf[q], AccountOf[r])

\* Clicks that run at the same time and are about the same organization or bot know.
OverlapInv == \A q, r \in Running : q # r /\ Concerns(q, r) => q \in disturbed

Mine(i, r) == accounts[i].org = OrgOf[r] /\ SameChannel(accounts[i].bot, AccountOf[r])

\* A click writes to a row of its organization, and no two rows have one bot.
OwnRows ==
  /\ \A r \in Requests : row[r] # 0 => Mine(row[r], r)
  /\ \A i, j \in Ids : accounts[i].bot = accounts[j].bot => i = j

\* Where a click is about to create a row beside another of its organization, the other
\* was created under its eyes.
SecondRow ==
  \A r \in Requests : pc[r] = "found" /\ row[r] = 0 /\ (\E i \in Ids : Mine(i, r))
    => r \in disturbed /\ \E q \in disturbed \ {r} : OrgOf[q] = OrgOf[r]

\* What a click has stored and registered is there, until an overlapping click comes.
StoredInv ==
  /\ \A r \in Requests : pc[r] \in {"stored", "registered"}
       => accounts[row[r]].by \in {r} \cup disturbed
  /\ \A r \in Requests, i \in Ids :
       pc[r] = "stored" /\ accounts[i].bot = AccountOf[r] /\ accounts[i].by \notin disturbed
         => accounts[i].by = r /\ accounts[i].status = "PENDING_SETUP"
  /\ \A r \in Requests : pc[r] = "registered" /\ r \notin disturbed
       => hook[AccountOf[r]] = [account |-> row[r], secret |-> r]

ClickInv == OverlapInv /\ OwnRows /\ SecondRow /\ StoredInv

\* A step moves one click, at most, and no click is forgotten to have overlapped.
LEMMA OverlapStep ==
  SetupInv /\ OverlapInv /\ [Next]_vars => OverlapInv' /\ disturbed \subseteq disturbed'
<1> SUFFICES ASSUME SetupInv, OverlapInv, [Next]_vars
             PROVE  OverlapInv' /\ disturbed \subseteq disturbed'
  OBVIOUS
<1>0. pc \in [Requests -> Labels]
  BY DEF SetupInv, ClicksOK
<1>a. ASSUME UNCHANGED disturbed, Running' \subseteq Running
      PROVE  OverlapInv' /\ disturbed \subseteq disturbed'
  BY <1>a DEF OverlapInv, Concerns, SameChannel
<1>1. ASSUME NEW r \in Requests, ValidateCredentials(r)
      PROVE  OverlapInv' /\ disturbed \subseteq disturbed'
  <2>1. CASE pc' = [pc EXCEPT ![r] = "failed"]
    <3>1. disturbed' = disturbed /\ Running' \subseteq Running
      BY <1>0, <1>1, <2>1 DEF ValidateCredentials, Running
    <3> QED BY <3>1, <1>a
  <2>2. CASE pc' = [pc EXCEPT ![r] = "validated"]
    <3>1. Running' = Running \cup {r} /\ r \notin Running
      BY <1>0, <1>1, <2>2 DEF ValidateCredentials, Running
    <3>2. disturbed' = disturbed \cup (IF Overlaps(r) = {} THEN {} ELSE Overlaps(r) \cup {r})
      BY <1>0, <1>1, <2>2 DEF ValidateCredentials
    <3>3. \A q \in Running : Concerns(q, r) => q \in disturbed' /\ r \in disturbed'
      BY <3>1, <3>2 DEF Overlaps, Concerns
    <3>4. \A q \in Running : Concerns(r, q) => Concerns(q, r)
      BY DEF Concerns, SameChannel
    <3> QED BY <3>1, <3>2, <3>3, <3>4 DEF OverlapInv, Concerns, SameChannel
  <2> QED BY <1>1, <2>1, <2>2 DEF ValidateCredentials, Goto
<1>2. ASSUME NEW r \in Requests, NEW label \in Labels, r \in Running, Goto(r, label),
             UNCHANGED disturbed
      PROVE  OverlapInv' /\ disturbed \subseteq disturbed'
  <2>1. Running' \subseteq Running
    BY <1>0, <1>2 DEF Goto, Running
  <2> QED BY <1>2, <2>1, <1>a
<1>3. ASSUME NEW r \in Requests, \/ FindOrgAccount(r) \/ CredentialsRefused(r) \/ SetWebhook(r)
                                 \/ SetWebhookRefused(r) \/ Activate(r) \/ RecordAudit(r)
                                 \/ RequestDies(r)
      PROVE  OverlapInv' /\ disturbed \subseteq disturbed'
  <2>1. r \in Running /\ UNCHANGED disturbed /\ \E label \in Labels : Goto(r, label)
    BY <1>3 DEF FindOrgAccount, CredentialsRefused, SetWebhook, SetWebhookRefused, Activate,
                RecordAudit, RequestDies, Fails, Running, Labels
  <2> QED BY <2>1, <1>2
<1>4. ASSUME NEW r \in Requests, NEW secret \in SecretsOf(r), StoreCredentials(r, secret)
      PROVE  OverlapInv' /\ disturbed \subseteq disturbed'
  <2>1. r \in Running /\ UNCHANGED disturbed /\ \E label \in Labels : Goto(r, label)
    BY <1>4 DEF StoreCredentials, Running, Labels
  <2> QED BY <2>1, <1>2
<1>5. CASE UNCHANGED clicks
  BY <1>5, <1>a DEF Running
<1> QED
  BY <1>1, <1>3, <1>4, <1>5
  DEF Next, VerifyHandshake, ReceiveUpdate, HandleUpdate, HandlerThrows, AllEnded, vars

\* What a click that stores its credentials does to the table.
LEMMA StoreStep ==
  ASSUME SetupInv, NEW r \in Requests, NEW secret \in SecretsOf(r), StoreCredentials(r, secret)
  PROVE  \E k \in Ids' :
           /\ row'[r] = k /\ accounts'[k] = NewRow(r, secret)
           /\ row[r] # 0 => k = row[r]
           /\ row[r] = 0 => k \notin Ids
           /\ Ids' = Ids \cup {k}
           /\ \A i \in Ids \ {k} : accounts'[i] = accounts[i] /\ accounts[i].bot # AccountOf[r]
           /\ \A q \in Requests \ {r} : pc'[q] = pc[q] /\ row'[q] = row[q]
           /\ pc[r] = "found" /\ pc'[r] = IF AccountOf[r] \in Bots THEN "stored" ELSE "activated"
<1>0. Len(accounts) \in Nat /\ Ids = 1..Len(accounts) /\ accounts \in Seq(Rows)
  BY DEF SetupInv, RowsOK, Ids
<1>1. /\ \A q \in Requests \ {r} : pc'[q] = pc[q]
      /\ pc[r] = "found" /\ pc'[r] = IF AccountOf[r] \in Bots THEN "stored" ELSE "activated"
      /\ \A i \in Ids \ {row[r]} : accounts[i].bot # AccountOf[r]
  BY DEF StoreCredentials, SetupInv, ClicksOK, Goto, AlreadyConnected
<1>2. CASE row[r] # 0
  <2> DEFINE k == row[r]
  <2>1. /\ accounts' = [accounts EXCEPT ![k] = NewRow(r, secret)]
        /\ UNCHANGED row /\ k \in Ids
    BY <1>2 DEF StoreCredentials, SetupInv, ClicksOK
  <2>2. Ids' = Ids /\ \A i \in Ids : accounts'[i] = IF i = k THEN NewRow(r, secret) ELSE accounts[i]
    BY <1>0, <2>1 DEF Ids
  <2> QED BY <1>1, <1>2, <2>1, <2>2 DEF SetupInv, ClicksOK
<1>3. CASE row[r] = 0
  <2> DEFINE k == Len(accounts) + 1
  <2>1. accounts' = Append(accounts, NewRow(r, secret)) /\ row' = [row EXCEPT ![r] = k]
    BY <1>3 DEF StoreCredentials
  <2>2. Len(accounts') = k
    BY <1>0, <2>1
  <2>3. Ids' = Ids \cup {k} /\ k \notin Ids /\ k \in Ids'
    BY <1>0, <2>2 DEF Ids
  <2>4. (\A i \in Ids : accounts'[i] = accounts[i]) /\ accounts'[k] = NewRow(r, secret)
    BY <1>0, <2>1
  <2>5. \A i \in Ids : i # row[r]
    BY <1>0, <1>3
  <2> QED BY <1>1, <1>3, <2>1, <2>3, <2>4, <2>5 DEF SetupInv, ClicksOK
<1> QED BY <1>2, <1>3

\* Only StoreCredentials changes a row's bot or organization.
LEMMA OtherSteps ==
  ASSUME SetupInv, [Next]_vars,
         ~ \E r \in Requests : \E secret \in SecretsOf(r) : StoreCredentials(r, secret)
  PROVE  /\ Ids' = Ids
         /\ \A i \in Ids : /\ accounts'[i].org = accounts[i].org
                          /\ accounts'[i].bot = accounts[i].bot
                          /\ accounts'[i].by = accounts[i].by
                          /\ accounts'[i].secret = accounts[i].secret
         /\ UNCHANGED accounts \/ \E r \in Requests : Activate(r)
         /\ UNCHANGED hook \/ \E r \in Requests : SetWebhook(r) \/ VerifyHandshake(r)
         /\ \A r \in Requests : pc'[r] = "stored" => pc[r] = "stored"
         /\ \A r \in Requests : pc'[r] = "registered" => pc[r] = "registered" \/ SetWebhook(r)
         /\ \A r \in Requests : pc'[r] = "found" => FindOrgAccount(r) \/ pc[r] = "found"
         /\ \A r \in Requests : row'[r] = row[r] \/ FindOrgAccount(r) \/ Fails(r)
<1>0. pc \in [Requests -> Labels] /\ accounts \in Seq(Rows) /\ Ids = 1..Len(accounts)
  BY DEF SetupInv, ClicksOK, RowsOK, Ids
<1>1. UNCHANGED accounts \/ \E r \in Requests : Activate(r)
  BY DEF Next, ValidateCredentials, FindOrgAccount, CredentialsRefused, SetWebhook,
         SetWebhookRefused, RecordAudit, RequestDies, VerifyHandshake, ReceiveUpdate,
         HandleUpdate, HandlerThrows, AllEnded, vars
<1>7. \A r \in Requests : row'[r] = row[r] \/ FindOrgAccount(r) \/ Fails(r)
  <2>1. UNCHANGED row \/ \E r \in Requests : FindOrgAccount(r) \/ Fails(r)
    BY DEF Next, ValidateCredentials, CredentialsRefused, SetWebhook,
           SetWebhookRefused, RecordAudit, RequestDies, VerifyHandshake, ReceiveUpdate,
           HandleUpdate, HandlerThrows, AllEnded, vars, Activate
  <2>2. ASSUME NEW q \in Requests, FindOrgAccount(q) \/ Fails(q)
        PROVE  \A r \in Requests \ {q} : row'[r] = row[r]
    BY <2>2 DEF FindOrgAccount, Fails, SetupInv, ClicksOK
  <2> QED BY <2>1, <2>2
<1>2. UNCHANGED hook \/ \E r \in Requests : SetWebhook(r) \/ VerifyHandshake(r)
  BY DEF Next, ValidateCredentials, FindOrgAccount, CredentialsRefused,
         SetWebhookRefused, RecordAudit, RequestDies, ReceiveUpdate,
         HandleUpdate, HandlerThrows, AllEnded, vars, Activate
<1>8. ASSUME NEW r \in Requests, ValidateCredentials(r)
      PROVE  Goto(r, "validated") \/ Goto(r, "failed")
  BY <1>8 DEF ValidateCredentials
<1>3. UNCHANGED pc \/ \E r \in Requests :
        \/ Goto(r, "validated") \/ Goto(r, "failed") \/ Goto(r, "done") \/ Goto(r, "activated")
        \/ FindOrgAccount(r) \/ (SetWebhook(r) /\ Goto(r, "registered"))
  <2>1. ASSUME NEW r \in Requests, SetWebhook(r)
        PROVE  (SetWebhook(r) /\ Goto(r, "registered")) \/ Goto(r, "failed")
    BY <2>1 DEF SetWebhook, Fails
  <2>2. ASSUME NEW r \in Requests, \/ CredentialsRefused(r) \/ SetWebhookRefused(r)
                                   \/ Activate(r) \/ RecordAudit(r) \/ RequestDies(r)
        PROVE  Goto(r, "failed") \/ Goto(r, "activated") \/ Goto(r, "done")
    BY <2>2 DEF CredentialsRefused, SetWebhookRefused, Activate, RecordAudit, RequestDies, Fails
  <2>3. ASSUME UNCHANGED clicks PROVE UNCHANGED pc
    BY <2>3
  <2>4. \/ \E r \in Requests : \/ ValidateCredentials(r) \/ FindOrgAccount(r) \/ SetWebhook(r)
                             \/ CredentialsRefused(r) \/ SetWebhookRefused(r)
                             \/ Activate(r) \/ RecordAudit(r) \/ RequestDies(r)
        \/ UNCHANGED clicks
    BY DEF Next, VerifyHandshake, ReceiveUpdate, HandleUpdate, HandlerThrows, AllEnded, vars
  <2> QED BY <1>8, <2>1, <2>2, <2>3, <2>4
<1>5. ASSUME NEW r \in Requests, Activate(r)
      PROVE  /\ Ids' = Ids
             /\ \A i \in Ids : /\ accounts'[i].org = accounts[i].org
                              /\ accounts'[i].bot = accounts[i].bot
                              /\ accounts'[i].by = accounts[i].by
                              /\ accounts'[i].secret = accounts[i].secret
  <2>1. row[r] \in Ids /\ accounts[row[r]] \in Rows
        /\ accounts' = [accounts EXCEPT ![row[r]] = [accounts[row[r]] EXCEPT !.status = "ACTIVE"]]
    BY <1>5, <1>0 DEF Activate, SetupInv, ClicksOK
  <2>2. Len(accounts') = Len(accounts)
    BY <1>0, <2>1
  <2>3. Ids' = Ids
    BY <2>2 DEF Ids
  <2>4. \A i \in Ids : accounts'[i] = IF i = row[r] THEN [accounts[row[r]] EXCEPT !.status = "ACTIVE"]
                                                 ELSE accounts[i]
    BY <1>0, <2>1
  <2> QED BY <2>1, <2>3, <2>4 DEF Rows
<1>6. /\ \A r \in Requests : pc'[r] = "stored" => pc[r] = "stored"
      /\ \A r \in Requests : pc'[r] = "registered" => pc[r] = "registered" \/ SetWebhook(r)
      /\ \A r \in Requests : pc'[r] = "found" => FindOrgAccount(r) \/ pc[r] = "found"
  BY <1>0, <1>3 DEF Goto, FindOrgAccount
<1> QED BY <1>1, <1>2, <1>5, <1>6, <1>7 DEF Ids

\* Clicks that run at the same time and write to one row, or for one bot, are disturbed.
LEMMA WritersDisturbed ==
  ASSUME OverlapInv, NEW q \in Running, NEW r \in Running, q # r, Concerns(q, r)
  PROVE  q \in disturbed /\ r \in disturbed
BY DEF OverlapInv, Concerns, SameChannel

\* A handshake with Meta leaves every bot's webhook alone.
LEMMA HandshakeElsewhere ==
  ASSUME NEW r \in Requests, VerifyHandshake(r), NEW b \in Bots PROVE hook'[b] = hook[b]
<1>1. AppOf[AccountOf[r]] \in Apps /\ AppOf[AccountOf[r]] # b
  BY SetupAssumption DEF VerifyHandshake, Apps
<1> QED BY <1>1 DEF VerifyHandshake

LEMMA ClickStep == SetupInv /\ ClickInv /\ [Next]_vars => ClickInv'
<1> SUFFICES ASSUME SetupInv, ClickInv, [Next]_vars PROVE ClickInv'
  OBVIOUS
<1>0. OverlapInv /\ OwnRows /\ SecondRow /\ StoredInv
  BY DEF ClickInv
<1>a. OverlapInv' /\ disturbed \subseteq disturbed'
  BY <1>0, OverlapStep
<1>1. ASSUME NEW r \in Requests, NEW secret \in SecretsOf(r), StoreCredentials(r, secret)
      PROVE  ClickInv'
  <2>1. PICK k \in Ids' :
           /\ row'[r] = k /\ accounts'[k] = NewRow(r, secret)
           /\ row[r] # 0 => k = row[r]
           /\ row[r] = 0 => k \notin Ids
           /\ Ids' = Ids \cup {k}
           /\ \A i \in Ids \ {k} : accounts'[i] = accounts[i] /\ accounts[i].bot # AccountOf[r]
           /\ \A q \in Requests \ {r} : pc'[q] = pc[q] /\ row'[q] = row[q]
           /\ pc[r] = "found" /\ pc'[r] = IF AccountOf[r] \in Bots THEN "stored" ELSE "activated"
    BY <1>1, StoreStep
  <2>2. UNCHANGED <<hook, disturbed>> /\ r \in Running
    BY <1>1 DEF StoreCredentials, Running
  <2>3. /\ accounts'[k].org = OrgOf[r] /\ accounts'[k].bot = AccountOf[r]
        /\ accounts'[k].by = r
        /\ AccountOf[r] \in Bots => accounts'[k].status = "PENDING_SETUP"
    BY <2>1 DEF NewRow
  <2>4. k \in Ids => Mine(k, r)
    BY <1>0, <2>1 DEF OwnRows
  <2>5. \A q \in Requests, i \in Ids : Mine(i, q)' <=> Mine(i, q)
    BY <2>1, <2>3, <2>4 DEF Mine, SameChannel
  <2>6. \A q \in Requests : Mine(k, q)' <=> OrgOf[q] = OrgOf[r] /\ SameChannel(AccountOf[r], AccountOf[q])
    BY <2>3 DEF Mine
  <2>7. \A q \in Running \ {r} : Concerns(q, r) \/ Mine(k, q)' => q \in disturbed /\ r \in disturbed
    <3>1. \A q \in Running : Mine(k, q)' => Concerns(q, r)
      BY <2>6 DEF Concerns, SameChannel, Running
    <3> QED BY <1>0, <2>2, <3>1, WritersDisturbed
  <2>8. OwnRows'
    <3>1. ASSUME NEW q \in Requests, row'[q] # 0 PROVE Mine(row[q], q)'
      <4>1. CASE q = r
        BY <2>1, <2>3, <4>1 DEF Mine, SameChannel
      <4>2. CASE q # r
        <5>1. row'[q] = row[q] /\ row[q] \in Ids /\ Mine(row[q], q)
          BY <1>0, <2>1, <3>1, <4>2 DEF OwnRows, SetupInv, ClicksOK
        <5> QED BY <5>1, <2>5 DEF Mine
      <4> QED BY <4>1, <4>2
    <3>4. \A i, j \in Ids' : accounts'[i].bot = accounts'[j].bot => i = j
      BY <1>0, <2>1, <2>3 DEF OwnRows
    <3> QED BY <3>1, <3>4 DEF OwnRows
  <2>9. SecondRow'
    <3> SUFFICES ASSUME NEW q \in Requests, pc'[q] = "found", row'[q] = 0,
                        NEW i \in Ids', Mine(i, q)'
                 PROVE  q \in disturbed' /\ \E p \in disturbed' \ {q} : OrgOf[p] = OrgOf[q]
      BY DEF SecondRow
    <3>1. q # r /\ pc[q] = "found" /\ row[q] = 0 /\ q \in Running
      BY <2>1, <2>2 DEF Running
    <3>2. CASE i \in Ids
      BY <1>0, <2>2, <2>5, <3>1, <3>2 DEF SecondRow
    <3>3. CASE i = k
      BY <2>2, <2>6, <2>7, <3>1, <3>3
    <3> QED BY <2>1, <3>2, <3>3
  <2>10. StoredInv'
    <3>1. ASSUME NEW q \in Requests, pc'[q] \in {"stored", "registered"}
          PROVE  accounts'[row'[q]].by \in {q} \cup disturbed'
      <4>1. CASE q = r
        BY <2>1, <2>3, <4>1
      <4>2. CASE q # r
        <5>1. row'[q] = row[q] /\ row[q] \in Ids /\ Mine(row[q], q) /\ q \in Running
              /\ accounts[row[q]].by \in {q} \cup disturbed
          BY <1>0, <2>1, <3>1, <4>2 DEF OwnRows, SetupInv, ClicksOK, Running, StoredInv, Ids
        <5>2. CASE row[q] = k
          BY <5>1, <5>2, <2>2, <2>3, <2>5, <2>7, <4>2
        <5>3. CASE row[q] # k
          BY <5>1, <5>3, <2>1, <2>2
        <5> QED BY <5>2, <5>3
      <4> QED BY <4>1, <4>2
    <3>2. ASSUME NEW q \in Requests, NEW i \in Ids', pc'[q] = "stored",
                 accounts'[i].bot = AccountOf[q], accounts'[i].by \notin disturbed'
          PROVE  accounts'[i].by = q /\ accounts'[i].status = "PENDING_SETUP"
      <4>1. CASE q = r
        BY <2>1, <2>3, <3>2, <4>1
      <4>2. CASE q # r
        <5>1. pc[q] = "stored" /\ q \in Running
          BY <2>1, <3>2, <4>2 DEF Running
        <5>2. CASE i = k
          BY <5>1, <5>2, <2>2, <2>3, <2>7, <3>2, <4>2 DEF Concerns
        <5>3. CASE i # k
          BY <5>1, <5>3, <1>0, <2>1, <2>2, <3>2 DEF StoredInv
        <5> QED BY <5>2, <5>3
      <4> QED BY <4>1, <4>2
    <3>3. ASSUME NEW q \in Requests, pc'[q] = "registered", q \notin disturbed'
          PROVE  hook'[AccountOf[q]] = [account |-> row'[q], secret |-> q]
      BY <3>3, <1>0, <2>1, <2>2 DEF StoredInv
    <3> QED BY <3>1, <3>2, <3>3 DEF StoredInv
  <2> QED BY <1>a, <2>8, <2>9, <2>10 DEF ClickInv
<1>2. CASE ~ \E r \in Requests : \E secret \in SecretsOf(r) : StoreCredentials(r, secret)
  <2>1. /\ Ids' = Ids
        /\ \A i \in Ids : /\ accounts'[i].org = accounts[i].org
                         /\ accounts'[i].bot = accounts[i].bot
                         /\ accounts'[i].by = accounts[i].by
        /\ UNCHANGED accounts \/ \E r \in Requests : Activate(r)
        /\ UNCHANGED hook \/ \E r \in Requests : SetWebhook(r) \/ VerifyHandshake(r)
        /\ \A r \in Requests : pc'[r] = "stored" => pc[r] = "stored"
        /\ \A r \in Requests : pc'[r] = "registered" => pc[r] = "registered" \/ SetWebhook(r)
        /\ \A r \in Requests : pc'[r] = "found" => FindOrgAccount(r) \/ pc[r] = "found"
        /\ \A r \in Requests : row'[r] = row[r] \/ FindOrgAccount(r) \/ Fails(r)
    BY <1>2, OtherSteps
  <2>2. \A q \in Requests, i \in Ids : Mine(i, q)' <=> Mine(i, q)
    BY <2>1 DEF Mine
  <2>3. ASSUME NEW q \in Requests, pc'[q] \in {"stored", "registered"}
        PROVE  pc[q] \in {"stored", "registered"} /\ row'[q] = row[q]
    <3>1. pc[q] \in {"stored", "registered"}
      BY <2>1, <2>3 DEF SetWebhook
    <3>2. ~FindOrgAccount(q) /\ ~Fails(q)
      BY <2>3 DEF FindOrgAccount, Fails, Goto, SetupInv, ClicksOK
    <3> QED BY <2>1, <3>1, <3>2
  <2>4. \A q \in Requests : pc[q] \in {"stored", "registered"} => row[q] \in Ids
    BY DEF SetupInv, ClicksOK
  <2>5. ASSUME NEW r \in Requests, FindOrgAccount(r)
        PROVE  /\ row'[r] # 0 => row'[r] \in Ids /\ Mine(row'[r], r)
               /\ row'[r] = 0 => \A i \in Ids : ~ Mine(i, r)
    <3> DEFINE mine == {i \in Ids : Mine(i, r)}
    <3>1. PICK e \in IF mine = {} THEN {0} ELSE mine : row' = [row EXCEPT ![r] = e]
      BY <2>5 DEF FindOrgAccount, Mine
    <3>2. row'[r] = e /\ (e = 0 \/ e \in mine) /\ 0 \notin Ids
      BY <3>1 DEF SetupInv, ClicksOK, Ids, RowsOK
    <3>3. e = 0 => mine = {}
      BY <3>1, <3>2
    <3> QED BY <3>1, <3>2, <3>3
  <2>6. OwnRows'
    <3>1. ASSUME NEW q \in Requests, row'[q] # 0 PROVE row'[q] \in Ids /\ Mine(row'[q], q)
      <4>1. CASE row'[q] = row[q]
        BY <1>0, <3>1, <4>1 DEF OwnRows, SetupInv, ClicksOK
      <4>2. CASE Fails(q)
        BY <3>1, <4>2 DEF Fails, SetupInv, ClicksOK
      <4> QED BY <2>1, <2>5, <3>1, <4>1, <4>2
    <3>2. (\A q \in Requests : row[q] # 0 => Mine(row[q], q))'
      BY <2>2, <3>1 DEF Mine
    <3>4. \A i, j \in Ids' : accounts'[i].bot = accounts'[j].bot => i = j
      BY <1>0, <2>1 DEF OwnRows
    <3> QED BY <3>2, <3>4 DEF OwnRows
  <2>7. SecondRow'
    <3> SUFFICES ASSUME NEW q \in Requests, pc'[q] = "found", row'[q] = 0,
                        NEW i \in Ids', Mine(i, q)'
                 PROVE  q \in disturbed' /\ \E p \in disturbed' \ {q} : OrgOf[p] = OrgOf[q]
      BY DEF SecondRow
    <3>1. i \in Ids /\ Mine(i, q)
      BY <2>1, <2>2
    <3>2. pc[q] = "found" /\ ~FindOrgAccount(q)
      BY <2>1, <2>5, <3>1
    <3>3. ~Fails(q)
      BY DEF Fails, Goto, SetupInv, ClicksOK
    <3>4. row[q] = 0
      BY <2>1, <3>2, <3>3
    <3> QED BY <1>0, <1>a, <3>1, <3>2, <3>4 DEF SecondRow
  <2>8. StoredInv'
    <3>1. \A q \in Requests : pc'[q] \in {"stored", "registered"}
            => accounts'[row'[q]].by \in {q} \cup disturbed'
      BY <1>0, <1>a, <2>1, <2>3, <2>4 DEF StoredInv
    <3>2. ASSUME NEW q \in Requests, NEW i \in Ids', pc'[q] = "stored",
                 accounts'[i].bot = AccountOf[q], accounts'[i].by \notin disturbed'
          PROVE  accounts'[i].by = q /\ accounts'[i].status = "PENDING_SETUP"
      <4>1. /\ pc[q] = "stored" /\ i \in Ids /\ accounts[i].bot = AccountOf[q]
            /\ accounts[i].by \notin disturbed
            /\ accounts[i].by = q /\ accounts[i].status = "PENDING_SETUP"
        BY <1>0, <1>a, <2>1, <3>2 DEF StoredInv
      <4>2. ASSUME NEW p \in Requests, Activate(p) PROVE row[p] # i
        <5>1. pc[p] = "registered" /\ accounts[row[p]].by \in {p} \cup disturbed
          BY <4>2, <1>0 DEF Activate, StoredInv
        <5> QED BY <4>1, <5>1
      <4>3. accounts'[i].status = accounts[i].status
        <5>1. ASSUME NEW p \in Requests, Activate(p) PROVE accounts'[i] = accounts[i]
          <6>1. accounts \in Seq(Rows) /\ i \in 1..Len(accounts) /\ row[p] # i
            BY <4>1, <4>2, <5>1 DEF SetupInv, RowsOK, Ids
          <6>2. accounts' = [accounts EXCEPT ![row[p]] = [accounts[row[p]] EXCEPT !.status = "ACTIVE"]]
            BY <5>1 DEF Activate
          <6> QED BY <6>1, <6>2
        <5> QED BY <2>1, <5>1
      <4> QED BY <2>1, <4>1, <4>3
    <3>3. ASSUME NEW q \in Requests, pc'[q] = "registered", q \notin disturbed'
          PROVE  hook'[AccountOf[q]] = [account |-> row'[q], secret |-> q]
      <4>1. DOMAIN hook = Posters
        BY DEF SetupInv, HooksOK
      <4>2. CASE SetWebhook(q)
        <5>1. AccountOf[q] \in Posters /\ row'[q] = row[q]
          BY <2>3, <3>3, <4>2 DEF SetWebhook, SetupInv, ClicksOK, Posters
        <5> QED BY <4>1, <4>2, <5>1 DEF SetWebhook
      <4>3. CASE ~ SetWebhook(q)
        <5>1. /\ pc[q] = "registered" /\ q \in Running /\ AccountOf[q] \in Bots /\ q \notin disturbed
              /\ hook[AccountOf[q]] = [account |-> row[q], secret |-> q] /\ row'[q] = row[q]
          BY <2>3, <1>0, <1>a, <2>1, <3>3, <4>3 DEF StoredInv, Running, SetupInv, ClicksOK
        <5>2. ASSUME NEW p \in Requests, SetWebhook(p) \/ VerifyHandshake(p)
              PROVE  hook'[AccountOf[q]] = hook[AccountOf[q]]
          <6>1. CASE SetWebhook(p)
            <7>1. p # q /\ p \in Running
              BY <6>1, <4>3 DEF SetWebhook, Running
            <7>2. AccountOf[p] # AccountOf[q]
              BY <7>1, <5>1, <1>0, WritersDisturbed DEF Concerns
            <7> QED BY <6>1, <7>2 DEF SetWebhook
          <6>2. CASE VerifyHandshake(p)
            BY <6>2, <5>1, HandshakeElsewhere
          <6> QED BY <5>2, <6>1, <6>2
        <5> QED BY <2>1, <5>1, <5>2
      <4> QED BY <4>2, <4>3
    <3> QED BY <3>1, <3>2, <3>3 DEF StoredInv
  <2> QED BY <1>a, <2>6, <2>7, <2>8 DEF ClickInv
<1> QED BY <1>1, <1>2

LEMMA ClickInvariant == Spec => [](SetupInv /\ ClickInv)
<1>1. Init => ClickInv
  <2> SUFFICES ASSUME Init PROVE ClickInv
    OBVIOUS
  <2>1. accounts = <<>> /\ Ids = {} /\ Running = {}
        /\ \A r \in Requests : pc[r] = "idle" /\ row[r] = 0
    BY DEF Init, Ids, Running
  <2> QED BY <2>1 DEF ClickInv, OverlapInv, OwnRows, SecondRow, StoredInv
<1> QED BY <1>1, ClickStep, SetupInvariant, PTL DEF Spec

\* A second account of one organization and channel needs two clicks that overlapped.
THEOREM SecondAccount == Spec => []OneAccountPerOrg
<1>1. Init => OneAccountPerOrg
  BY DEF Init, OneAccountPerOrg, Ids
<1>2. SetupInv /\ ClickInv /\ OneAccountPerOrg /\ [Next]_vars => OneAccountPerOrg'
  <2> SUFFICES ASSUME SetupInv, ClickInv, OneAccountPerOrg, [Next]_vars,
                      NEW i \in Ids', NEW j \in Ids', i # j,
                      accounts'[i].org = accounts'[j].org,
                      SameChannel(accounts'[i].bot, accounts'[j].bot)
               PROVE  \E q, r \in disturbed' : /\ q # r /\ OrgOf[q] = accounts'[i].org
                                              /\ OrgOf[r] = accounts'[i].org
    BY DEF OneAccountPerOrg
  <2>0. disturbed \subseteq disturbed'
    BY OverlapStep DEF ClickInv
  <2>1. ASSUME NEW r \in Requests, NEW secret \in SecretsOf(r), StoreCredentials(r, secret)
        PROVE  \E p, q \in disturbed' : /\ p # q /\ OrgOf[p] = accounts'[i].org
                                        /\ OrgOf[q] = accounts'[i].org
    <3>1. PICK k \in Ids' :
             /\ accounts'[k] = NewRow(r, secret) /\ pc[r] = "found"
             /\ row[r] # 0 => k = row[r]
             /\ row[r] = 0 => k \notin Ids
             /\ Ids' = Ids \cup {k}
             /\ \A m \in Ids \ {k} : accounts'[m] = accounts[m]
      BY <2>1, StoreStep
    <3>2. accounts'[k].org = OrgOf[r] /\ accounts'[k].bot = AccountOf[r]
      BY <3>1 DEF NewRow
    <3>3. CASE k \in Ids
      <4>1. Mine(k, r)
        BY <3>1, <3>3 DEF ClickInv, OwnRows
      <4>2. /\ i \in Ids /\ j \in Ids /\ accounts[i].org = accounts'[i].org
            /\ accounts[i].org = accounts[j].org
            /\ SameChannel(accounts[i].bot, accounts[j].bot)
        BY <3>1, <3>2, <3>3, <4>1 DEF Mine, SameChannel
      <4> QED BY <2>0, <4>2 DEF OneAccountPerOrg
    <3>4. CASE k \notin Ids
      <4>1. CASE i \in Ids /\ j \in Ids
        BY <2>0, <3>1, <3>4, <4>1 DEF OneAccountPerOrg
      <4>2. CASE i = k \/ j = k
        <5>1. PICK m \in Ids : Mine(m, r)
          BY <3>1, <3>2, <3>4, <4>2 DEF Mine, SameChannel
        <5>2. r \in disturbed /\ \E q \in disturbed \ {r} : OrgOf[q] = OrgOf[r]
          BY <3>1, <3>4, <5>1 DEF ClickInv, SecondRow, SetupInv, ClicksOK
        <5>3. accounts'[i].org = OrgOf[r]
          BY <3>2, <4>2
        <5> QED BY <2>0, <5>2, <5>3
      <4> QED BY <3>1, <4>1, <4>2
    <3> QED BY <3>3, <3>4
  <2>2. CASE ~ \E r \in Requests : \E secret \in SecretsOf(r) : StoreCredentials(r, secret)
    BY <2>0, <2>2, OtherSteps DEF OneAccountPerOrg
  <2> QED BY <2>1, <2>2
<1> QED BY <1>1, <1>2, ClickInvariant, PTL DEF Spec

\* What an ACTIVE bot shows is what Telegram has, unless overlapping clicks wrote it.
THEOREM ActiveIsRegistered == Spec => []ActiveMeansRegistered
<1>1. Init => ActiveMeansRegistered
  BY DEF Init, ActiveMeansRegistered, Ids
<1>2. SetupInv /\ ClickInv /\ ActiveMeansRegistered /\ [Next]_vars => ActiveMeansRegistered'
  <2> SUFFICES ASSUME SetupInv, ClickInv, ActiveMeansRegistered, [Next]_vars,
                      NEW i \in Ids', accounts'[i].bot \in Bots,
                      accounts'[i].status = "ACTIVE", accounts'[i].by \notin disturbed'
               PROVE  hook'[accounts'[i].bot] = [account |-> i, secret |-> accounts'[i].secret]
    BY DEF ActiveMeansRegistered
  <2>0. disturbed \subseteq disturbed' /\ StoredInv
    BY OverlapStep DEF ClickInv
  <2>1. ASSUME NEW r \in Requests, NEW secret \in SecretsOf(r), StoreCredentials(r, secret)
        PROVE  hook'[accounts'[i].bot] = [account |-> i, secret |-> accounts'[i].secret]
    <3>1. PICK k \in Ids' :
             /\ accounts'[k] = NewRow(r, secret) /\ Ids' = Ids \cup {k}
             /\ \A m \in Ids \ {k} : accounts'[m] = accounts[m]
      BY <2>1, StoreStep
    <3>2. i # k
      BY <3>1 DEF NewRow
    <3> QED BY <2>0, <2>1, <3>1, <3>2 DEF StoreCredentials, ActiveMeansRegistered
  <2>2. CASE ~ \E r \in Requests : \E secret \in SecretsOf(r) : StoreCredentials(r, secret)
    <3>1. /\ i \in Ids /\ accounts'[i].bot = accounts[i].bot /\ accounts'[i].by = accounts[i].by
          /\ accounts'[i].secret = accounts[i].secret /\ accounts[i].by \notin disturbed
      BY <2>0, <2>2, OtherSteps
    <3>2. RowOK(accounts[i])
      BY <3>1 DEF SetupInv, RowsOK
    <3>3. ASSUME NEW r \in Requests, Activate(r), row[r] = i
          PROVE  hook'[accounts'[i].bot] = [account |-> i, secret |-> accounts'[i].secret]
      <4>1. pc[r] = "registered" /\ UNCHANGED <<hook, disturbed>>
        BY <3>3 DEF Activate
      <4>2. accounts[i].by = r /\ r \notin disturbed
        BY <2>0, <3>1, <3>3, <4>1 DEF StoredInv
      <4>3. hook[AccountOf[r]] = [account |-> i, secret |-> r]
        BY <2>0, <3>3, <4>1, <4>2 DEF StoredInv
      <4> QED BY <3>1, <3>2, <4>1, <4>2, <4>3 DEF RowOK
    <3>4. CASE ~ \E r \in Requests : Activate(r) /\ row[r] = i
      <4>1. accounts'[i] = accounts[i]
        <5>1. ASSUME NEW r \in Requests, Activate(r) PROVE accounts'[i] = accounts[i]
          <6>1. accounts \in Seq(Rows) /\ i \in 1..Len(accounts) /\ row[r] # i
            BY <3>1, <3>4, <5>1 DEF SetupInv, RowsOK, Ids
          <6>2. accounts' = [accounts EXCEPT ![row[r]] = [accounts[row[r]] EXCEPT !.status = "ACTIVE"]]
            BY <5>1 DEF Activate
          <6> QED BY <6>1, <6>2
        <5> QED BY <2>2, <5>1, OtherSteps
      <4>2. hook[accounts[i].bot] = [account |-> i, secret |-> accounts[i].secret]
        BY <3>1, <4>1 DEF ActiveMeansRegistered
      <4>3. ASSUME NEW r \in Requests, SetWebhook(r) \/ VerifyHandshake(r)
            PROVE  hook'[accounts[i].bot] = hook[accounts[i].bot]
        <5>1. CASE SetWebhook(r)
          <6>1. AccountOf[r] # accounts[i].bot
            BY <5>1, <2>0, <3>1, <4>1 DEF SetWebhook, StoredInv
          <6> QED BY <5>1, <6>1 DEF SetWebhook
        <5>2. CASE VerifyHandshake(r)
          BY <5>2, <3>1, HandshakeElsewhere
        <5> QED BY <4>3, <5>1, <5>2
      <4> QED BY <2>2, <4>1, <4>2, <4>3, OtherSteps
    <3> QED BY <3>3, <3>4
  <2> QED BY <2>1, <2>2
<1> QED BY <1>1, <1>2, ClickInvariant, PTL DEF Spec
=============================================================================
