------------------------------ MODULE Devices ------------------------------
(***************************************************************************)
(* The life of an Android gateway device: registered by an administrator   *)
(* (deviceRegistration.ts), carried to the phone as a token, authenticated *)
(* on every call (androidAuth.ts), throttled (rateLimit.ts), kept alive by *)
(* heartbeats and revoked at any moment (channelAccountRepository.ts),     *)
(* while the phone's loops and its "test connection" button have calls in  *)
(* flight.  The messages it carries are the business of AndroidGateway.    *)
(***************************************************************************)
EXTENDS Naturals, Sequences, FiniteSets

CONSTANTS
  Numbers,     \* phone numbers an administrator may register
  Limit,       \* requests a device may make in a window of the rate limiter
  MaxUpsets    \* bound: revocations, credentials entered and calls lost, together

ASSUME DevicesAssumption ==
  /\ IsFiniteSet(Numbers)
  /\ Limit \in Nat \ {0} /\ MaxUpsets \in Nat

VARIABLES
  devices,   \* the ChannelAccount rows of ANDROID_SMS, in the order of their creation
  pending,   \* the devices whose registration has not been answered yet
  shown,     \* the devices whose token an administrator has seen
  window,    \* requests counted in the current window of each device
  stored,    \* app: the device whose token is in the config store, 0 if none
  revoked,   \* app: the config store's "revoked" flag
  client,    \* app: the token the running service uses, 0 if it does not run
  quiet,     \* app: the loops are silent after a 429
  call,      \* app: the call each of its jobs has in flight
  crossed,   \* history: a 401 about a token that is no longer the stored one
  upsets

server == <<devices, pending, shown, window>>
config == <<stored, revoked>>
app    == <<config, client, quiet, call>>
ghosts == <<crossed, upsets>>
vars   == <<server, app, ghosts>>

Jobs == {"heartbeat", "poll", "test"}
Ids  == 1..Len(devices)
Idle == [token |-> 0, step |-> "idle"]

\* Rows, calls and messages are well-formed and refer to existing devices, and no
\* number has two devices: @@unique([channelType, externalAccountId]).
TypeOK ==
  /\ devices \in Seq([number : Numbers, status : {"ACTIVE", "DISABLED"},
                      revokedAt : BOOLEAN, hash : BOOLEAN])
  /\ \A c, d \in Ids : devices[c].number = devices[d].number => c = d
  /\ pending \subseteq Ids /\ shown \subseteq Ids
  /\ window \in [Ids -> 0..Limit]
  /\ stored \in {0} \cup Ids /\ client \in {0} \cup Ids
  /\ revoked \in BOOLEAN /\ quiet \in BOOLEAN /\ crossed \in BOOLEAN
  /\ call \in [Jobs -> [token : {0} \cup Ids, step :
                 {"idle", "sent", "authenticated", "ok", "unauthorized", "limited", "error"}]]
  /\ upsets \in 0..MaxUpsets

Init ==
  /\ devices = <<>> /\ pending = {} /\ shown = {} /\ window = <<>>
  /\ stored = 0 /\ revoked = FALSE /\ client = 0 /\ quiet = FALSE
  /\ call = [j \in Jobs |-> Idle]
  /\ crossed = FALSE /\ upsets = 0

Upset == upsets < MaxUpsets /\ upsets' = upsets + 1

-----------------------------------------------------------------------------
(* registration and revocation                                                *)

\* A revoked device keeps its number: the same number is refused for ever (P2002).
CreateDevice(n) ==
  /\ \A d \in Ids : devices[d].number # n
  /\ devices' = Append(devices, [number |-> n, status |-> "ACTIVE",
                                 revokedAt |-> FALSE, hash |-> FALSE])
  /\ window' = Append(window, 0)
  /\ pending' = pending \cup {Len(devices) + 1}
  /\ UNCHANGED <<shown, app, ghosts>>

SetDeviceTokenHash(d) ==
  /\ d \in pending /\ ~devices[d].hash
  /\ devices' = [devices EXCEPT ![d].hash = TRUE]
  /\ UNCHANGED <<pending, shown, window, app, ghosts>>

\* After the audit record the token is answered, the one time it is ever shown.
AnswerToken(d) ==
  /\ d \in pending /\ devices[d].hash
  /\ pending' = pending \ {d} /\ shown' = shown \cup {d}
  /\ UNCHANGED <<devices, window, app, ghosts>>

\* A failure on the way, of the audit record too, or a lost answer leaves a device whose
\* token nobody knows.
RegistrationDies(d) ==
  /\ d \in pending /\ Upset
  /\ pending' = pending \ {d}
  /\ UNCHANGED <<devices, shown, window, app, crossed>>

RevokeDevice(d) ==
  /\ ~devices[d].revokedAt /\ Upset
  /\ devices' = [devices EXCEPT ![d].revokedAt = TRUE, ![d].status = "DISABLED"]
  /\ UNCHANGED <<pending, shown, window, app, crossed>>

-----------------------------------------------------------------------------
(* the phone's configuration, its two screens and its service                 *)

HasCredentials == stored # 0

SaveToken(d) == stored' = d /\ revoked' = FALSE
ClearToken   == stored' = 0 /\ revoked' = FALSE

\* The flag is set whatever token the config store holds by now.
MarkRevoked(token) == revoked' = TRUE /\ crossed' = (crossed \/ token # stored)

\* The setup screen, which takes a token; otherwise the status screen with its buttons.
SetupShown == ~HasCredentials \/ revoked

\* Mutant: the flag of the token that was replaced stays.
SaveCredentials_FlagStays(d) ==
  /\ SetupShown
  /\ d \in shown /\ Upset
  /\ stored' = d
  /\ UNCHANGED <<server, revoked, client, quiet, call, crossed>>

SaveCredentials(d) ==
  /\ SetupShown
  /\ d \in shown /\ Upset
  /\ SaveToken(d)
  /\ UNCHANGED <<server, client, quiet, call, crossed>>

\* A service that stops takes its loops, their calls and its silence with it; a
\* connection test belongs to the screen and goes on.
StopService ==
  /\ client' = 0 /\ quiet' = FALSE
  /\ call' = [j \in Jobs |-> IF j = "test" THEN call[j] ELSE Idle]

\* "Replace device"
ClearCredentials ==
  /\ ~SetupShown /\ Upset
  /\ ClearToken
  /\ StopService
  /\ UNCHANGED <<server, crossed>>

\* "Stop"
StopButton ==
  /\ ~SetupShown /\ client # 0
  /\ StopService
  /\ UNCHANGED <<server, config, ghosts>>

\* onStartCommand, after new credentials, "Start", a boot or a push of an SMS: the loops
\* of a running service go on with the new client.
StartService ==
  /\ HasCredentials /\ ~revoked /\ client # stored
  /\ client' = stored
  /\ UNCHANGED <<server, config, quiet, call, ghosts>>

\* onStartCommand without usable credentials: the service stops itself.
StopSelf ==
  /\ client # 0 /\ (~HasCredentials \/ revoked)
  /\ StopService
  /\ UNCHANGED <<server, config, ghosts>>

\* The process dies with everything in flight; the config store stays.
ProcessDies ==
  /\ Upset
  /\ client' = 0 /\ quiet' = FALSE /\ call' = [j \in Jobs |-> Idle]
  /\ UNCHANGED <<server, config, crossed>>

\* The window after a 429 passes.
QuietEnds ==
  /\ quiet /\ quiet' = FALSE
  /\ UNCHANGED <<server, config, client, call, ghosts>>

-----------------------------------------------------------------------------
(* a call of the phone, and the route that answers it                         *)

\* The loops use the client of the service, "Test connection" the stored token.
Call(j) ==
  /\ call[j] = Idle
  /\ IF j = "test" THEN ~SetupShown ELSE client # 0 /\ ~quiet
  /\ call' = [call EXCEPT ![j] = [token |-> IF j = "test" THEN stored ELSE client,
                                  step |-> "sent"]]
  /\ UNCHANGED <<server, config, client, quiet, ghosts>>

Step(j, step) == call' = [call EXCEPT ![j].step = step]

\* authenticateDevice: a token is good for a device that has its hash and is not revoked.
Authentic(d) == devices[d].hash /\ ~devices[d].revokedAt

\* checkRateLimit: a request is counted, or refused without being counted.
Authenticate(j) ==
  /\ call[j].step = "sent"
  /\ LET d == call[j].token
     IN  \/ ~Authentic(d) /\ Step(j, "unauthorized") /\ UNCHANGED window
         \/ Authentic(d) /\ window[d] = Limit /\ Step(j, "limited") /\ UNCHANGED window
         \/ Authentic(d) /\ window[d] < Limit /\ Step(j, "authenticated")
            /\ window' = [window EXCEPT ![d] = @ + 1]
  /\ UNCHANGED <<devices, pending, shown, config, client, quiet, ghosts>>

\* A window of the limiter ends.
WindowEnds(d) ==
  /\ window[d] > 0
  /\ window' = [window EXCEPT ![d] = 0]
  /\ UNCHANGED <<devices, pending, shown, app, ghosts>>

\* Mutant: the heartbeat is written without its predicate on revokedAt.
TouchHeartbeat_NoPredicate(j) ==
  /\ call[j].step = "authenticated" /\ j # "poll"
  /\ devices' = [devices EXCEPT ![call[j].token].status = "ACTIVE"]
  /\ Step(j, "ok")
  /\ UNCHANGED <<pending, shown, window, config, client, quiet, ghosts>>

\* The device may have been revoked since it was authenticated: the update then finds
\* no row and the phone gets a 404.
TouchHeartbeat(j) ==
  /\ call[j].step = "authenticated" /\ j # "poll"
  /\ LET d == call[j].token
     IN  IF devices[d].revokedAt
         THEN Step(j, "error") /\ UNCHANGED devices
         ELSE /\ devices' = [devices EXCEPT ![d].status = "ACTIVE"]
              /\ Step(j, "ok")
  /\ UNCHANGED <<pending, shown, window, config, client, quiet, ghosts>>

\* The page of QUEUED messages is read for the account of the authentication; one
\* that was revoked since then still gets it.
ListPending ==
  /\ call["poll"].step = "authenticated"
  /\ Step("poll", "ok")
  /\ UNCHANGED <<server, config, client, quiet, ghosts>>

CallLost(j) ==
  /\ call[j].step # "idle" /\ Upset
  /\ Step(j, "error")
  /\ UNCHANGED <<server, config, client, quiet, crossed>>

\* The 401 of a loop stops the service with its loops.
OnRevoked(token) == MarkRevoked(token) /\ StopService

\* Mutant: the 401 of a loop is tried again like an unreachable server.
AnswerUnauthorized_Retried(j) ==
  /\ call[j].step = "unauthorized"
  /\ call' = [call EXCEPT ![j] = Idle]
  /\ UNCHANGED <<server, config, client, quiet, ghosts>>

\* The test button sets the flag too, but leaves the service running.
AnswerUnauthorized(j) ==
  /\ call[j].step = "unauthorized"
  /\ IF j = "test"
     THEN /\ MarkRevoked(call[j].token)
          /\ call' = [call EXCEPT ![j] = Idle]
          /\ UNCHANGED <<client, quiet>>
     ELSE OnRevoked(call[j].token)
  /\ UNCHANGED <<server, stored, upsets>>

\* A loop goes quiet after a 429; everything else just ends the call.
AnswerOther(j) ==
  /\ call[j].step \in {"ok", "limited", "error"}
  /\ quiet' = (quiet \/ (call[j].step = "limited" /\ j # "test"))
  /\ call' = [call EXCEPT ![j] = Idle]
  /\ UNCHANGED <<server, config, client, ghosts>>

-----------------------------------------------------------------------------

Next ==
  \/ \E n \in Numbers : CreateDevice(n)
  \/ \E d \in Ids : \/ SetDeviceTokenHash(d) \/ AnswerToken(d) \/ RegistrationDies(d)
                    \/ RevokeDevice(d) \/ SaveCredentials(d) \/ WindowEnds(d)
  \/ ClearCredentials \/ StopButton \/ StartService \/ StopSelf \/ ProcessDies \/ QuietEnds \/ ListPending
  \/ \E j \in Jobs : \/ Call(j) \/ Authenticate(j) \/ TouchHeartbeat(j) \/ CallLost(j)
                     \/ AnswerUnauthorized(j) \/ AnswerOther(j)

Spec == Init /\ [][Next]_vars

\* Time passes, the loops go on as long as the service runs, and the server answers.
FairSpec ==
  /\ Spec
  /\ WF_vars(QuietEnds) /\ WF_vars(ListPending)
  /\ \A j \in Jobs \ {"test"} : /\ SF_vars(Call(j)) /\ WF_vars(Authenticate(j))
                                /\ WF_vars(TouchHeartbeat(j))
                                /\ WF_vars(AnswerUnauthorized(j)) /\ WF_vars(AnswerOther(j))

-----------------------------------------------------------------------------

\* Revocation is final on the server: no heartbeat that was authenticated before it
\* makes the device ACTIVE again.
RevokedStaysDisabled == \A d \in Ids : devices[d].revokedAt => devices[d].status = "DISABLED"

\* An app that shows "disconnected" holds a token the server refuses - unless a 401
\* about another token came in after new credentials had been entered.
DisconnectedIsTrue ==
  revoked /\ HasCredentials => crossed \/ ~Authentic(stored)

\* The app of a revoked device notices: it does not run with that token for ever.
RevokedAppStops ==
  \A d \in 1..Cardinality(Numbers) :
    (d \in Ids /\ client = d /\ devices[d].revokedAt) ~> (client # d)
=============================================================================
