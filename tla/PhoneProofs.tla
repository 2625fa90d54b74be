----------------------------- MODULE PhoneProofs -----------------------------
(***************************************************************************)
(* The phone: what holds of its registration (Devices) for any numbers,    *)
(* any limit and any number of revocations, credentials entered, lost      *)
(* calls and dead processes; of the messages it sends (AndroidGateway) for *)
(* any number of report handlers, attempts and crashes; and of the queue   *)
(* of what it receives (DeviceInbox) for any SMSs, SIMs, flushes and       *)
(* registrations, and that it implements Relay.  The three are three       *)
(* specifications, next to each other.                                     *)
(***************************************************************************)
EXTENDS Devices, AndroidGateway, DeviceInbox, FiniteSetTheorems, SequenceTheorems, TLAPS

USE DEF server, config, app, ghosts

Row    == [number : Numbers, status : {"ACTIVE", "DISABLED"}, revokedAt : BOOLEAN, hash : BOOLEAN]
Steps  == {"idle", "sent", "authenticated", "ok", "unauthorized", "limited", "error"}
Answers == [token : {0} \cup Ids, step : Steps]

\* The tokens the phone holds are those an administrator was shown, and those are
\* hashed in the table.
TokensOK ==
  /\ \A d \in shown : devices[d].hash
  /\ stored \in {0} \cup shown /\ client \in {0} \cup shown
  /\ \A j \in Jobs : call[j].step # "idle" => call[j].token \in shown

-----------------------------------------------------------------------------
(* The rows of the server                                                     *)

RowsOK ==
  /\ devices \in Seq(Row)
  /\ window \in Seq(0..Limit) /\ Len(window) = Len(devices)
  /\ pending \subseteq Ids /\ shown \subseteq Ids
  /\ call \in [Jobs -> Answers]

\* Rows are never deleted, and none is born revoked; a number, a token hash and a
\* revocation are for good; what is revoked is DISABLED at once and stays so.
DevicesKept ==
  /\ Ids \subseteq Ids' /\ \A d \in Ids' \ Ids : devices'[d].revokedAt = FALSE
  /\ \A d \in Ids : /\ devices'[d].number = devices[d].number
                    /\ devices[d].hash => devices'[d].hash
                    /\ devices[d].revokedAt => devices'[d].revokedAt
                    /\ devices[d].revokedAt /\ devices[d].status = "DISABLED"
                         => devices'[d].status = "DISABLED"
                    /\ devices'[d].revokedAt
                         => devices[d].revokedAt \/ devices'[d].status = "DISABLED"

\* The four writers of the table, one by one.
LEMMA CreateRow ==
  ASSUME RowsOK, NEW n \in Numbers, CreateDevice(n)
  PROVE  /\ devices' \in Seq(Row) /\ DevicesKept /\ Len(devices') = Len(devices) + 1
         /\ devices'[Len(devices) + 1]
              = [number |-> n, status |-> "ACTIVE", revokedAt |-> FALSE, hash |-> FALSE]
BY DEF RowsOK, CreateDevice, DevicesKept, Ids, Row

LEMMA WriteRow ==
  ASSUME RowsOK, NEW d \in Ids,
         \/ SetDeviceTokenHash(d) \/ RevokeDevice(d)
         \/ /\ ~devices[d].revokedAt
            /\ devices' = [devices EXCEPT ![d].status = "ACTIVE"]
  PROVE  devices' \in Seq(Row) /\ DevicesKept /\ Len(devices') = Len(devices)
<1>0. devices[d] \in Row /\ Ids = 1..Len(devices) /\ \A c \in Ids : devices[c] \in Row
  BY DEF RowsOK, Ids
<1>a. ASSUME NEW e \in Row, devices' = [devices EXCEPT ![d] = e], e.number = devices[d].number,
             devices[d].hash => e.hash, devices[d].revokedAt => e.revokedAt,
             devices[d].revokedAt /\ devices[d].status = "DISABLED" => e.status = "DISABLED",
             e.revokedAt => devices[d].revokedAt \/ e.status = "DISABLED"
      PROVE  devices' \in Seq(Row) /\ DevicesKept /\ Len(devices') = Len(devices)
  <2>1. devices' \in Seq(Row) /\ Len(devices') = Len(devices)
    BY <1>a DEF RowsOK, Ids
  <2>2. \A c \in Ids : devices'[c] = IF c = d THEN e ELSE devices[c]
    BY <1>a DEF RowsOK, Ids
  <2>3. Ids' = Ids
    BY <2>1 DEF Ids
  <2> QED BY <1>a, <2>1, <2>2, <2>3 DEF DevicesKept
<1>1. CASE SetDeviceTokenHash(d)
  <2>1. [devices[d] EXCEPT !.hash = TRUE] \in Row
    BY <1>0 DEF Row
  <2>2. devices' = [devices EXCEPT ![d] = [devices[d] EXCEPT !.hash = TRUE]]
    BY <1>1 DEF SetDeviceTokenHash
  <2> QED BY <1>0, <2>1, <2>2, <1>a DEF Row
<1>2. CASE RevokeDevice(d)
  <2> DEFINE e == [devices[d] EXCEPT !.revokedAt = TRUE, !.status = "DISABLED"]
  <2>1. e \in Row
    BY <1>0 DEF Row
  <2>2. devices' = [devices EXCEPT ![d] = e]
    BY <1>2, <1>0 DEF RevokeDevice, RowsOK
  <2> QED BY <1>0, <2>1, <2>2, <1>a DEF Row
<1>3. CASE /\ ~devices[d].revokedAt
           /\ devices' = [devices EXCEPT ![d].status = "ACTIVE"]
  <2>1. [devices[d] EXCEPT !.status = "ACTIVE"] \in Row
    BY <1>0 DEF Row
  <2>2. devices' = [devices EXCEPT ![d] = [devices[d] EXCEPT !.status = "ACTIVE"]]
    BY <1>3
  <2> QED BY <1>0, <1>3, <2>1, <2>2, <1>a DEF Row
<1> QED BY <1>1, <1>2, <1>3

\* Every step keeps the tables and the calls in their types, and what is kept.
LEMMA RowsStep == RowsOK /\ TokensOK /\ [Next]_vars => RowsOK' /\ DevicesKept
<1> SUFFICES ASSUME RowsOK, TokensOK, [Next]_vars PROVE RowsOK' /\ DevicesKept
  OBVIOUS
<1>0. Len(devices) \in Nat /\ Limit \in Nat /\ Ids = 1..Len(devices)
  BY DevicesAssumption DEF RowsOK, Ids
\* Steps that leave the tables alone.
<1>a. ASSUME UNCHANGED devices PROVE DevicesKept /\ Ids' = Ids
  BY <1>a DEF DevicesKept, Ids
<1>b. ASSUME UNCHANGED <<devices, window, pending, shown>>, call' \in [Jobs -> Answers]
      PROVE  RowsOK' /\ DevicesKept
  BY <1>b, <1>a DEF RowsOK, Answers
<1>c. ASSUME Ids' = Ids PROVE Answers' = Answers
  BY <1>c DEF Answers
<1>1. ASSUME NEW n \in Numbers, CreateDevice(n) PROVE RowsOK' /\ DevicesKept
  <2>1. devices' \in Seq(Row) /\ DevicesKept /\ Len(devices') = Len(devices) + 1
    BY <1>1, CreateRow
  <2>2. window' \in Seq(0..Limit) /\ Len(window') = Len(devices')
    BY <1>0, <1>1, <2>1 DEF CreateDevice, RowsOK
  <2>3. Ids' = Ids \cup {Len(devices) + 1}
    BY <1>0, <2>1 DEF Ids
  <2>4. call' \in [Jobs -> Answers']
    BY <1>1, <2>3 DEF CreateDevice, RowsOK, Answers
  <2> QED BY <1>1, <2>1, <2>2, <2>3, <2>4 DEF CreateDevice, RowsOK
<1>2. ASSUME NEW d \in Ids, SetDeviceTokenHash(d) \/ RevokeDevice(d) PROVE RowsOK' /\ DevicesKept
  <2>1. devices' \in Seq(Row) /\ DevicesKept /\ Len(devices') = Len(devices)
    BY <1>2, WriteRow
  <2>2. Ids' = Ids
    BY <2>1 DEF Ids
  <2> QED BY <1>2, <1>c, <2>1, <2>2 DEF SetDeviceTokenHash, RevokeDevice, RowsOK
<1>3. ASSUME NEW d \in Ids, AnswerToken(d) \/ RegistrationDies(d) \/ WindowEnds(d)
      PROVE  RowsOK' /\ DevicesKept
  <2>1. CASE AnswerToken(d) \/ RegistrationDies(d)
    <3>1. UNCHANGED <<devices, window, call>> /\ pending' \subseteq Ids /\ shown' \subseteq Ids
      BY <2>1 DEF AnswerToken, RegistrationDies, RowsOK
    <3> QED BY <3>1, <1>a, <1>c DEF RowsOK
  <2>2. CASE WindowEnds(d)
    <3>1. window' \in Seq(0..Limit) /\ Len(window') = Len(window)
      BY <2>2, <1>0, ExceptSeq DEF WindowEnds, RowsOK
    <3> QED BY <2>2, <3>1, <1>a, <1>c DEF WindowEnds, RowsOK
  <2> QED BY <1>3, <2>1, <2>2
<1>4. ASSUME NEW d \in Ids, SaveCredentials(d) PROVE RowsOK' /\ DevicesKept
  BY <1>4, <1>b DEF SaveCredentials, RowsOK
<1>d. Idle \in Answers /\ \A j \in Jobs : call[j] \in Answers
  BY DEF Idle, Answers, Steps, RowsOK
<1>e. ASSUME StopService, UNCHANGED <<devices, window, pending, shown>> PROVE RowsOK' /\ DevicesKept
  BY <1>b, <1>d, <1>e DEF StopService
<1>5. CASE ClearCredentials \/ StopButton \/ StopSelf
  BY <1>5, <1>e DEF ClearCredentials, StopButton, StopSelf
<1>6. CASE StartService \/ QuietEnds
  BY <1>6, <1>b DEF StartService, QuietEnds, RowsOK
<1>7. CASE ProcessDies
  <2>1. call' \in [Jobs -> Answers]
    BY <1>7, <1>d DEF ProcessDies
  <2> QED BY <1>7, <2>1, <1>b DEF ProcessDies
\* Steps of one call.
<1>f. ASSUME NEW j \in Jobs, NEW step \in Steps, Step(j, step) PROVE call' \in [Jobs -> Answers]
  BY <1>f, <1>d DEF Step, RowsOK, Answers
<1>8. CASE ListPending
  BY <1>8, <1>b, <1>f DEF ListPending, Jobs, Steps
<1>9. ASSUME NEW j \in Jobs, Call(j) PROVE RowsOK' /\ DevicesKept
  BY <1>9, <1>b DEF Call, RowsOK, TokensOK, Answers, Steps
<1>10. ASSUME NEW j \in Jobs, Authenticate(j) PROVE RowsOK' /\ DevicesKept
  <2>1. call' \in [Jobs -> Answers] /\ UNCHANGED <<devices, pending, shown>>
    BY <1>10, <1>f DEF Authenticate, Steps
  <2>2. window' \in Seq(0..Limit) /\ Len(window') = Len(window)
    <3>1. CASE UNCHANGED window
      BY <3>1 DEF RowsOK
    <3>2. CASE window[call[j].token] < Limit
               /\ window' = [window EXCEPT ![call[j].token] = @ + 1]
      <4>1. call[j].token \in 1..Len(window)
        BY <1>10, <1>0 DEF Authenticate, TokensOK, RowsOK
      <4>2. window[call[j].token] + 1 \in 0..Limit
        BY <3>2, <4>1, <1>0, ElementOfSeq DEF RowsOK
      <4> QED BY <3>2, <4>1, <4>2, ExceptSeq DEF RowsOK
    <3> QED BY <1>10, <3>1, <3>2 DEF Authenticate
  <2> QED BY <2>1, <2>2, <1>a, <1>c DEF RowsOK
<1>11. ASSUME NEW j \in Jobs, TouchHeartbeat(j) PROVE RowsOK' /\ DevicesKept
  <2>1. call' \in [Jobs -> Answers]
    BY <1>11, <1>f DEF TouchHeartbeat, Steps
  <2>2. CASE UNCHANGED devices
    BY <2>1, <2>2, <1>11, <1>b DEF TouchHeartbeat
  <2>3. CASE /\ ~devices[call[j].token].revokedAt
             /\ devices' = [devices EXCEPT ![call[j].token].status = "ACTIVE"]
    <3>1. call[j].token \in Ids
      BY <1>11 DEF TouchHeartbeat, TokensOK, RowsOK
    <3>2. devices' \in Seq(Row) /\ DevicesKept /\ Len(devices') = Len(devices)
      BY <2>3, <3>1, WriteRow
    <3>3. Ids' = Ids
      BY <3>2 DEF Ids
    <3> QED BY <1>11, <1>c, <2>1, <3>2, <3>3 DEF TouchHeartbeat, RowsOK
  <2>4. \/ UNCHANGED devices
        \/ /\ ~devices[call[j].token].revokedAt
           /\ devices' = [devices EXCEPT ![call[j].token].status = "ACTIVE"]
    BY <1>11, Zenon DEF TouchHeartbeat
  <2> QED BY <2>2, <2>3, <2>4
<1>12. ASSUME NEW j \in Jobs, CallLost(j) PROVE RowsOK' /\ DevicesKept
  BY <1>12, <1>b, <1>f DEF CallLost, Steps
<1>13. ASSUME NEW j \in Jobs, AnswerUnauthorized(j) \/ AnswerOther(j) PROVE RowsOK' /\ DevicesKept
  BY <1>13, <1>b, <1>d, <1>e DEF AnswerUnauthorized, AnswerOther, OnRevoked, RowsOK
<1>14. CASE UNCHANGED vars
  BY <1>14, <1>b DEF vars, RowsOK
<1> QED
  BY <1>1, <1>2, <1>3, <1>4, <1>5, <1>6, <1>7, <1>8, <1>9, <1>10, <1>11, <1>12, <1>13,
     <1>14 DEF Next

\* Tokens come from what an administrator saw, and that was hashed before.
LEMMA TokensStep == RowsOK /\ TokensOK /\ [Next]_vars => TokensOK'
<1> SUFFICES ASSUME RowsOK, TokensOK, [Next]_vars PROVE TokensOK'
  OBVIOUS
<1>0. /\ DevicesKept /\ shown \subseteq Ids /\ call \in [Jobs -> Answers]
  BY RowsStep DEF RowsOK
<1> USE DEF TokensOK
<1>a. ASSUME shown' = shown, UNCHANGED <<stored, client, call>> PROVE TokensOK'
  BY <1>0, <1>a DEF DevicesKept
<1>b. ASSUME shown' = shown, stored' \in {0} \cup shown, client' \in {0} \cup shown,
             \A j \in Jobs : call'[j] \in {Idle, call[j]}
      PROVE  TokensOK'
  BY <1>0, <1>b DEF DevicesKept, Idle
<1>c. ASSUME NEW j \in Jobs, NEW step \in Steps, call[j].step # "idle", Step(j, step),
             shown' = shown, UNCHANGED <<stored, client>>
      PROVE  TokensOK'
  BY <1>0, <1>c DEF DevicesKept, Step, Answers
<1>1. ASSUME NEW n \in Numbers, CreateDevice(n) PROVE TokensOK'
  BY <1>1, <1>a DEF CreateDevice
<1>2. ASSUME NEW d \in Ids, \/ SetDeviceTokenHash(d) \/ RegistrationDies(d) \/ RevokeDevice(d)
                            \/ WindowEnds(d)
      PROVE  TokensOK'
  BY <1>2, <1>a DEF SetDeviceTokenHash, RegistrationDies, RevokeDevice, WindowEnds
<1>3. ASSUME NEW d \in Ids, AnswerToken(d) PROVE TokensOK'
  BY <1>3, <1>0 DEF AnswerToken
<1>4. ASSUME NEW d \in Ids, SaveCredentials(d) PROVE TokensOK'
  BY <1>4, <1>b DEF SaveCredentials, SaveToken
<1>5. CASE ClearCredentials \/ StopButton \/ StopSelf \/ ProcessDies
  BY <1>5, <1>b DEF ClearCredentials, ClearToken, StopButton, StopSelf, ProcessDies, StopService
<1>6. CASE StartService \/ QuietEnds
  BY <1>6, <1>b DEF StartService, QuietEnds
<1>7. CASE ListPending
  BY <1>7, <1>c DEF ListPending, Jobs, Steps
<1>8. ASSUME NEW j \in Jobs, Call(j) PROVE TokensOK'
  <2>1. (IF j = "test" THEN stored ELSE client) \in shown
    BY <1>8 DEF Call, SetupShown, HasCredentials
  <2> QED BY <1>8, <1>0, <2>1 DEF Call
<1>9. ASSUME NEW j \in Jobs, Authenticate(j) \/ TouchHeartbeat(j) \/ CallLost(j)
      PROVE  TokensOK'
  <2>1. \E step \in Steps : call[j].step # "idle" /\ Step(j, step)
    BY <1>9 DEF Authenticate, TouchHeartbeat, CallLost, Steps
  <2>2. shown' = shown /\ UNCHANGED <<stored, client>>
    BY <1>9 DEF Authenticate, TouchHeartbeat, CallLost
  <2> QED BY <1>c, <2>1, <2>2
<1>10. ASSUME NEW j \in Jobs, AnswerUnauthorized(j) \/ AnswerOther(j) PROVE TokensOK'
  BY <1>10, <1>0, <1>b DEF AnswerUnauthorized, AnswerOther, OnRevoked, StopService
<1>11. CASE UNCHANGED vars
  BY <1>11, <1>a DEF vars
<1> QED
  BY <1>1, <1>2, <1>3, <1>4, <1>5, <1>6, <1>7, <1>8, <1>9, <1>10, <1>11 DEF Next

LEMMA RowsInvariant == Spec => [](RowsOK /\ TokensOK)
<1>1. Init => RowsOK /\ TokensOK
  <2> SUFFICES ASSUME Init PROVE RowsOK /\ TokensOK
    OBVIOUS
  <2>1. devices = <<>> /\ window = <<>> /\ Ids = {} /\ Limit \in Nat
    BY DevicesAssumption DEF Init, Ids
  <2>2. devices \in Seq(Row) /\ window \in Seq(0..Limit) /\ Len(window) = Len(devices)
    BY <2>1
  <2>3. call \in [Jobs -> Answers]
    BY DEF Init, Idle, Answers, Steps
  <2> QED BY <2>2, <2>3 DEF Init, RowsOK, TokensOK, Idle
<1> QED BY <1>1, RowsStep, TokensStep, PTL DEF Spec

\* No heartbeat that was authenticated before a revocation makes the device ACTIVE
\* again afterwards.
THEOREM RevocationIsFinal == Spec => []RevokedStaysDisabled
<1>1. Init => RevokedStaysDisabled
  BY DEF Init, RevokedStaysDisabled, Ids
<1>2. RowsOK /\ TokensOK /\ RevokedStaysDisabled /\ [Next]_vars => RevokedStaysDisabled'
  <2> SUFFICES ASSUME RowsOK, TokensOK, RevokedStaysDisabled, [Next]_vars
               PROVE  RevokedStaysDisabled'
    OBVIOUS
  <2>1. DevicesKept
    BY RowsStep
  <2> QED BY <2>1 DEF DevicesKept, RevokedStaysDisabled
<1> QED BY <1>1, <1>2, RowsInvariant, PTL DEF Spec

-----------------------------------------------------------------------------
(* What the app says                                                          *)

\* A 401 on its way is about a token that is refused for good.
RefusedInv == \A j \in Jobs : call[j].step = "unauthorized" => ~Authentic(call[j].token)

LEMMA RefusedForGood ==
  ASSUME RowsOK, TokensOK, [Next]_vars, NEW d \in shown, ~Authentic(d)
  PROVE  ~(devices'[d].hash /\ ~devices'[d].revokedAt)
<1>1. DevicesKept /\ shown \subseteq Ids
  BY RowsStep DEF RowsOK
<1> QED BY <1>1 DEF DevicesKept, TokensOK, Authentic

LEMMA RefusedStep == RowsOK /\ TokensOK /\ RefusedInv /\ [Next]_vars => RefusedInv'
<1> SUFFICES ASSUME RowsOK, TokensOK, RefusedInv, [Next]_vars PROVE RefusedInv'
  OBVIOUS
<1>0. call \in [Jobs -> Answers]
  BY DEF RowsOK
\* Steps that end calls or leave them alone, and the step of one call.
<1>a. ASSUME \A j \in Jobs : call'[j] \in {Idle, call[j]} PROVE RefusedInv'
  <2> SUFFICES ASSUME NEW j \in Jobs, call'[j].step = "unauthorized"
               PROVE  ~Authentic(call[j].token)'
    BY DEF RefusedInv
  <2>1. call'[j] = call[j] /\ call[j].token \in shown
    BY <1>a DEF Idle, TokensOK
  <2>2. ~Authentic(call[j].token)
    BY <2>1 DEF RefusedInv
  <2>3. ~(devices'[call[j].token].hash /\ ~devices'[call[j].token].revokedAt)
    BY <2>1, <2>2, RefusedForGood
  <2> QED BY <2>1, <2>3 DEF Authentic
<1>b. ASSUME NEW j \in Jobs, \A k \in Jobs \ {j} : call'[k] = call[k],
             call'[j].step # "unauthorized"
      PROVE  RefusedInv'
  <2> SUFFICES ASSUME NEW k \in Jobs, call'[k].step = "unauthorized"
               PROVE  ~Authentic(call[k].token)'
    BY DEF RefusedInv
  <2>1. call'[k] = call[k] /\ call[k].token \in shown
    BY <1>b DEF TokensOK
  <2>2. ~Authentic(call[k].token)
    BY <2>1 DEF RefusedInv
  <2>3. ~(devices'[call[k].token].hash /\ ~devices'[call[k].token].revokedAt)
    BY <2>1, <2>2, RefusedForGood
  <2> QED BY <2>1, <2>3 DEF Authentic
<1>1. ASSUME UNCHANGED call PROVE RefusedInv'
  BY <1>1, <1>a
<1>2. CASE ClearCredentials \/ StopButton \/ StopSelf \/ ProcessDies
  BY <1>2, <1>a DEF ClearCredentials, StopButton, StopSelf, ProcessDies, StopService
<1>3. CASE StartService \/ QuietEnds \/ UNCHANGED vars
  BY <1>3, <1>1 DEF StartService, QuietEnds, vars
<1>4. ASSUME NEW n \in Numbers, CreateDevice(n) PROVE RefusedInv'
  BY <1>4, <1>1 DEF CreateDevice
<1>5. ASSUME NEW d \in Ids, \/ SetDeviceTokenHash(d) \/ AnswerToken(d) \/ RegistrationDies(d)
                            \/ RevokeDevice(d) \/ SaveCredentials(d) \/ WindowEnds(d)
      PROVE  RefusedInv'
  BY <1>5, <1>1 DEF SetDeviceTokenHash, AnswerToken, RegistrationDies, RevokeDevice,
                    SaveCredentials, WindowEnds
<1>6. ASSUME NEW j \in Jobs, Authenticate(j) PROVE RefusedInv'
  <2>1. CASE ~Authentic(call[j].token) /\ Step(j, "unauthorized")
    <3>1. UNCHANGED devices
      BY <1>6 DEF Authenticate
    <3>2. \A k \in Jobs : call'[k].token = call[k].token
      BY <1>0, <2>1 DEF Step, Answers
    <3>3. \A k \in Jobs \ {j} : call'[k] = call[k]
      BY <1>0, <2>1 DEF Step, Answers
    <3> QED BY <2>1, <3>1, <3>2, <3>3 DEF RefusedInv, Authentic
  <2>2. CASE \E step \in {"limited", "authenticated"} : Step(j, step)
    BY <1>0, <1>b, <2>2 DEF Step, Answers
  <2> QED BY <1>6, <2>1, <2>2 DEF Authenticate
<1>7. ASSUME NEW j \in Jobs, \/ Call(j) \/ TouchHeartbeat(j) \/ CallLost(j)
                             \/ AnswerUnauthorized(j) \/ AnswerOther(j)
      PROVE  RefusedInv'
  <2>1. CASE Call(j)
    BY <1>0, <1>b, <2>1 DEF Call, Answers
  <2>2. CASE TouchHeartbeat(j) \/ CallLost(j)
    <3>1. PICK step \in {"ok", "error"} : Step(j, step)
      BY <2>2 DEF TouchHeartbeat, CallLost
    <3> QED BY <1>0, <1>b, <3>1 DEF Step, Answers
  <2>3. CASE AnswerUnauthorized(j) \/ AnswerOther(j)
    BY <1>0, <1>a, <2>3 DEF AnswerUnauthorized, AnswerOther, OnRevoked, StopService
  <2> QED BY <1>7, <2>1, <2>2, <2>3
<1>8. CASE ListPending
  BY <1>0, <1>8, <1>b DEF ListPending, Step, Jobs, Answers
<1> QED BY <1>2, <1>3, <1>4, <1>5, <1>6, <1>7, <1>8 DEF Next

\* Whoever reads "disconnected" on the phone holds a token that is refused, unless a
\* 401 about an earlier token came in late.
THEOREM DisconnectedTruly == Spec => []DisconnectedIsTrue
<1>1. Init => RefusedInv /\ DisconnectedIsTrue
  BY DEF Init, RefusedInv, DisconnectedIsTrue, Idle, HasCredentials
<1>2. RowsOK /\ TokensOK /\ RefusedInv /\ DisconnectedIsTrue /\ [Next]_vars => DisconnectedIsTrue'
  <2> SUFFICES ASSUME RowsOK, TokensOK, RefusedInv, DisconnectedIsTrue, [Next]_vars
               PROVE  DisconnectedIsTrue'
    OBVIOUS
  <2>a. ASSUME UNCHANGED <<stored, revoked, crossed>> PROVE DisconnectedIsTrue'
    <3>1. stored = 0 \/ stored \in shown
      BY DEF TokensOK
    <3>2. stored # 0 /\ ~Authentic(stored)
            => ~(devices'[stored].hash /\ ~devices'[stored].revokedAt)
      BY <3>1, RefusedForGood
    <3>3. stored' # 0 /\ ~Authentic(stored) => ~Authentic(stored)'
      BY <2>a, <3>2, Zenon DEF Authentic
    <3> QED BY <2>a, <3>3, Zenon DEF DisconnectedIsTrue, HasCredentials
  <2>b. ASSUME ~revoked' PROVE DisconnectedIsTrue'
    BY <2>b, Zenon DEF DisconnectedIsTrue
  <2>1. CASE (\E d \in Ids : SaveCredentials(d)) \/ ClearCredentials
    BY <2>1, <2>b DEF SaveCredentials, SaveToken, ClearCredentials, ClearToken
  <2>2. ASSUME NEW j \in Jobs, AnswerUnauthorized(j) PROVE DisconnectedIsTrue'
    <3>1. stored' = stored /\ UNCHANGED devices
      BY <2>2 DEF AnswerUnauthorized
    <3>2. ~Authentic(call[j].token)
      BY <2>2 DEF AnswerUnauthorized, RefusedInv
    <3>3. crossed' \/ call[j].token = stored
      BY <2>2, Zenon DEF AnswerUnauthorized, OnRevoked, MarkRevoked
    <3>4. crossed' \/ ~Authentic(stored)
      BY <3>2, <3>3, Zenon
    <3> QED BY <3>1, <3>4, Zenon DEF DisconnectedIsTrue, Authentic
  <2>3. ASSUME NEW n \in Numbers, CreateDevice(n) PROVE DisconnectedIsTrue'
    BY <2>3, <2>a DEF CreateDevice
  <2>4. ASSUME NEW d \in Ids, \/ SetDeviceTokenHash(d) \/ AnswerToken(d) \/ RegistrationDies(d)
                              \/ RevokeDevice(d) \/ WindowEnds(d)
        PROVE  DisconnectedIsTrue'
    BY <2>4, <2>a DEF SetDeviceTokenHash, AnswerToken, RegistrationDies, RevokeDevice, WindowEnds
  <2>5. CASE StopButton \/ StopSelf \/ ProcessDies \/ StartService \/ QuietEnds \/ ListPending
             \/ UNCHANGED vars
    BY <2>5, <2>a DEF StopButton, StopSelf, ProcessDies, StartService, QuietEnds, ListPending, vars
  <2>6. ASSUME NEW j \in Jobs, \/ Call(j) \/ Authenticate(j) \/ TouchHeartbeat(j) \/ CallLost(j)
                               \/ AnswerOther(j)
        PROVE  DisconnectedIsTrue'
    BY <2>6, <2>a DEF Call, Authenticate, TouchHeartbeat, CallLost, AnswerOther
  <2> QED BY <2>1, <2>2, <2>3, <2>4, <2>5, <2>6 DEF Next
<1> QED BY <1>1, <1>2, RefusedStep, RowsInvariant, PTL DEF Spec
-----------------------------------------------------------------------------
(* What TypeOK adds: the flags, and one device for a number.                  *)

FlagsOK ==
  /\ revoked \in BOOLEAN /\ quiet \in BOOLEAN /\ crossed \in BOOLEAN
  /\ upsets \in 0..MaxUpsets

OneDeviceEach == \A c, d \in Ids : devices[c].number = devices[d].number => c = d

\* Rows are only added by a registration.
LEMMA NoOtherRows ==
  ASSUME RowsOK, TokensOK, [Next]_vars
  PROVE  Len(devices') = Len(devices) \/ \E n \in Numbers : CreateDevice(n)
<1>1. ASSUME NEW d \in Ids, SetDeviceTokenHash(d) \/ RevokeDevice(d)
      PROVE  Len(devices') = Len(devices)
  BY <1>1, WriteRow
<1>2. ASSUME NEW j \in Jobs, TouchHeartbeat(j) PROVE Len(devices') = Len(devices)
  <2>1. call[j].token \in Ids
    BY <1>2 DEF TouchHeartbeat, TokensOK, RowsOK
  <2>2. \/ UNCHANGED devices
        \/ /\ ~devices[call[j].token].revokedAt
           /\ devices' = [devices EXCEPT ![call[j].token].status = "ACTIVE"]
    BY <1>2, Zenon DEF TouchHeartbeat
  <2> QED BY <2>1, <2>2, WriteRow
<1>3. CASE \E d \in Ids : \/ AnswerToken(d) \/ RegistrationDies(d) \/ SaveCredentials(d)
                          \/ WindowEnds(d)
  BY <1>3 DEF AnswerToken, RegistrationDies, SaveCredentials, WindowEnds
<1>4. CASE \/ ClearCredentials \/ StopButton \/ StartService \/ StopSelf \/ ProcessDies
           \/ QuietEnds \/ ListPending
  BY <1>4 DEF ClearCredentials, StopButton, StartService, StopSelf, ProcessDies, QuietEnds,
     ListPending
<1>5. CASE \E j \in Jobs : Call(j) \/ Authenticate(j) \/ CallLost(j) \/ AnswerUnauthorized(j)
                           \/ AnswerOther(j)
  BY <1>5 DEF Call, Authenticate, CallLost, AnswerUnauthorized, AnswerOther
<1>6. CASE UNCHANGED vars
  BY <1>6 DEF vars
<1> QED BY <1>1, <1>2, <1>3, <1>4, <1>5, <1>6 DEF Next

LEMMA NumbersStep ==
  ASSUME RowsOK, TokensOK, OneDeviceEach, [Next]_vars PROVE OneDeviceEach'
<1>1. DevicesKept /\ Len(devices) \in Nat /\ Len(devices') \in Nat
  BY RowsStep DEF RowsOK
<1>2. CASE Len(devices') = Len(devices)
  <2>1. Ids' = Ids /\ \A d \in Ids : devices'[d].number = devices[d].number
    BY <1>1, <1>2 DEF DevicesKept, Ids
  <2> QED BY <2>1 DEF OneDeviceEach
<1>3. ASSUME NEW n \in Numbers, CreateDevice(n) PROVE OneDeviceEach'
  <2>0. /\ Len(devices') = Len(devices) + 1
        /\ devices'[Len(devices) + 1]
             = [number |-> n, status |-> "ACTIVE", revokedAt |-> FALSE, hash |-> FALSE]
    BY <1>3, CreateRow
  <2>1. /\ Ids' = Ids \cup {Len(devices) + 1}
        /\ devices'[Len(devices) + 1].number = n
    <3>1. Ids' = Ids \cup {Len(devices) + 1}
      BY <1>1, <2>0 DEF Ids
    <3> QED BY <2>0, <3>1
  <2>2. \A d \in Ids : devices'[d].number = devices[d].number /\ devices[d].number # n
    BY <1>1, <1>3 DEF CreateDevice, DevicesKept
  <2> QED BY <2>1, <2>2 DEF OneDeviceEach
<1> QED BY <1>2, <1>3, NoOtherRows

LEMMA FlagsStep == ASSUME FlagsOK, RowsOK, [Next]_vars PROVE FlagsOK'
<1>0. MaxUpsets \in Nat
  BY DevicesAssumption
<1> USE DEF FlagsOK
<1>1. ASSUME Upset PROVE upsets' \in 0..MaxUpsets
  BY <1>0, <1>1 DEF Upset
<1>2. CASE \E n \in Numbers : CreateDevice(n)
  BY <1>2 DEF CreateDevice
<1>3. CASE \E d \in Ids : SetDeviceTokenHash(d) \/ AnswerToken(d) \/ WindowEnds(d)
  BY <1>3 DEF SetDeviceTokenHash, AnswerToken, WindowEnds
<1>4. CASE \E d \in Ids : RegistrationDies(d) \/ RevokeDevice(d) \/ SaveCredentials(d)
  BY <1>1, <1>4 DEF RegistrationDies, RevokeDevice, SaveCredentials, SaveToken
<1>5. CASE ClearCredentials \/ ProcessDies
  BY <1>1, <1>5 DEF ClearCredentials, ClearToken, StopService, ProcessDies
<1>6. CASE StopButton \/ StartService \/ StopSelf \/ QuietEnds \/ ListPending
  BY <1>6 DEF StopButton, StartService, StopSelf, StopService, QuietEnds, ListPending
<1>7. ASSUME NEW j \in Jobs, Call(j) \/ Authenticate(j) \/ TouchHeartbeat(j) PROVE FlagsOK'
  BY <1>7 DEF Call, Authenticate, TouchHeartbeat
<1>8. ASSUME NEW j \in Jobs, CallLost(j) PROVE FlagsOK'
  BY <1>1, <1>8 DEF CallLost
<1>9. ASSUME NEW j \in Jobs, AnswerUnauthorized(j) PROVE FlagsOK'
  <2>1. MarkRevoked(call[j].token) /\ (quiet' = quiet \/ quiet' = FALSE) /\ upsets' = upsets
    BY <1>9 DEF AnswerUnauthorized, OnRevoked, StopService
  <2>2. revoked' \in BOOLEAN /\ crossed' \in BOOLEAN
    BY <2>1, Zenon DEF MarkRevoked
  <2> QED BY <2>1, <2>2
<1>10. ASSUME NEW j \in Jobs, AnswerOther(j) PROVE FlagsOK'
  <2>1. UNCHANGED <<revoked, crossed, upsets>>
    BY <1>10 DEF AnswerOther
  <2>2. quiet' \in BOOLEAN
    BY <1>10, Zenon DEF AnswerOther
  <2> QED BY <2>1, <2>2
<1>11. CASE UNCHANGED vars
  BY <1>11 DEF vars
<1> QED
  BY <1>2, <1>3, <1>4, <1>5, <1>6, <1>7, <1>8, <1>9, <1>10, <1>11 DEF Next

\* The devices, the tokens and the calls are well-formed, and a phone number is registered
\* once, revoked or not.
THEOREM DevicesTypeCorrect == Spec => []TypeOK
<1>1. RowsOK /\ TokensOK /\ OneDeviceEach /\ FlagsOK => TypeOK
  <2> SUFFICES ASSUME RowsOK, TokensOK, OneDeviceEach, FlagsOK PROVE TypeOK
    OBVIOUS
  <2>1. window \in [Ids -> 0..Limit]
    BY LenProperties DEF RowsOK, Ids
  <2>2. stored \in {0} \cup Ids /\ client \in {0} \cup Ids
    BY DEF RowsOK, TokensOK
  <2>3. /\ devices \in Seq(Row) /\ pending \subseteq Ids /\ shown \subseteq Ids
        /\ call \in [Jobs -> Answers]
    BY DEF RowsOK
  <2>4. revoked \in BOOLEAN /\ quiet \in BOOLEAN /\ crossed \in BOOLEAN /\ upsets \in 0..MaxUpsets
    BY DEF FlagsOK
  <2> QED BY <2>1, <2>2, <2>3, <2>4 DEF OneDeviceEach, TypeOK, Row, Answers, Steps
<1>2. Init => OneDeviceEach /\ FlagsOK
  <2>1. MaxUpsets \in Nat
    BY DevicesAssumption
  <2> SUFFICES ASSUME Init PROVE OneDeviceEach /\ FlagsOK
    OBVIOUS
  <2>2. Ids = {}
    BY DEF Init, Ids
  <2>3. revoked = FALSE /\ quiet = FALSE /\ crossed = FALSE /\ upsets = 0
    BY DEF Init
  <2>4. revoked \in BOOLEAN /\ quiet \in BOOLEAN /\ crossed \in BOOLEAN
    BY <2>3
  <2>5. upsets \in 0..MaxUpsets
    BY <2>1, <2>3
  <2>6. FlagsOK
    BY <2>4, <2>5 DEF FlagsOK
  <2> QED BY <2>2, <2>6 DEF OneDeviceEach
<1>3. RowsOK /\ TokensOK /\ OneDeviceEach /\ FlagsOK /\ [Next]_vars
        => OneDeviceEach' /\ FlagsOK'
  BY NumbersStep, FlagsStep
<1> QED BY <1>1, <1>2, <1>3, RowsInvariant, PTL DEF Spec

-----------------------------------------------------------------------------
(* The messages the phone sends: GatewaySpec.                                 *)
\* What AndroidGateway assumes of its constants.
Bounds == NoHandler \notin Handlers /\ MaxAttempts \in Nat \ {0} /\ MaxCrashes \in Nat

LEMMA BoundsHold == Bounds
BY GatewayHandlersAssumption, GatewayAttemptsAssumption, MaxCrashesAssumption DEF Bounds

Asked == {"flushing", "reporting"}

\* What holds of the calls between phone and server, whatever is lost.
CallsInv ==
  /\ GatewayTypeOK
  /\ waiting # NoHandler <=> dpc \in Asked
  /\ dpc = "report" => tries < MaxTries
  /\ dpc \in {"report", "reporting"} => report \in Outcome
  /\ status = "QUEUED" => worker = "idle"

\* Wherever an acknowledgement is, an SMS has left the phone before it.
SmsInv ==
  /\ status = "SENT" => copies > 0
  /\ report = "ACKNOWLEDGE" => copies > 0
  /\ entry = "ACKNOWLEDGE" => copies > 0
  /\ \A h \in Handlers : pc[h] \in {"ack", "ackWrite"} => copies > 0

\* As long as every outcome was reported and every report answered, the only request at
\* work is the one the phone waits for, and a row is QUEUED while its SMS is on its way.
OrderlyInv ==
  ~unsure =>
    /\ entry = "none" /\ dpc # "flushing" /\ copies <= 1
    /\ \A h \in Handlers : pc[h] # "idle" => h = waiting
    /\ dpc \in {"flush", "poll"} => copies = 0 \/ status = "SENT"
    /\ dpc \in {"radio", "report"} => status = "QUEUED"
    /\ dpc = "radio" => copies = 0
    /\ report = "FAIL" => copies = 0
    /\ status = "SENT" => worker = "idle"
    /\ dpc = "reporting" /\ report = "ACKNOWLEDGE" =>
         \/ pc[waiting] \in {"ack", "ackWrite"} /\ status = "QUEUED"
         \/ pc[waiting] = "200" /\ status = "SENT"
    /\ dpc = "reporting" /\ report = "FAIL" =>
         /\ pc[waiting] \in {"fail", "failWrite", "schedule", "200", "409"}
         /\ pc[waiting] \in {"fail", "failWrite"} => status = "QUEUED"

PhoneInv == Bounds /\ CallsInv /\ SmsInv /\ OrderlyInv

Places == {"idle", "ack", "ackWrite", "fail", "failWrite", "schedule", "200", "409"}

-----------------------------------------------------------------------------
\* A handler takes a step.
LEMMA ServerStep == ASSUME PhoneInv, NEW h \in Handlers, Handler(h) PROVE PhoneInv'
<1> USE DEF PhoneInv
<1> DEFINE end == {"200", "409", "idle"}
<1>1. UNCHANGED <<worker, dpc, report, tries, waiting, entry, copies, unsure, crashes>>
  BY DEF Handler, AckRead, AckWrite, FailRead, FailWrite, ScheduleRetry,
         ServerRest, phone
<1>2. PICK l \in Places :
        /\ pc' = [pc EXCEPT ![h] = l]
        /\ h = waiting => l # "idle"
        /\ h # waiting => l \notin {"200", "409"}
        /\ l = "ackWrite" => pc[h] = "ack"
        /\ l # "ack"
        /\ \/ /\ pc[h] = "ack" /\ UNCHANGED <<status, retries>>
              /\ \/ l = "ackWrite"
                 \/ l \in {"200", "idle"} /\ status \in {"SENT", "DELIVERED", "READ"}
                 \/ l \in {"409", "idle"} /\ status # "QUEUED"
           \/ /\ pc[h] = "ackWrite" /\ status' = "SENT" /\ retries' = retries
              /\ l \in {"200", "idle"}
           \/ pc[h] = "fail" /\ UNCHANGED <<status, retries>> /\ l \in {"failWrite"} \cup end
           \/ /\ pc[h] = "failWrite" /\ status' = "FAILED" /\ retries' = retries
              /\ l \in {"schedule"} \cup end
           \/ /\ pc[h] = "schedule" /\ l \in end
              /\ \/ status' = status /\ retries < MaxAttempts /\ retries' = retries + 1
                 \/ status' = "DEAD_LETTER" /\ retries' = retries
  <2>1. CASE AckRead(h)
    BY <2>1 DEF AckRead, Answer, HandlerAt, message, Places, CanTransition, VALID_TRANSITIONS
  <2>2. CASE AckWrite(h)
    BY <2>2 DEF AckWrite, Answer, Places
  <2>3. CASE FailRead(h)
    BY <2>3 DEF FailRead, Answer, HandlerAt, message, Places
  <2>4. ASSUME NEW reason \in ANDROID_FAILURE_REASONS, FailWrite(h, reason)
        PROVE  \E l \in Places :
                 /\ pc' = [pc EXCEPT ![h] = l]
                 /\ h = waiting => l # "idle"
                 /\ h # waiting => l \notin {"200", "409"}
                 /\ pc[h] = "failWrite" /\ status' = "FAILED" /\ retries' = retries
                 /\ l \in {"schedule"} \cup end
    BY <2>4 DEF FailWrite, Answer, HandlerAt, Places
  <2>5. CASE ScheduleRetry(h)
    BY <2>5 DEF ScheduleRetry, Answer, Places
  <2> QED BY <2>1, <2>2, <2>3, <2>4, <2>5 DEF Handler
<1>3. /\ pc' \in [Handlers -> Places] /\ pc'[h] = l
      /\ \A g \in Handlers \ {h} : pc'[g] = pc[g]
  BY <1>2 DEF CallsInv, GatewayTypeOK, Places
<1>4. CallsInv'
  <2>1. status' \in Status /\ retries' \in 0..MaxAttempts
    BY <1>2 DEF Bounds, CallsInv, GatewayTypeOK, Status
  <2>2. waiting # NoHandler => pc'[waiting] # "idle"
    BY <1>2, <1>3 DEF CallsInv, GatewayTypeOK
  <2>3. GatewayTypeOK'
    BY <1>1, <1>3, <2>1, <2>2 DEF CallsInv, GatewayTypeOK, Places
  <2> QED BY <1>1, <1>2, <2>3 DEF CallsInv, Asked
<1>5. SmsInv'
  BY <1>1, <1>2, <1>3 DEF SmsInv
<1>6. OrderlyInv'
  <2> SUFFICES ASSUME ~unsure PROVE OrderlyInv'
    BY <1>1 DEF OrderlyInv
  <2>1. h = waiting /\ dpc = "reporting" /\ report \in Outcome /\ waiting # NoHandler
    BY <1>2 DEF Bounds, OrderlyInv, CallsInv, Asked
  <2>2. CASE report = "ACKNOWLEDGE"
    BY <1>1, <1>2, <1>3, <2>1, <2>2 DEF OrderlyInv, CallsInv
  <2>3. CASE report = "FAIL"
    BY <1>1, <1>2, <1>3, <2>1, <2>3 DEF OrderlyInv, CallsInv, SmsInv
  <2> QED BY <2>1, <2>2, <2>3 DEF Outcome
<1> QED BY <1>4, <1>5, <1>6

\* The retry worker takes a step.
LEMMA WorkerStep == ASSUME PhoneInv, Worker PROVE PhoneInv'
<1> USE DEF PhoneInv
<1>1. UNCHANGED <<retries, pc, dpc, report, tries, waiting, entry, copies, unsure, crashes>>
  BY DEF Worker, ClaimRetry, ClaimSend, RecordQueued, WorkerRest, phone
<1>2. /\ status' \in Status /\ worker' \in {"idle", "claim", "sending"}
      /\ \/ worker = "idle" /\ status \in {"FAILED", "DEAD_LETTER"} /\ status' = "PENDING"
         \/ worker = "claim" /\ status = "PENDING" /\ status' = "SENDING"
         \/ worker = "claim" /\ status' = status /\ worker' = "idle"
         \/ worker = "sending" /\ status' = "QUEUED" /\ worker' = "idle"
  BY DEF Worker, ClaimRetry, ClaimSend, RecordQueued, CallsInv, GatewayTypeOK, Status
<1>3. CallsInv'
  <2>1. GatewayTypeOK'
    BY <1>1, <1>2 DEF CallsInv, GatewayTypeOK
  <2> QED BY <1>1, <1>2, <2>1 DEF CallsInv, Asked
<1>4. SmsInv'
  BY <1>1, <1>2 DEF SmsInv
<1>5. OrderlyInv'
  <2> SUFFICES ASSUME ~unsure PROVE OrderlyInv'
    BY <1>1 DEF OrderlyInv
  <2>1. status # "QUEUED" /\ status # "SENT"
    BY <1>2 DEF OrderlyInv, CallsInv
  <2> QED BY <1>1, <1>2, <2>1 DEF OrderlyInv
<1> QED BY <1>3, <1>4, <1>5

-----------------------------------------------------------------------------
\* The phone calls the server, or hears from it no more.
LEMMA Called ==
  ASSUME CallsInv, NEW o \in Outcome, NEW label, waiting = NoHandler, CallServer(o, label)
  PROVE  \E h \in Handlers :
           /\ pc[h] = "idle" /\ waiting' = h /\ dpc' = label
           /\ pc' \in [Handlers -> Places]
           /\ pc'[h] = IF o = "ACKNOWLEDGE" THEN "ack" ELSE "fail"
           /\ \A g \in Handlers \ {h} : pc'[g] = pc[g]
BY DEF CallsInv, GatewayTypeOK, CallServer, HandlerAt, Places, Outcome

LEMMA HungUp ==
  ASSUME CallsInv, AnswerLost \/ \E code \in {"200", "409"} : Answered(code)
  PROVE  /\ waiting \in Handlers /\ waiting' = NoHandler
         /\ pc' \in [Handlers -> Places]
         /\ \A g \in Handlers : pc'[g] = pc[g] \/ pc'[g] = "idle"
         /\ \A g \in Handlers \ {waiting} : pc'[g] = pc[g]
         /\ (\E code \in {"200", "409"} : Answered(code)) =>
               pc[waiting] \in {"200", "409"} /\ pc'[waiting] = "idle"
BY DEF CallsInv, GatewayTypeOK, AnswerLost, Answered, HandlerAt, Places

\* A cycle begins: what was stored is delivered first, then the page is fetched.
LEMMA FlushReportStep ==
  ASSUME PhoneInv,
         FlushStored \/ FlushUnreachable \/ FlushAnswered \/ FlushAnswerLost
           \/ Poll \/ PollUnreachable
  PROVE  PhoneInv'
<1> USE DEF PhoneInv
<1>1. UNCHANGED <<status, retries, worker, report, tries, copies, unsure, crashes>>
  BY DEF FlushStored, FlushUnreachable, FlushAnswered, FlushAnswerLost, Poll,
         PollUnreachable, PhoneRest, message
<1>2. CASE FlushStored /\ entry # "none"
  <2>1. entry \in Outcome /\ waiting = NoHandler /\ dpc = "flush" /\ entry' = entry
        /\ CallServer(entry, "flushing")
    BY <1>2 DEF FlushStored, CallsInv, GatewayTypeOK, Asked
  <2>2. PICK h \in Handlers :
           /\ pc[h] = "idle" /\ waiting' = h /\ dpc' = "flushing"
           /\ pc' \in [Handlers -> Places]
           /\ pc'[h] = IF entry = "ACKNOWLEDGE" THEN "ack" ELSE "fail"
           /\ \A g \in Handlers \ {h} : pc'[g] = pc[g]
    BY <2>1, Called
  <2>3. CallsInv'
    BY <1>1, <2>1, <2>2 DEF Bounds, CallsInv, GatewayTypeOK, Asked, Places, Outcome
  <2>4. SmsInv'
    BY <1>1, <2>1, <2>2 DEF SmsInv
  <2>5. OrderlyInv'
    BY <1>1, <1>2 DEF OrderlyInv
  <2> QED BY <2>3, <2>4, <2>5
<1>3. CASE (FlushStored /\ entry = "none") \/ FlushUnreachable \/ Poll \/ PollUnreachable
  <2>1. /\ UNCHANGED <<pc, waiting, entry>> /\ dpc \in {"flush", "poll"}
        /\ dpc' \in {"flush", "poll", "radio"}
        /\ dpc' = "radio" => status = "QUEUED"
    BY <1>3 DEF FlushStored, FlushUnreachable, Poll, PollUnreachable, Pending
  <2>2. CallsInv' /\ SmsInv'
    BY <1>1, <2>1 DEF CallsInv, GatewayTypeOK, Asked, SmsInv
  <2>3. OrderlyInv'
    BY <1>1, <2>1 DEF OrderlyInv
  <2> QED BY <2>2, <2>3
<1>4. CASE FlushAnswered \/ FlushAnswerLost
  <2>1. /\ dpc = "flushing" /\ dpc' = "poll" /\ entry' \in {entry, "none"}
        /\ AnswerLost \/ \E code \in {"200", "409"} : Answered(code)
    BY <1>4 DEF FlushAnswered, FlushAnswerLost, Remove
  <2>2. /\ waiting \in Handlers /\ waiting' = NoHandler
        /\ pc' \in [Handlers -> Places]
        /\ \A g \in Handlers : pc'[g] = pc[g] \/ pc'[g] = "idle"
    BY <2>1, HungUp
  <2>3. CallsInv'
    BY <1>1, <2>1, <2>2 DEF CallsInv, GatewayTypeOK, Asked, Places
  <2>4. SmsInv'
    BY <1>1, <2>1, <2>2 DEF SmsInv
  <2>5. OrderlyInv'
    BY <1>1, <2>1 DEF OrderlyInv
  <2> QED BY <2>3, <2>4, <2>5
<1> QED BY <1>2, <1>3, <1>4

\* The phone sends and learns how that ended.
LEMMA RadioStep ==
  ASSUME PhoneInv, SmsSent \/ \E partly \in BOOLEAN : SmsFails(partly)
  PROVE  PhoneInv'
<1> USE DEF PhoneInv
<1>1. /\ dpc = "radio" /\ dpc' = "report" /\ tries' = 0
      /\ UNCHANGED <<status, retries, worker, pc, waiting, entry, crashes>>
      /\ \/ Received /\ report' = "ACKNOWLEDGE" /\ unsure' = unsure
         \/ Received /\ report' = "FAIL" /\ unsure' = TRUE
         \/ copies' = copies /\ report' = "FAIL" /\ unsure' = unsure
  BY DEF SmsSent, SmsFails, Report, PhoneRest, message
<1>2. copies' \in 0..2 /\ copies <= copies' /\ (Received => copies' > 0)
      /\ (copies = 0 => copies' <= 1)
  BY <1>1 DEF Received, CallsInv, GatewayTypeOK
<1>3. CallsInv'
  <2>1. report' \in Outcome /\ unsure' \in BOOLEAN
    BY <1>1 DEF Outcome, CallsInv, GatewayTypeOK
  <2> QED BY <1>1, <1>2, <2>1 DEF CallsInv, GatewayTypeOK, Asked, MaxTries, Outcome
<1>4. SmsInv'
  BY <1>1, <1>2 DEF SmsInv, CallsInv, GatewayTypeOK
<1>5. OrderlyInv'
  <2> SUFFICES ASSUME ~unsure' PROVE OrderlyInv'
    BY DEF OrderlyInv
  <2>1. ~unsure /\ copies' <= 1 /\ (report' = "FAIL" => copies' = copies)
    BY <1>1, <1>2 DEF OrderlyInv, CallsInv, GatewayTypeOK
  <2> QED BY <1>1, <2>1 DEF OrderlyInv
<1> QED BY <1>3, <1>4, <1>5

\* The outcome is reported.
LEMMA ReportStep ==
  ASSUME PhoneInv, SendReport \/ ReportAnswered \/ ReportLost \/ ReportRateLimited
  PROVE  PhoneInv'
<1> USE DEF PhoneInv
<1>1. UNCHANGED <<status, retries, worker, copies, crashes>>
  BY DEF SendReport, ReportAnswered, ReportLost, ReportRateLimited, PhoneRest, message
<1>2. CASE SendReport
  <2>1. /\ report \in Outcome /\ waiting = NoHandler /\ dpc = "report"
        /\ CallServer(report, "reporting") /\ tries' = tries + 1
        /\ UNCHANGED <<report, entry, unsure>>
    BY <1>2 DEF SendReport, CallsInv, Asked
  <2>2. PICK h \in Handlers :
           /\ pc[h] = "idle" /\ waiting' = h /\ dpc' = "reporting"
           /\ pc' \in [Handlers -> Places]
           /\ pc'[h] = IF report = "ACKNOWLEDGE" THEN "ack" ELSE "fail"
           /\ \A g \in Handlers \ {h} : pc'[g] = pc[g]
    BY <2>1, Called
  <2>3. tries' \in 0..MaxTries
    BY <2>1 DEF CallsInv, GatewayTypeOK, MaxTries
  <2>4. CallsInv'
    BY <1>1, <2>1, <2>2, <2>3 DEF Bounds, CallsInv, GatewayTypeOK, Asked, Places, Outcome
  <2>5. SmsInv'
    BY <1>1, <2>1, <2>2 DEF SmsInv
  <2>6. OrderlyInv'
    <3>1. ~unsure => \A g \in Handlers : pc[g] = "idle"
      BY <2>1 DEF Bounds, OrderlyInv
    <3> QED BY <1>1, <2>1, <2>2, <3>1 DEF OrderlyInv, Outcome
  <2> QED BY <2>4, <2>5, <2>6
<1>3. CASE ReportAnswered
  <2>1. /\ dpc = "reporting" /\ NextCycle /\ \E code \in {"200", "409"} : Answered(code)
        /\ UNCHANGED <<entry, unsure>>
    BY <1>3 DEF ReportAnswered
  <2>2. /\ waiting \in Handlers /\ waiting' = NoHandler
        /\ pc' \in [Handlers -> Places]
        /\ \A g \in Handlers : pc'[g] = pc[g] \/ pc'[g] = "idle"
        /\ \A g \in Handlers \ {waiting} : pc'[g] = pc[g]
        /\ pc[waiting] \in {"200", "409"} /\ pc'[waiting] = "idle"
    BY <2>1, HungUp
  <2>3. CallsInv'
    BY <1>1, <2>1, <2>2 DEF CallsInv, GatewayTypeOK, Asked, Places, NextCycle, MaxTries
  <2>4. SmsInv'
    BY <1>1, <2>1, <2>2 DEF SmsInv, NextCycle
  <2>5. OrderlyInv'
    <3>1. report \in Outcome
      BY <2>1 DEF CallsInv
    <3> QED BY <1>1, <2>1, <2>2, <3>1 DEF OrderlyInv, NextCycle, Outcome
  <2> QED BY <2>3, <2>4, <2>5
<1>4. CASE ReportLost \/ ReportRateLimited
  <2>1. /\ unsure' = TRUE /\ dpc \in {"report", "reporting"} /\ dpc' \in {"report", "flush"}
        /\ dpc' = "report" => tries' < MaxTries
        /\ tries' \in 0..MaxTries /\ report' \in {report, "none"} /\ entry' \in {entry, report}
        /\ dpc' = "report" => report' = report
    BY <1>4 DEF ReportLost, ReportRateLimited, AfterLostCall, NextCycle, Enqueue, CallsInv,
                GatewayTypeOK,MaxTries
  <2>2. /\ waiting' = NoHandler /\ pc' \in [Handlers -> Places]
        /\ \A g \in Handlers : pc'[g] = pc[g] \/ pc'[g] = "idle"
    <3>1. CASE dpc = "reporting"
      <4>1. AnswerLost
        BY <1>4, <3>1 DEF ReportLost, ReportRateLimited
      <4> QED BY <4>1, HungUp
    <3>2. CASE dpc = "report"
      BY <1>4, <3>2 DEF ReportLost, ReportRateLimited, CallsInv, GatewayTypeOK, Asked, Places
    <3> QED BY <2>1, <3>1, <3>2
  <2>3. CallsInv'
    BY <1>1, <2>1, <2>2 DEF CallsInv, GatewayTypeOK, Asked, Places, Outcome
  <2>4. SmsInv'
    BY <1>1, <2>1, <2>2 DEF SmsInv
  <2>5. OrderlyInv'
    BY <2>1 DEF OrderlyInv
  <2> QED BY <2>3, <2>4, <2>5
<1> QED BY <1>2, <1>3, <1>4

\* The phone's process dies.
LEMMA CrashStep == ASSUME PhoneInv, PhoneCrash PROVE PhoneInv'
<1> USE DEF PhoneInv
<1>1. /\ UNCHANGED <<status, retries, worker>> /\ NextCycle
      /\ crashes < MaxCrashes /\ crashes' = crashes + 1
      /\ (dpc = "radio" /\ Received) \/ copies' = copies
      /\ unsure' = (unsure \/ dpc \in {"radio", "report", "reporting"})
      /\ entry' \in {entry, "none"}
  BY DEF PhoneCrash, message, DieWriting
<1>2. /\ waiting' = NoHandler /\ pc' \in [Handlers -> Places]
      /\ \A g \in Handlers : pc'[g] = pc[g] \/ pc'[g] = "idle"
      /\ waiting = NoHandler => pc' = pc
  <2>1. CASE waiting = NoHandler
    BY <2>1 DEF PhoneCrash, CallsInv, GatewayTypeOK, Places
  <2>2. CASE waiting # NoHandler
    <3>1. AnswerLost
      BY <2>2 DEF PhoneCrash
    <3> QED BY <2>2, <3>1, HungUp
  <2> QED BY <2>1, <2>2
<1>3. copies' \in 0..2 /\ copies <= copies'
  BY <1>1 DEF Received, CallsInv, GatewayTypeOK
<1>4. CallsInv'
  <2>1. crashes' \in 0..MaxCrashes /\ unsure' \in BOOLEAN
    BY <1>1 DEF Bounds, CallsInv, GatewayTypeOK
  <2> QED BY <1>1, <1>2, <1>3, <2>1 DEF CallsInv, GatewayTypeOK, NextCycle, Asked, Places, MaxTries
<1>5. SmsInv'
  BY <1>1, <1>2, <1>3 DEF SmsInv, NextCycle, CallsInv, GatewayTypeOK
<1>6. OrderlyInv'
  <2> SUFFICES ASSUME ~unsure' PROVE OrderlyInv'
    BY DEF OrderlyInv
  <2>1. ~unsure /\ dpc \in {"flush", "poll"} /\ waiting = NoHandler /\ copies' = copies
    BY <1>1 DEF OrderlyInv, CallsInv, GatewayTypeOK, Asked
  <2> QED BY <1>1, <1>2, <2>1 DEF OrderlyInv, NextCycle
<1> QED BY <1>4, <1>5, <1>6

-----------------------------------------------------------------------------
LEMMA PhoneInvStep == PhoneInv /\ [GatewayNext]_gatewayVars => PhoneInv'
<1> SUFFICES ASSUME PhoneInv, [GatewayNext]_gatewayVars PROVE PhoneInv'
  OBVIOUS
<1>1. CASE UNCHANGED gatewayVars
  BY <1>1 DEF gatewayVars, message, phone, PhoneInv, CallsInv, GatewayTypeOK, Asked, SmsInv,
     OrderlyInv
<1>2. CASE PhoneStep
  BY <1>2, FlushReportStep, RadioStep, ReportStep DEF PhoneStep
<1> QED BY <1>1, <1>2, ServerStep, WorkerStep, CrashStep DEF GatewayNext

LEMMA PhoneInvariant == GatewaySpec => []PhoneInv
<1>1. ASSUME GatewayInit PROVE PhoneInv
  <2>1. CallsInv
    <3>1. 0 \in 0..MaxAttempts /\ 0 \in 0..MaxCrashes /\ 0 \in 0..MaxTries /\ "QUEUED" \in Status
      BY <1>1, BoundsHold DEF Bounds, MaxTries, Status
    <3>2. pc \in [Handlers -> Places]
      BY <1>1 DEF GatewayInit, Places
    <3>3. unsure \in BOOLEAN
      BY <1>1 DEF GatewayInit
    <3>4. GatewayTypeOK
      BY <1>1, <3>1, <3>2, <3>3 DEF GatewayInit, GatewayTypeOK, Places
    <3> QED BY <1>1, <3>4 DEF GatewayInit, CallsInv, Asked
  <2>2. SmsInv /\ OrderlyInv
    BY <1>1 DEF GatewayInit, SmsInv, OrderlyInv
  <2> QED BY <2>1, <2>2, BoundsHold DEF PhoneInv
<1> QED BY <1>1, PhoneInvStep, PTL DEF GatewaySpec

\* The row, the handlers, the phone and its store of reports stay well-formed.
THEOREM GatewayTypeCorrect == GatewaySpec => []GatewayTypeOK
<1>1. PhoneInv => GatewayTypeOK
  BY DEF PhoneInv, CallsInv
<1> QED BY <1>1, PhoneInvariant, PTL

\* However many reports overlap, come late or come again: the server shows SENT only of an
\* SMS that has left the phone.
THEOREM SentLeftThePhone == GatewaySpec => []SentMeansSent
<1>1. PhoneInv => SentMeansSent
  BY DEF PhoneInv, SmsInv, SentMeansSent
<1> QED BY <1>1, PhoneInvariant, PTL

\* The contact gets an SMS twice only if an outcome was not reported, or the phone did not
\* learn that it was: neither polling nor requeueing repeats it.
THEOREM OneSms == GatewaySpec => []NoRepeatedSms
<1>1. PhoneInv => NoRepeatedSms
  BY DEF PhoneInv, CallsInv, GatewayTypeOK, OrderlyInv, NoRepeatedSms
<1> QED BY <1>1, PhoneInvariant, PTL

\* Under the same condition an acknowledged message is SENT for good, whatever the worker
\* and the report handlers do.
THEOREM SentStays == GatewaySpec => SentIsFinal
<1>1. ASSUME PhoneInv, [GatewayNext]_gatewayVars, status = "SENT", status' # "SENT", ~unsure
      PROVE  FALSE
  <2>1. copies > 0 /\ worker = "idle"
    BY <1>1 DEF PhoneInv, SmsInv, OrderlyInv
  <2>2. ASSUME NEW h \in Handlers, Handler(h) PROVE FALSE
    <3>1. pc[h] \in {"failWrite", "schedule"}
      BY <1>1, <2>2 DEF Handler, AckRead, AckWrite, FailRead, FailWrite, ScheduleRetry, message
    <3>2. h = waiting /\ dpc = "reporting" /\ report \in Outcome
      BY <1>1, <3>1 DEF Bounds, PhoneInv, OrderlyInv, CallsInv, Asked
    <3> QED BY <1>1, <2>1, <3>1, <3>2 DEF PhoneInv, OrderlyInv, Outcome, CallsInv, GatewayTypeOK
  <2>3. ~Worker
    BY <1>1, <2>1 DEF Worker, ClaimRetry, ClaimSend, RecordQueued
  <2>4. ~PhoneStep /\ ~PhoneCrash
    BY <1>1 DEF PhoneStep, PhoneCrash, FlushStored, FlushUnreachable, FlushAnswered,
       FlushAnswerLost, Poll, PollUnreachable, SmsSent, SmsFails, SendReport, ReportAnswered,
       ReportLost, ReportRateLimited, PhoneRest, message
  <2> QED BY <1>1, <2>2, <2>3, <2>4 DEF GatewayNext, gatewayVars, message
<1>2. PhoneInv /\ [GatewayNext]_gatewayVars
        => [status = "SENT" /\ status' # "SENT" => unsure]_gatewayVars
  BY <1>1
<1> QED BY <1>2, PhoneInvariant, PTL DEF GatewaySpec, SentIsFinal
-----------------------------------------------------------------------------
(* The SMSs the phone receives: InboxSpec.                                    *)
\* What DeviceInbox assumes of its constants.
InboxBounds ==
  /\ SmsId \in [Sms -> Id] /\ Unacceptable \subseteq Sms
  /\ Loop \notin Kicks /\ Receivers \cap Flushers = {} /\ NoOne \notin Processes \cup Sms
  /\ MaxBroadcasts \in Nat /\ MaxDevices \in Nat \ {0} /\ MaxRestarts \in Nat

LEMMA InboxBoundsHold == InboxBounds
BY SmsIdAssumption, ProcessesAssumption, BoundsAssumption DEF InboxBounds

\* What the server has, or never takes.
Settled == {k[2] : k \in keys} \cup IdsOf(Unacceptable)

Updating(p) == place[p] \in {"truncate", "write"}

Safe(entries) == \A s \in queued : SmsId[s] \in IdsOf(entries) \cup Settled

ProcessesInv ==
  /\ InboxTypeOK
  /\ \A r \in Receivers : place[r] \in {"idle", "enqueue", "kick", "truncate", "write"}
  /\ \A f \in Flushers : place[f] \in {"idle", "peek", "next", "remove", "truncate", "write"}
  /\ \A r \in Receivers : place[r] = "enqueue" \/ Updating(r) => sms[r] \in Sms
  /\ \A f \in Flushers : place[f] = "remove" => sms[f] \in Sms /\ SmsId[sms[f]] \in Settled
  /\ revokedPhone => refused
  /\ refused => device < MaxDevices

RowsInv ==
  /\ keys \subseteq (1..device) \X Id
  /\ \A i \in Id : rows[i] <= device /\ (<<device, i>> \in keys \/ rows[i] < device)

\* While no two updates have overlapped: what was queued is in the file, in what the one
\* update is about to write, or settled.
FileInv ==
  ~disturbed =>
    /\ \A p, q \in Processes : Updating(p) /\ Updating(q) => p = q
    /\ AtRest => Safe(file)
    /\ \A p \in Processes : place[p] = "truncate"
                              => IdsOf(file) \subseteq IdsOf(copy[p]) \cup Settled
    /\ \A p \in Processes : place[p] = "write" => file = {} /\ Safe(copy[p])
    /\ \A r \in Receivers : Updating(r) => SmsId[sms[r]] \in IdsOf(copy[r])

InboxInv == InboxBounds /\ ProcessesInv /\ RowsInv /\ FileInv

PLabels == {"idle", "enqueue", "kick", "peek", "next", "remove", "truncate", "write"}

-----------------------------------------------------------------------------
\* What is settled stays settled.
LEMMA SettledGrows ==
  ASSUME keys \subseteq keys'
  PROVE  Settled \subseteq Settled'
BY DEF Settled, IdsOf

\* A step that leaves the file and its updates alone.
LEMMA Calm ==
  ASSUME InboxInv, UNCHANGED <<file, copy, queued, disturbed>>, keys \subseteq keys',
         \A p \in Processes : Updating(p) \/ Updating(p)'
                              => place'[p] = place[p] /\ sms'[p] = sms[p]
  PROVE  FileInv'
<1>1. Settled \subseteq Settled'
  BY SettledGrows
<1>2. \A p \in Processes : (place'[p] = "truncate" <=> place[p] = "truncate")
                            /\ (place'[p] = "write" <=> place[p] = "write")
  BY DEF Updating
<1> SUFFICES ASSUME ~disturbed' PROVE FileInv'
  BY DEF FileInv
<1>3. \A p, q \in Processes : Updating(p)' /\ Updating(q)' => p = q
  BY <1>2 DEF InboxInv, FileInv, Updating
<1>4. AtRest' => Safe(file)'
  BY <1>1, <1>2 DEF InboxInv, FileInv, AtRest, Safe, IdsOf
<1>5. \A p \in Processes : place'[p] = "truncate" =>
         (IdsOf(file))' \subseteq (IdsOf(copy[p]))' \cup Settled'
  BY <1>1, <1>2 DEF InboxInv, FileInv, IdsOf
<1>6. \A p \in Processes : place'[p] = "write" => file' = {} /\ (Safe(copy[p]))'
  BY <1>1, <1>2 DEF InboxInv, FileInv, Safe, IdsOf
<1>7. \A r \in Receivers : Updating(r)' => SmsId[sms'[r]] \in (IdsOf(copy[r]))'
  BY <1>2 DEF InboxInv, FileInv, Updating, IdsOf, Processes
<1> QED BY <1>3, <1>4, <1>5, <1>6, <1>7 DEF FileInv

\* A push stores its message once for a registration.
LEMMA StoredOnce ==
  ASSUME InboxInv, NEW s \in Sms, Store(s)
  PROVE  /\ keys \subseteq keys' /\ UNCHANGED <<device, refused>> /\ RowsInv'
         /\ SmsId[s] \in Settled' /\ rows' \in [Id -> Nat]
         /\ keys' \subseteq (1..MaxDevices) \X Id
<1> USE DEF InboxInv
<1> DEFINE i == SmsId[s]
<1>1. i \in Id /\ device \in 1..MaxDevices /\ MaxDevices \in Nat /\ rows \in [Id -> Nat]
  BY DEF InboxBounds, ProcessesInv, InboxTypeOK
<1>2. UNCHANGED <<device, refused>>
  BY DEF Store
<1>3. /\ keys' = keys \cup {<<device, i>>} /\ <<device, i>> \in keys'
      /\ rows' \in [Id -> Nat]
      /\ \A j \in Id \ {i} : rows'[j] = rows[j]
      /\ rows'[i] <= device
  <2>1. CASE <<device, i>> \in keys
    BY <1>1, <2>1 DEF Store, RowsInv
  <2>2. CASE <<device, i>> \notin keys
    BY <1>1, <2>2 DEF Store, RowsInv
  <2> QED BY <2>1, <2>2
<1>4. RowsInv'
  BY <1>1, <1>2, <1>3 DEF RowsInv
<1>5. i \in Settled'
  <2>1. PICK k \in keys' : k[2] = i
    BY <1>3
  <2> QED BY <2>1 DEF Settled
<1>6. keys' \subseteq (1..MaxDevices) \X Id
  BY <1>1, <1>2, <1>4 DEF RowsInv
<1> QED BY <1>2, <1>3, <1>4, <1>5, <1>6

\* The server's rows are left alone.
LEMMA RowsKept == ASSUME RowsInv, UNCHANGED <<device, keys, rows>> PROVE RowsInv'
BY DEF RowsInv

-----------------------------------------------------------------------------
\* The receiver's steps that do not touch the file.
LEMMA ReceiverCalm ==
  ASSUME InboxInv, NEW r \in Receivers, Kick(r) \/ \E s \in Sms : Receive(r, s)
  PROVE  InboxInv'
<1> USE DEF InboxInv
<1>1. /\ UNCHANGED <<file, revokedPhone, copy, todo, mutex, device, refused, keys, rows, queued,
                     disturbed, restarts>>
      /\ broadcasts' \in 0..MaxBroadcasts
  BY DEF Kick, Receive, inbox, ProcessesInv, InboxTypeOK, InboxBounds
<1>2. /\ r \in Processes /\ r \notin Flushers /\ Kicks \subseteq Flushers
      /\ Receivers \cap Flushers = {}
      /\ Receivers \subseteq Processes /\ Flushers \subseteq Processes
  BY DEF InboxBounds, Processes, Flushers
<1>3. /\ place' \in [Processes -> PLabels] /\ sms' \in [Processes -> Sms \cup {NoOne}]
      /\ place[r] \in {"idle", "kick"} /\ place'[r] \in {"enqueue", "idle"}
      /\ place'[r] = "enqueue" => sms'[r] \in Sms
      /\ \A q \in Processes \ {r} :
           /\ sms'[q] = sms[q]
           /\ place'[q] = place[q] \/ (q \in Kicks /\ place[q] = "idle" /\ place'[q] = "peek")
  BY <1>2 DEF Kick, Receive, MoveTo, ProcessesInv, InboxTypeOK, PLabels
<1>4. ProcessesInv'
  <2>1. Settled' = Settled
    BY <1>1 DEF Settled, IdsOf
  <2>2. InboxTypeOK'
    BY <1>1, <1>2, <1>3 DEF ProcessesInv, InboxTypeOK, PLabels
  <2>3. \A q \in Receivers :
          /\ place'[q] \in {"idle", "enqueue", "kick", "truncate", "write"}
          /\ place'[q] = "enqueue" \/ Updating(q)' => sms'[q] \in Sms
    BY <1>2, <1>3 DEF ProcessesInv, Updating
  <2>4. \A f \in Flushers :
          /\ place'[f] \in {"idle", "peek", "next", "remove", "truncate", "write"}
          /\ place'[f] = "remove" => place[f] = "remove" /\ sms'[f] = sms[f]
    BY <1>2, <1>3 DEF ProcessesInv
  <2> QED BY <1>1, <2>1, <2>2, <2>3, <2>4 DEF ProcessesInv
<1>5. FileInv'
  BY <1>1, <1>3, Calm DEF Updating
<1> QED BY <1>1, <1>4, <1>5, RowsKept DEF InboxBounds

\* The flush's steps that do not touch the file.
LEMMA FlushCalm ==
  ASSUME InboxInv, NEW f \in Flushers,
         \/ Peek(f) \/ FlushEnds(f)
         \/ \E s \in Sms : PushAnswered(f, s) \/ PushLost(f, s)
                            \/ PushRateLimited(f, s) \/ PushUnauthorized(f, s)
  PROVE  InboxInv'
<1> USE DEF InboxInv
<1> DEFINE PushKept ==
             /\ sms' \in [Processes -> Sms \cup {NoOne}]
             /\ \A q \in Processes \ {f} : sms'[q] = sms[q]
             /\ revokedPhone' \in BOOLEAN /\ (revokedPhone' => refused)
             /\ UNCHANGED <<device, refused>>
             /\ keys \subseteq keys' /\ RowsInv'
             /\ rows' \in [Id -> Nat] /\ keys' \subseteq (1..MaxDevices) \X Id
             /\ place'[f] = "remove" => sms'[f] \in Sms /\ SmsId[sms'[f]] \in Settled'
<1>1. UNCHANGED <<file, copy, mutex, queued, disturbed, broadcasts, restarts>>
  BY DEF Peek, FlushEnds, PushAnswered, PushLost, PushRateLimited, PushUnauthorized, Pushes
<1>2. f \in Processes /\ f \notin Receivers
  BY DEF InboxBounds, Processes
<1>3. /\ place' \in [Processes -> PLabels] /\ place[f] \in {"idle", "peek", "next"}
      /\ place'[f] \in {"idle", "next", "remove"}
      /\ \A q \in Processes \ {f} : place'[q] = place[q]
      /\ todo' \in [Processes -> SUBSET Sms]
  BY <1>2 DEF Peek, MayStart, FlushEnds, EndFlush, PushAnswered, PushLost, PushRateLimited,
     PushUnauthorized, Pushes, Tried, MoveTo, ProcessesInv, InboxTypeOK, PLabels
<1>4. PushKept
  <2>1. CASE Peek(f) \/ FlushEnds(f)
    BY <1>2, <2>1, RowsKept DEF Peek, FlushEnds, EndFlush, MoveTo, inbox, ProcessesInv, InboxTypeOK
  <2>2. ASSUME NEW s \in Sms, PushRateLimited(f, s) \/ PushUnauthorized(f, s) PROVE  PushKept
    <3>1. /\ UNCHANGED <<sms, device, refused, keys, rows>> /\ place' = [place EXCEPT ![f] = "idle"]
          /\ revokedPhone' = revokedPhone \/ (revokedPhone' = TRUE /\ refused)
      BY <2>2 DEF PushRateLimited, PushUnauthorized, EndFlush, MoveTo, inbox
    <3>2. place'[f] = "idle"
      BY <1>2, <3>1 DEF ProcessesInv, InboxTypeOK
    <3>3. revokedPhone' \in BOOLEAN /\ (revokedPhone' => refused)
      <4>1. revokedPhone \in BOOLEAN /\ (revokedPhone => refused)
        BY DEF ProcessesInv, InboxTypeOK
      <4>2. CASE revokedPhone' = revokedPhone
        BY <4>1, <4>2
      <4>3. CASE revokedPhone' = TRUE /\ refused
        BY <4>3
      <4> QED BY <3>1, <4>2, <4>3
    <3>4. /\ sms' \in [Processes -> Sms \cup {NoOne}]
          /\ rows' \in [Id -> Nat] /\ keys' \subseteq (1..MaxDevices) \X Id
      BY <3>1 DEF ProcessesInv, InboxTypeOK
    <3> QED BY <3>1, <3>2, <3>3, <3>4, RowsKept
  <2>3. ASSUME NEW s \in Sms, PushLost(f, s) PROVE  PushKept
    <3>1. /\ UNCHANGED <<place, sms, revokedPhone>> /\ place[f] = "next"
          /\ Store(s) \/ UNCHANGED inbox
      BY <2>3 DEF PushLost, Pushes
    <3> QED BY <1>2, <3>1, RowsKept, StoredOnce DEF inbox, ProcessesInv, InboxTypeOK
  <2>4. ASSUME NEW s \in Sms, PushAnswered(f, s) PROVE  PushKept
    <3>1. /\ revokedPhone' = revokedPhone /\ sms' = [sms EXCEPT ![f] = s]
          /\ Store(s) \/ (s \in Unacceptable /\ UNCHANGED inbox)
      BY <2>4 DEF PushAnswered
    <3>2. SmsId[s] \in Settled' /\ UNCHANGED <<device, refused>> /\ keys \subseteq keys' /\ RowsInv'
          /\ rows' \in [Id -> Nat] /\ keys' \subseteq (1..MaxDevices) \X Id
      <4>1. CASE Store(s)
        BY <4>1, StoredOnce
      <4>2. CASE s \in Unacceptable /\ UNCHANGED inbox
        BY <4>2, RowsKept DEF inbox, Settled, IdsOf, ProcessesInv, InboxTypeOK
      <4> QED BY <3>1, <4>1, <4>2
    <3> QED BY <1>2, <3>1, <3>2 DEF ProcessesInv, InboxTypeOK
  <2> QED BY <2>1, <2>2, <2>3, <2>4
<1>5. ProcessesInv'
  <2>1. Settled \subseteq Settled'
    BY <1>4, SettledGrows
  <2>2. InboxTypeOK'
    <3>1. \A g \in Flushers : place'[g] \in {"truncate", "write"} <=> mutex' = g
      <4>1. \A g \in Flushers : g \in Processes /\ (place[g] \in {"truncate", "write"} <=> mutex = g)
        BY DEF ProcessesInv, InboxTypeOK, Processes
      <4> QED BY <1>1, <1>3, <4>1
    <3> QED BY <1>1, <1>3, <1>4, <3>1 DEF ProcessesInv, InboxTypeOK, PLabels
  <2> QED BY <1>1, <1>2, <1>3, <1>4, <2>1, <2>2 DEF ProcessesInv, Updating, Processes
<1>6. FileInv'
  BY <1>1, <1>3, <1>4, Calm DEF Updating
<1> QED BY <1>4, <1>5, <1>6 DEF InboxBounds

\* The dashboard, the operator, the phone's other calls.
LEMMA ElsewhereCalm ==
  ASSUME InboxInv, RevokePhone \/ OtherCallUnauthorized \/ SaveNewCredentials
  PROVE  InboxInv'
<1> USE DEF InboxInv
<1>1. UNCHANGED <<file, place, sms, copy, todo, mutex, keys, rows, queued, disturbed,
                  broadcasts, restarts>>
  BY DEF RevokePhone, OtherCallUnauthorized, SaveNewCredentials, Elsewhere, relay
<1>2. /\ revokedPhone' \in BOOLEAN /\ refused' \in BOOLEAN /\ (revokedPhone' => refused')
      /\ device' \in 1..MaxDevices /\ (refused' => device' < MaxDevices)
      /\ device' = device \/ device' = device + 1
  <2>1. /\ device \in 1..MaxDevices /\ MaxDevices \in Nat
        /\ revokedPhone \in BOOLEAN /\ refused \in BOOLEAN
    BY DEF ProcessesInv, InboxTypeOK, InboxBounds
  <2>2. CASE RevokePhone
    BY <2>1, <2>2 DEF RevokePhone, ProcessesInv
  <2>3. CASE OtherCallUnauthorized
    BY <2>1, <2>3 DEF OtherCallUnauthorized, ProcessesInv
  <2>4. CASE SaveNewCredentials
    <3>1. device < MaxDevices
      BY <2>4 DEF SaveNewCredentials, ProcessesInv
    <3>2. device' = device + 1 /\ refused' = FALSE /\ revokedPhone' = FALSE
      BY <2>4 DEF SaveNewCredentials
    <3>3. device' \in 1..MaxDevices
      BY <2>1, <3>1, <3>2
    <3>4. revokedPhone' \in BOOLEAN /\ refused' \in BOOLEAN /\ ~revokedPhone' /\ ~refused'
      BY <3>2
    <3> QED BY <3>2, <3>3, <3>4
  <2> QED BY <2>2, <2>3, <2>4
<1>3. ProcessesInv'
  <2>1. Settled' = Settled
    BY <1>1 DEF Settled, IdsOf
  <2>2. InboxTypeOK'
    BY <1>1, <1>2 DEF ProcessesInv, InboxTypeOK
  <2> QED BY <1>1, <1>2, <2>1, <2>2 DEF ProcessesInv, Updating
<1>4. RowsInv'
  <2>1. device \in Nat /\ \A i \in Id : rows[i] \in Nat
    BY DEF ProcessesInv, InboxTypeOK
  <2>2. CASE device' = device
    BY <1>1, <2>2, RowsKept
  <2>3. CASE device' = device + 1
    <3>1. (1..device) \X Id \subseteq (1..device') \X Id
      BY <2>1, <2>3
    <3>2. \A i \in Id : rows'[i] <= device' /\ rows'[i] < device'
      <4>1. \A i \in Id : rows'[i] = rows[i] /\ rows[i] <= device
        BY <1>1 DEF RowsInv
      <4> QED BY <2>1, <2>3, <4>1
    <3>3. keys' \subseteq (1..device') \X Id
      BY <1>1, <3>1 DEF RowsInv
    <3> QED BY <3>2, <3>3 DEF RowsInv
  <2> QED BY <1>2, <2>2, <2>3
<1>5. FileInv'
  BY <1>1, Calm DEF Updating
<1> QED BY <1>3, <1>4, <1>5 DEF InboxBounds

-----------------------------------------------------------------------------
\* An update of the file begins.
LEMMA BeginStep ==
  ASSUME InboxInv, NEW p \in Processes, NEW list \in SUBSET Sms, BeginUpdate(p, list),
         UNCHANGED <<file, revokedPhone, sms, todo, device, refused, keys, rows, queued,
                     broadcasts, restarts>>,
         ~Updating(p), sms[p] \in Sms,
         \/ p \in Receivers /\ mutex' = mutex
         \/ p \in Flushers /\ mutex = NoOne /\ mutex' = p,
         IdsOf(file) \subseteq IdsOf(list) \cup Settled,
         p \in Receivers => SmsId[sms[p]] \in IdsOf(list)
  PROVE  InboxInv'
<1> USE DEF InboxInv
<1>1. /\ place' \in [Processes -> PLabels] /\ copy' \in [Processes -> SUBSET Sms]
      /\ place'[p] = "truncate" /\ copy'[p] = list
      /\ \A q \in Processes \ {p} : place'[q] = place[q] /\ copy'[q] = copy[q]
      /\ disturbed' = (disturbed \/ \E q \in Processes : place[q] \in {"truncate", "write"})
  BY DEF BeginUpdate, MoveTo, ProcessesInv, InboxTypeOK, PLabels
<1>2. Settled' = Settled /\ p \in Receivers \cup Flushers /\ NoOne \notin Flushers
      /\ Flushers \subseteq Processes /\ Receivers \subseteq Processes
      /\ Receivers \cap Flushers = {}
  BY DEF Settled, IdsOf, Processes, InboxBounds
<1>3. ProcessesInv'
  <2>1. InboxTypeOK'
    BY <1>1, <1>2 DEF ProcessesInv, InboxTypeOK, PLabels
  <2> QED BY <1>1, <1>2, <2>1 DEF ProcessesInv, Updating
<1>4. FileInv'
  <2> SUFFICES ASSUME ~disturbed' PROVE FileInv'
    BY DEF FileInv
  <2>1. ~disturbed /\ \A q \in Processes : ~Updating(q)
    BY <1>1 DEF Updating
  <2>2. Safe(file)'
    BY <1>2, <2>1 DEF FileInv, Safe, AtRest, Updating, IdsOf
  <2>3. \A q \in Processes : Updating(q)' => q = p
    BY <1>1, <2>1 DEF Updating
  <2>4. (IdsOf(file))' \subseteq (IdsOf(copy[p]))' \cup Settled'
    BY <1>1, <1>2 DEF IdsOf
  <2>5. p \in Receivers => SmsId[sms'[p]] \in (IdsOf(copy[p]))'
    BY <1>1 DEF IdsOf
  <2> QED BY <1>1, <1>2, <2>2, <2>3, <2>4, <2>5 DEF FileInv, Updating
<1> QED BY <1>3, <1>4, RowsKept DEF InboxBounds

\* enqueue
LEMMA EnqueueStep == ASSUME InboxInv, NEW r \in Receivers, EnqueueSms(r) PROVE InboxInv'
<1> USE DEF InboxInv
<1>1. /\ place[r] = "enqueue" /\ sms[r] \in Sms /\ r \in Processes /\ r \notin Flushers
      /\ UNCHANGED <<file, revokedPhone, todo, mutex, device, refused, keys, rows, broadcasts,
                     restarts>>
  BY DEF EnqueueSms, ProcessesInv, inbox, InboxBounds, Processes
<1>2. CASE SmsId[sms[r]] \in IdsOf(file)
  <2>1. /\ queued' = queued \cup {sms[r]} /\ UNCHANGED <<copy, disturbed>>
        /\ place' \in [Processes -> PLabels] /\ sms' \in [Processes -> Sms \cup {NoOne}]
        /\ place'[r] = "kick" /\ sms'[r] = NoOne
        /\ \A q \in Processes \ {r} : place'[q] = place[q] /\ sms'[q] = sms[q]
    BY <1>1, <1>2 DEF EnqueueSms, MoveTo, ProcessesInv, InboxTypeOK, PLabels
  <2>2. Settled' = Settled
    BY <1>1 DEF Settled, IdsOf
  <2>3. ProcessesInv'
    <3>1. InboxTypeOK'
      <4>1. \A f \in Flushers : place'[f] = place[f]
        BY <1>1, <2>1 DEF Processes
      <4> QED BY <1>1, <2>1, <4>1 DEF ProcessesInv, InboxTypeOK, PLabels
    <3> QED BY <1>1, <2>1, <2>2, <3>1 DEF ProcessesInv, Updating, Processes
  <2>4. FileInv'
    <3> SUFFICES ASSUME ~disturbed PROVE FileInv'
      BY <2>1 DEF FileInv
    <3>1. \A q \in Processes : (place'[q] = "truncate" <=> place[q] = "truncate")
                                /\ (place'[q] = "write" <=> place[q] = "write")
                                /\ (Updating(q)' => Updating(q) /\ sms'[q] = sms[q])
      BY <1>1, <2>1 DEF Updating
    <3>2. \A q \in Processes : place[q] # "write"
      BY <1>2 DEF FileInv, IdsOf
    <3>3. Safe(file)'
      BY <1>1, <1>2, <2>1, <2>2, <3>2 DEF FileInv, Safe, AtRest, IdsOf
    <3>4. \A q \in Processes : place[q] = "truncate" =>
             (IdsOf(file))' \subseteq (IdsOf(copy[q]))' \cup Settled'
      BY <1>1, <2>1, <2>2 DEF FileInv, IdsOf
    <3>5. \A q \in Receivers : Updating(q)' => SmsId[sms'[q]] \in (IdsOf(copy[q]))'
      BY <2>1, <3>1 DEF FileInv, IdsOf, Processes
    <3>6. \A q, p \in Processes : Updating(q)' /\ Updating(p)' => q = p
      BY <3>1 DEF FileInv
    <3> QED BY <3>1, <3>2, <3>3, <3>4, <3>5, <3>6 DEF FileInv
  <2> QED BY <1>1, <2>3, <2>4, RowsKept DEF InboxBounds
<1>3. CASE SmsId[sms[r]] \notin IdsOf(file)
  <2>1. BeginUpdate(r, file \cup {sms[r]}) /\ UNCHANGED <<sms, queued>>
    BY <1>3 DEF EnqueueSms
  <2>2. file \cup {sms[r]} \in SUBSET Sms
    BY <1>1 DEF ProcessesInv, InboxTypeOK
  <2>3. IdsOf(file) \subseteq IdsOf(file \cup {sms[r]}) /\ SmsId[sms[r]] \in IdsOf(file \cup {sms[r]})
    BY DEF IdsOf
  <2>4. ~Updating(r)
    BY <1>1 DEF Updating
  <2> QED BY <1>1, <2>1, <2>2, <2>3, <2>4, BeginStep
<1> QED BY <1>2, <1>3

\* remove
LEMMA RemoveStep == ASSUME InboxInv, NEW f \in Flushers, BeginRemove(f) PROVE InboxInv'
<1> USE DEF InboxInv
<1> DEFINE list == {e \in file : SmsId[e] # SmsId[sms[f]]}
<1>1. /\ place[f] = "remove" /\ sms[f] \in Sms /\ SmsId[sms[f]] \in Settled
      /\ f \in Processes /\ f \notin Receivers
      /\ mutex = NoOne /\ mutex' = f /\ BeginUpdate(f, list)
      /\ UNCHANGED <<file, revokedPhone, sms, todo, device, refused, keys, rows, queued,
                     broadcasts, restarts>>
  BY DEF BeginRemove, ProcessesInv, inbox, InboxBounds, Processes
<1>2. list \in SUBSET Sms /\ ~Updating(f)
  BY <1>1 DEF ProcessesInv, InboxTypeOK, Updating
<1>3. IdsOf(file) \subseteq IdsOf(list) \cup Settled
  BY <1>1 DEF IdsOf
<1> HIDE DEF list
<1> QED BY <1>1, <1>2, <1>3, BeginStep

\* The file is opened for writing.
LEMMA TruncateStep == ASSUME InboxInv, NEW p \in Processes, Truncate(p) PROVE InboxInv'
<1> USE DEF InboxInv
<1>1. /\ UNCHANGED <<revokedPhone, sms, copy, todo, mutex, device, refused, keys, rows, queued,
                     disturbed, broadcasts, restarts>>
      /\ place[p] = "truncate" /\ file' = {}
      /\ place' \in [Processes -> PLabels] /\ place'[p] = "write"
      /\ \A q \in Processes \ {p} : place'[q] = place[q]
  BY DEF Truncate, MoveTo, inbox, ProcessesInv, InboxTypeOK, PLabels
<1>2. Settled' = Settled /\ Flushers \subseteq Processes /\ Receivers \subseteq Processes
  BY <1>1 DEF Settled, IdsOf, Processes
<1>3. \A q \in Processes : Updating(q)' <=> Updating(q)
  BY <1>1 DEF Updating
<1>4. ProcessesInv'
  <2>1. \A q \in Processes :
          place'[q] \in {"truncate", "write"} <=> place[q] \in {"truncate", "write"}
    BY <1>1
  <2>2. InboxTypeOK'
    BY <1>1, <1>2, <2>1 DEF ProcessesInv, InboxTypeOK, PLabels
  <2> QED BY <1>1, <1>2, <1>3, <2>2 DEF ProcessesInv
<1>5. FileInv'
  <2> SUFFICES ASSUME ~disturbed PROVE FileInv'
    BY <1>1 DEF FileInv
  <2>1. \A q \in Processes : Updating(q) => q = p
    BY <1>1 DEF FileInv, Updating
  <2>2. Safe(file)
    BY <1>1, <2>1 DEF FileInv, AtRest, Updating
  <2>3. (Safe(copy[p]))'
    BY <1>1, <1>2, <2>2 DEF FileInv, Safe, IdsOf
  <2>4. \A r \in Receivers : Updating(r)' => SmsId[sms'[r]] \in (IdsOf(copy[r]))'
    BY <1>1, <1>2, <1>3 DEF FileInv, IdsOf
  <2> QED BY <1>1, <1>3, <2>1, <2>3, <2>4 DEF FileInv, AtRest, Updating
<1> QED BY <1>1, <1>4, <1>5, RowsKept DEF InboxBounds

\* The file is written.
LEMMA WriteStep == ASSUME InboxInv, NEW p \in Processes, Write(p) PROVE InboxInv'
<1> USE DEF InboxInv
<1>1. /\ UNCHANGED <<revokedPhone, todo, device, refused, keys, rows, disturbed, broadcasts,
                     restarts>>
      /\ place[p] = "write" /\ file' \in {copy[p], {}} /\ (file = {} => file' = copy[p])
      /\ copy' = [copy EXCEPT ![p] = {}] /\ sms' = [sms EXCEPT ![p] = NoOne]
      /\ \/ /\ p \in Receivers /\ MoveTo(p, "kick") /\ queued' = queued \cup {sms[p]}
            /\ mutex' = mutex
         \/ p \notin Receivers /\ MoveTo(p, "next") /\ mutex' = NoOne /\ queued' = queued
  BY DEF Write, inbox
<1>2. /\ place' \in [Processes -> PLabels] /\ sms' \in [Processes -> Sms \cup {NoOne}]
      /\ copy' \in [Processes -> SUBSET Sms] /\ copy[p] \subseteq Sms
      /\ place'[p] = IF p \in Receivers THEN "kick" ELSE "next"
      /\ \A q \in Processes \ {p} : place'[q] = place[q] /\ sms'[q] = sms[q] /\ copy'[q] = copy[q]
  BY <1>1 DEF MoveTo, ProcessesInv, InboxTypeOK, PLabels
<1>3. /\ Settled' = Settled /\ Flushers \subseteq Processes /\ Receivers \subseteq Processes
      /\ Receivers \cap Flushers = {} /\ p \in Receivers \cup Flushers /\ NoOne \notin Flushers
  BY <1>1 DEF Settled, IdsOf, Processes, InboxBounds
<1>4. p \in Receivers => sms[p] \in Sms
  BY <1>1 DEF ProcessesInv, Updating
<1>5. ProcessesInv'
  <2>1. \A f \in Flushers : place'[f] \in {"truncate", "write"} <=> mutex' = f
    <3>1. CASE p \in Receivers
      BY <1>1, <1>2, <1>3, <3>1 DEF ProcessesInv, InboxTypeOK
    <3>2. CASE p \in Flushers
      BY <1>1, <1>2, <1>3, <3>2 DEF ProcessesInv, InboxTypeOK
    <3> QED BY <1>3, <3>1, <3>2
  <2>2. file' \subseteq Sms /\ queued' \subseteq Sms /\ mutex' \in Flushers \cup {NoOne}
    BY <1>1, <1>2, <1>4 DEF ProcessesInv, InboxTypeOK
  <2>3. InboxTypeOK'
    BY <1>1, <1>2, <2>1, <2>2 DEF ProcessesInv, InboxTypeOK, PLabels
  <2> QED BY <1>1, <1>2, <1>3, <2>3 DEF ProcessesInv, Updating
<1>6. FileInv'
  <2> SUFFICES ASSUME ~disturbed PROVE FileInv'
    BY <1>1 DEF FileInv
  <2>1. file' = copy[p] /\ Safe(copy[p])
    BY <1>1 DEF FileInv
  <2>2. \A q \in Processes : ~Updating(q)'
    BY <1>1, <1>2 DEF FileInv, Updating
  <2>3. p \in Receivers => SmsId[sms[p]] \in IdsOf(copy[p])
    BY <1>1 DEF FileInv, Updating
  <2>4. Safe(file)'
    BY <1>1, <1>3, <2>1, <2>3 DEF Safe, IdsOf
  <2> QED BY <1>3, <2>2, <2>4 DEF FileInv, Updating
<1> QED BY <1>1, <1>5, <1>6, RowsKept DEF InboxBounds

\* The phone's process dies.
LEMMA DieStep == ASSUME InboxInv, RelayDies PROVE InboxInv'
<1> USE DEF InboxInv
<1>1. /\ UNCHANGED <<file, revokedPhone, device, refused, keys, rows, queued, broadcasts>>
      /\ place' = AllIdle /\ sms' = NoSms /\ copy' = Nothing /\ todo' = Nothing /\ mutex' = NoOne
      /\ restarts' \in 0..MaxRestarts
      /\ disturbed' = (disturbed \/ \E p \in Processes : place[p] = "write")
  BY DEF RelayDies, inbox, ProcessesInv, InboxTypeOK, InboxBounds
<1>2. /\ Settled' = Settled /\ Flushers \subseteq Processes /\ Receivers \subseteq Processes
      /\ NoOne \notin Flushers
  BY <1>1 DEF Settled, IdsOf, Processes, InboxBounds
<1>3. \A p \in Processes : place'[p] = "idle"
  BY <1>1 DEF AllIdle
<1>4. ProcessesInv'
  <2>1. InboxTypeOK'
    BY <1>1, <1>2 DEF ProcessesInv, InboxTypeOK, AllIdle, NoSms, Nothing
  <2> QED BY <1>1, <1>2, <1>3, <2>1 DEF ProcessesInv, Updating
<1>5. FileInv'
  <2> SUFFICES ASSUME ~disturbed' PROVE FileInv'
    BY DEF FileInv
  <2>1. Safe(file)
    BY <1>1 DEF FileInv, AtRest
  <2>2. Safe(file)'
    BY <1>1, <1>2, <2>1 DEF Safe, IdsOf
  <2> QED BY <1>2, <1>3, <2>2 DEF FileInv, Updating
<1> QED BY <1>1, <1>4, <1>5, RowsKept DEF InboxBounds

-----------------------------------------------------------------------------
LEMMA InboxInvStep == InboxInv /\ [InboxNext]_inboxVars => InboxInv'
<1> SUFFICES ASSUME InboxInv, [InboxNext]_inboxVars PROVE InboxInv'
  OBVIOUS
<1>1. CASE UNCHANGED inboxVars
  <2>1. ProcessesInv'
    BY <1>1 DEF inboxVars, relay, inbox, InboxInv, ProcessesInv, InboxTypeOK, Updating, Settled,
       IdsOf
  <2>2. FileInv'
    BY <1>1, Calm DEF inboxVars, relay, inbox, Updating
  <2>3. RowsInv'
    BY <1>1, RowsKept DEF inboxVars, inbox, InboxInv
  <2> QED BY <2>1, <2>2, <2>3 DEF InboxInv, InboxBounds
<1>2. ASSUME NEW r \in Receivers, ReceiverStep(r) \/ \E s \in Sms : Receive(r, s)
      PROVE  InboxInv'
  <2>1. r \in Processes
    BY DEF Processes
  <2> QED BY <1>2, <2>1, ReceiverCalm, EnqueueStep, TruncateStep, WriteStep DEF ReceiverStep
<1>3. ASSUME NEW f \in Flushers, FlushStep(f) PROVE InboxInv'
  <2>1. f \in Processes
    BY DEF Processes
  <2> QED BY <1>3, <2>1, FlushCalm, RemoveStep, TruncateStep, WriteStep DEF FlushStep
<1> QED BY <1>1, <1>2, <1>3, ElsewhereCalm, DieStep DEF InboxNext

LEMMA InboxInvariant == InboxSpec => []InboxInv
<1>1. ASSUME InboxInit PROVE InboxInv
  <2>1. /\ keys = {} /\ device = 1 /\ rows = [i \in Id |-> 0] /\ queued = {} /\ file = {}
        /\ revokedPhone = FALSE /\ refused = FALSE /\ disturbed = FALSE /\ mutex = NoOne
        /\ place = AllIdle /\ sms = NoSms /\ copy = Nothing /\ todo = Nothing
        /\ broadcasts = 0 /\ restarts = 0
    BY <1>1 DEF InboxInit
  <2>2. /\ \A p \in Processes : place[p] = "idle" /\ place \in [Processes -> PLabels]
        /\ Flushers \subseteq Processes /\ Receivers \subseteq Processes
    BY <2>1 DEF AllIdle, Processes, PLabels
  <2>3. InboxTypeOK
    <3>1. 1 \in 1..MaxDevices /\ 0 \in 0..MaxBroadcasts /\ 0 \in 0..MaxRestarts
      BY InboxBoundsHold DEF InboxBounds
    <3>2. NoOne \notin Flushers /\ rows \in [Id -> Nat] /\ place \in [Processes -> PLabels]
      BY <2>1, InboxBoundsHold DEF InboxBounds, Processes, AllIdle, PLabels
    <3>3. revokedPhone \in BOOLEAN /\ refused \in BOOLEAN /\ disturbed \in BOOLEAN
      BY <2>1
    <3> QED BY <2>1, <2>2, <3>1, <3>2, <3>3 DEF InboxTypeOK, NoSms, Nothing, PLabels
  <2>4. ProcessesInv /\ FileInv
    BY <2>1, <2>2, <2>3 DEF ProcessesInv, FileInv, Updating, Safe
  <2>5. RowsInv
    BY <2>1 DEF RowsInv
  <2> QED BY <2>4, <2>5, InboxBoundsHold DEF InboxInv
<1> QED BY <1>1, InboxInvStep, PTL DEF InboxSpec

\* The queue, the processes and the server's rows are well-formed, and the mutex's holder is
\* the one flush that is updating the file.
THEOREM InboxTypeCorrect == InboxSpec => []InboxTypeOK
<1>1. InboxInv => InboxTypeOK
  BY DEF InboxInv, ProcessesInv
<1> QED BY <1>1, InboxInvariant, PTL

\* No SMS that was queued is lost, whatever calls, registrations and processes fail, while no
\* two updates of the file overlap and none is cut short.
THEOREM NoSmsLost == InboxSpec => []LostOnlyWhenDisturbed
<1>1. InboxInv => LostOnlyWhenDisturbed
  BY DEF InboxInv, FileInv, Safe, Settled, LostOnlyWhenDisturbed, Kept
<1> QED BY <1>1, InboxInvariant, PTL

\* What a step does to the rows.
LEMMA RowsMove ==
  ASSUME InboxNext
  PROVE  \/ UNCHANGED <<device, keys, rows>>
         \/ \E s \in Sms : Store(s)
         \/ SaveNewCredentials
<1> DEFINE Still == UNCHANGED <<device, keys, rows>>
<1>1. \A p : Truncate(p) \/ Write(p) => Still
  BY DEF Truncate, Write, inbox
<1>2. ASSUME NEW r \in Receivers, ReceiverStep(r) \/ \E s \in Sms : Receive(r, s) PROVE Still
  BY <1>1, <1>2 DEF ReceiverStep, Receive, EnqueueSms, Kick, inbox
<1>3. ASSUME NEW f \in Flushers, FlushStep(f) PROVE Still \/ \E s \in Sms : Store(s)
  <2>1. CASE Peek(f) \/ BeginRemove(f) \/ FlushEnds(f)
    BY <2>1 DEF Peek, BeginRemove, FlushEnds, inbox
  <2>2. ASSUME NEW s \in Sms, PushAnswered(f, s) \/ PushLost(f, s)
        PROVE  Still \/ Store(s)
    BY <2>2 DEF PushAnswered, PushLost, inbox
  <2>3. ASSUME NEW s \in Sms, PushRateLimited(f, s) \/ PushUnauthorized(f, s) PROVE Still
    BY <2>3 DEF PushRateLimited, PushUnauthorized, inbox
  <2> QED BY <1>1, <1>3, <2>1, <2>2, <2>3 DEF FlushStep
<1>4. RevokePhone \/ OtherCallUnauthorized \/ RelayDies => Still
  BY DEF RevokePhone, OtherCallUnauthorized, Elsewhere, RelayDies, inbox
<1> QED BY <1>2, <1>3, <1>4 DEF InboxNext

\* However often an SMS is broadcast, pushed and pushed again, a registration has one row of
\* it: there are as many rows as there are registrations that brought it.
THEOREM OneRowEach == InboxSpec => []OneRowPerRegistration
<1>1. ASSUME InboxInit PROVE OneRowPerRegistration
  <2>1. \A i \in Id : BroughtBy(i) = {} /\ rows[i] = 0
    BY <1>1 DEF InboxInit, BroughtBy
  <2> QED BY <2>1, FS_EmptySet DEF OneRowPerRegistration
<1>2. ASSUME InboxInv, OneRowPerRegistration, [InboxNext]_inboxVars PROVE OneRowPerRegistration'
  <2>1. /\ device \in Nat \ {0} /\ keys \subseteq (1..device) \X Id
        /\ rows \in [Id -> Nat] /\ SmsId \in [Sms -> Id]
    BY <1>2 DEF InboxInv, RowsInv, ProcessesInv, InboxTypeOK, InboxBounds
  <2>2. ASSUME NEW i PROVE IsFiniteSet(BroughtBy(i))
    <3>1. IsFiniteSet(1..device) /\ BroughtBy(i) \in SUBSET (1..device)
      BY <2>1, FS_Interval DEF BroughtBy
    <3> QED BY <3>1, FS_Subset
  <2>3. CASE UNCHANGED <<device, keys, rows>>
    BY <1>2, <2>3 DEF OneRowPerRegistration, BroughtBy
  <2>4. ASSUME NEW s \in Sms, Store(s) PROVE OneRowPerRegistration'
    <3>1. CASE <<device, SmsId[s]>> \in keys
      BY <1>2, <2>4, <3>1 DEF Store, OneRowPerRegistration, BroughtBy
    <3>2. CASE <<device, SmsId[s]>> \notin keys
      <4>1. PICK i \in Id : i = SmsId[s]
        BY <2>1
      <4>2. /\ keys' = keys \cup {<<device, i>>} /\ device' = device
            /\ rows' = [rows EXCEPT ![i] = @ + 1]
        BY <2>4, <3>2, <4>1 DEF Store
      <4>3. /\ BroughtBy(i)' = BroughtBy(i) \cup {device} /\ device \notin BroughtBy(i)
            /\ \A j \in Id \ {i} : BroughtBy(j)' = BroughtBy(j)
        BY <2>1, <3>2, <4>1, <4>2 DEF BroughtBy
      <4>4. Cardinality(BroughtBy(i)') = Cardinality(BroughtBy(i)) + 1
        BY <2>2, <4>3, FS_AddElement
      <4> QED BY <1>2, <2>1, <4>2, <4>3, <4>4 DEF OneRowPerRegistration
    <3> QED BY <3>1, <3>2
  <2>5. CASE SaveNewCredentials
    <3>1. device' = device + 1 /\ UNCHANGED <<keys, rows>>
      BY <2>5 DEF SaveNewCredentials, Elsewhere
    <3>2. \A i \in Id : BroughtBy(i)' = BroughtBy(i)
      BY <2>1, <3>1 DEF BroughtBy
    <3> QED BY <1>2, <3>1, <3>2 DEF OneRowPerRegistration
  <2>6. CASE UNCHANGED inboxVars
    BY <2>3, <2>6 DEF inboxVars, inbox
  <2> QED BY <1>2, <2>3, <2>4, <2>5, <2>6, RowsMove
<1> QED BY <1>1, <1>2, InboxInvariant, PTL DEF InboxSpec

-----------------------------------------------------------------------------
(* DeviceInbox implements Relay.                                              *)

\* What this registration was answered for.
HandedOver(i) == <<device, i>> \in keys \/ i \in IdsOf(Unacceptable)

\* A flush removes what was answered, and between two flushes there is no snapshot.
FlushOK(f) ==
  /\ todo[f] # {} => place[f] # "idle"
  /\ place[f] \in {"remove", "truncate"} => sms[f] \in Sms /\ HandedOver(SmsId[sms[f]])

KeysShown == \A i \in Id, d \in 1..MaxDevices : <<d, i>> \in keys => rows[i] > 0

HandedInv == KeysShown /\ \A f \in Flushers : FlushOK(f)

\* Until two updates overlap, a flush's snapshot is out of date only in what was answered,
\* and an update writes back what the file still holds.
SnapshotInv ==
  ~disturbed =>
    /\ \A f \in Flushers : \A s \in todo[f] : SmsId[s] \in Held \/ HandedOver(SmsId[s])
    /\ \A r \in Receivers : place[r] = "truncate" => copy[r] = file \cup {sms[r]}
    /\ \A f \in Flushers : place[f] = "truncate"
                             => copy[f] = {e \in file : SmsId[e] # SmsId[sms[f]]}

\* A flush that another process's step leaves alone, or kicks.
LEMMA FlushKept ==
  ASSUME NEW f, FlushOK(f), device' = device, keys \subseteq keys', todo'[f] = todo[f],
         sms'[f] = sms[f], place'[f] = place[f] \/ (place[f] = "idle" /\ place'[f] = "peek")
  PROVE  FlushOK(f)'
BY DEF FlushOK, HandedOver, IdsOf

\* A receiver's step does nothing to the flushes but to kick one.
LEMMA ReceiverFrame ==
  ASSUME InboxInv, NEW r \in Receivers, ReceiverStep(r) \/ \E s \in Sms : Receive(r, s)
  PROVE  /\ UNCHANGED <<todo, device, refused, keys, rows>>
         /\ \A f \in Flushers :
              /\ sms'[f] = sms[f]
              /\ place'[f] = place[f] \/ (place[f] = "idle" /\ place'[f] = "peek")
<1>1. /\ r \in Processes /\ r \notin Flushers /\ Flushers \subseteq Processes
      /\ Kicks \subseteq Flushers
      /\ place \in [Processes -> PLabels] /\ sms \in [Processes -> Sms \cup {NoOne}]
  BY DEF InboxInv, InboxBounds, Processes, Flushers, ProcessesInv, InboxTypeOK, PLabels
<1>2. CASE \E s \in Sms : Receive(r, s)
  BY <1>1, <1>2 DEF Receive, MoveTo, inbox
<1>3. CASE EnqueueSms(r)
  BY <1>1, <1>3 DEF EnqueueSms, BeginUpdate, MoveTo, inbox
<1>4. CASE Truncate(r) \/ Write(r)
  BY <1>1, <1>4 DEF Truncate, Write, MoveTo, inbox
<1>5. CASE Kick(r)
  BY <1>1, <1>5 DEF Kick, MoveTo, inbox
<1> QED BY <1>2, <1>3, <1>4, <1>5 DEF ReceiverStep

\* A flush's step, but for the server's answer.
FlushMoves(f) ==
  \/ /\ place[f] \in {"idle", "peek"} /\ place'[f] = "next" /\ todo'[f] = file
  \/ /\ place'[f] = "idle" /\ todo'[f] = {}
  \/ /\ place'[f] = "next" /\ todo'[f] \subseteq todo[f] /\ place[f] \in {"next", "write"}
  \/ /\ place'[f] = "remove" /\ todo'[f] \subseteq todo[f] /\ place[f] = "next"
     /\ sms'[f] \in Sms /\ HandedOver(SmsId[sms[f]])'
  \/ /\ place'[f] = "truncate" /\ todo'[f] = todo[f] /\ place[f] = "remove"
     /\ sms'[f] = sms[f]
  \/ /\ place'[f] = "write" /\ todo'[f] = todo[f] /\ place[f] = "truncate"

\* Storing a message answers for it, and its row is there.
LEMMA StoreHands ==
  ASSUME InboxInv, KeysShown, NEW s \in Sms, Store(s)
  PROVE  KeysShown' /\ HandedOver(SmsId[s])' /\ device' = device /\ keys \subseteq keys'
<1>1. SmsId[s] \in Id /\ device \in 1..MaxDevices /\ rows \in [Id -> Nat] /\ device' = device
  BY DEF InboxInv, InboxBounds, ProcessesInv, InboxTypeOK, Store
<1>2. CASE <<device, SmsId[s]>> \in keys
  BY <1>1, <1>2 DEF Store, KeysShown, HandedOver
<1>3. CASE <<device, SmsId[s]>> \notin keys
  <2>1. /\ keys' = keys \cup {<<device, SmsId[s]>>}
        /\ rows' = [rows EXCEPT ![SmsId[s]] = rows[SmsId[s]] + 1]
    BY <1>3 DEF Store
  <2>2. KeysShown'
    BY <1>1, <2>1 DEF KeysShown
  <2> QED BY <1>1, <2>1, <2>2 DEF HandedOver
<1> QED BY <1>2, <1>3

LEMMA FlushFrame ==
  ASSUME InboxInv, KeysShown, NEW f \in Flushers, FlushStep(f)
  PROVE  /\ UNCHANGED <<device, refused>> /\ keys \subseteq keys' /\ KeysShown'
         /\ \A g \in Flushers \ {f} : place'[g] = place[g] /\ sms'[g] = sms[g] /\ todo'[g] = todo[g]
         /\ FlushMoves(f)
<1>1. /\ f \in Processes /\ f \notin Receivers /\ Flushers \subseteq Processes
      /\ place \in [Processes -> PLabels] /\ sms \in [Processes -> Sms \cup {NoOne}]
      /\ todo \in [Processes -> SUBSET Sms]
  BY DEF InboxInv, InboxBounds, Processes, ProcessesInv, InboxTypeOK, PLabels
<1> DEFINE Others == \A g \in Flushers \ {f} :
                       place'[g] = place[g] /\ sms'[g] = sms[g] /\ todo'[g] = todo[g]
           Quiet  == UNCHANGED <<device, refused, keys, rows>>
<1>2. Quiet => KeysShown' /\ keys \subseteq keys' /\ UNCHANGED <<device, refused>>
  BY DEF KeysShown
<1>3. CASE Peek(f)
  BY <1>1, <1>2, <1>3 DEF Peek, MayStart, MoveTo, FlushMoves, inbox
<1>4. CASE FlushEnds(f)
  BY <1>1, <1>2, <1>4 DEF FlushEnds, EndFlush, MoveTo, FlushMoves, inbox
<1>5. CASE BeginRemove(f)
  BY <1>1, <1>2, <1>5 DEF BeginRemove, BeginUpdate, MoveTo, FlushMoves, inbox
<1>6. CASE Truncate(f)
  BY <1>1, <1>2, <1>6 DEF Truncate, MoveTo, FlushMoves, inbox
<1>7. CASE Write(f)
  BY <1>1, <1>2, <1>7 DEF Write, MoveTo, FlushMoves, inbox
<1>8. ASSUME NEW s \in Sms, PushRateLimited(f, s) \/ PushUnauthorized(f, s)
      PROVE  Quiet /\ Others /\ FlushMoves(f)
  BY <1>1, <1>8 DEF PushRateLimited, PushUnauthorized, Pushes, EndFlush, MoveTo, FlushMoves, inbox
<1>9. ASSUME NEW s \in Sms, PushLost(f, s)
      PROVE  /\ UNCHANGED <<device, refused>> /\ keys \subseteq keys' /\ KeysShown'
             /\ Others /\ FlushMoves(f)
  <2>1. Others /\ FlushMoves(f)
    BY <1>1, <1>9 DEF PushLost, Pushes, Tried, FlushMoves
  <2>2. Quiet \/ Store(s)
    BY <1>9 DEF PushLost, inbox
  <2>3. Store(s) => UNCHANGED <<device, refused>>
    BY DEF Store
  <2> QED BY <1>2, <2>1, <2>2, <2>3, StoreHands
<1>10. ASSUME NEW s \in Sms, PushAnswered(f, s)
       PROVE  /\ UNCHANGED <<device, refused>> /\ keys \subseteq keys' /\ KeysShown'
              /\ Others /\ FlushMoves(f)
  <2>1. (Quiet /\ s \in Unacceptable) \/ Store(s)
    BY <1>10 DEF PushAnswered, inbox
  <2>2. Store(s) => UNCHANGED <<device, refused>>
    BY DEF Store
  <2>3. Quiet /\ s \in Unacceptable => HandedOver(SmsId[s])'
    BY DEF HandedOver, IdsOf
  <2>4. HandedOver(SmsId[s])'
    BY <2>1, <2>3, StoreHands
  <2>5. Others /\ sms'[f] = s /\ todo'[f] \subseteq todo[f]
        /\ place[f] = "next" /\ place'[f] = "remove"
    BY <1>1, <1>10 DEF PushAnswered, Pushes, Tried, MoveTo
  <2>6. FlushMoves(f)
    <3>1. HandedOver(SmsId[sms[f]])'
      BY <2>4, <2>5 DEF HandedOver
    <3> QED BY <2>5, <3>1 DEF FlushMoves
  <2> QED BY <1>2, <2>1, <2>2, <2>5, <2>6, StoreHands
<1> QED BY <1>2, <1>3, <1>4, <1>5, <1>6, <1>7, <1>8, <1>9, <1>10 DEF FlushStep

LEMMA HandedStep == InboxInv /\ HandedInv /\ [InboxNext]_inboxVars => HandedInv'
<1> SUFFICES ASSUME InboxInv, HandedInv, [InboxNext]_inboxVars PROVE HandedInv'
  OBVIOUS
<1>1. Flushers \subseteq Processes
  BY DEF Processes
<1>2. ASSUME NEW r \in Receivers, ReceiverStep(r) \/ \E s \in Sms : Receive(r, s)
      PROVE  HandedInv'
  <2>1. KeysShown'
    BY <1>2, ReceiverFrame DEF HandedInv, KeysShown
  <2> QED BY <1>2, <2>1, ReceiverFrame, FlushKept DEF HandedInv
<1>3. ASSUME NEW f \in Flushers, FlushStep(f) PROVE HandedInv'
  <2>1. /\ KeysShown' /\ device' = device /\ keys \subseteq keys' /\ FlushMoves(f)
        /\ \A g \in Flushers \ {f} : place'[g] = place[g] /\ sms'[g] = sms[g] /\ todo'[g] = todo[g]
    BY <1>3, FlushFrame DEF HandedInv
  <2>2. \A g \in Flushers \ {f} : FlushOK(g)'
    BY <2>1, FlushKept DEF HandedInv
  <2>3. place'[f] = "remove" => HandedOver(SmsId[sms[f]])' /\ sms'[f] \in Sms
    BY <2>1 DEF FlushMoves
  <2>4. place'[f] = "truncate" => HandedOver(SmsId[sms[f]])' /\ sms'[f] \in Sms
    <3> SUFFICES ASSUME place'[f] = "truncate" PROVE HandedOver(SmsId[sms[f]])' /\ sms'[f] \in Sms
      OBVIOUS
    <3>1. place[f] = "remove" /\ sms'[f] = sms[f]
      BY <2>1 DEF FlushMoves
    <3> QED BY <2>1, <3>1 DEF HandedInv, FlushOK, HandedOver, IdsOf
  <2>5. todo'[f] # {} => place'[f] # "idle"
    BY <2>1 DEF FlushMoves
  <2>6. FlushOK(f)'
    BY <2>3, <2>4, <2>5 DEF FlushOK
  <2> QED BY <2>1, <2>2, <2>6 DEF HandedInv
<1>4. CASE RevokePhone \/ OtherCallUnauthorized \/ UNCHANGED inboxVars
  <2>1. UNCHANGED <<place, sms, todo, device, keys, rows>>
    BY <1>4 DEF RevokePhone, OtherCallUnauthorized, Elsewhere, relay, inboxVars, inbox
  <2> QED BY <2>1, FlushKept DEF HandedInv, KeysShown
<1>5. CASE SaveNewCredentials
  <2>1. UNCHANGED <<place, sms, todo, keys, rows>> /\ \A f \in Flushers : place[f] = "idle"
    BY <1>5 DEF SaveNewCredentials, Elsewhere, relay
  <2> QED BY <2>1 DEF HandedInv, KeysShown, FlushOK
<1>6. CASE RelayDies
  <2>1. /\ UNCHANGED <<device, keys, rows>>
        /\ \A f \in Flushers : place'[f] = "idle" /\ todo'[f] = {}
    BY <1>1, <1>6 DEF RelayDies, AllIdle, Nothing, inbox
  <2> QED BY <2>1 DEF HandedInv, KeysShown, FlushOK
<1> QED BY <1>2, <1>3, <1>4, <1>5, <1>6 DEF InboxNext
-----------------------------------------------------------------------------
\* A step of the relay is a step of the promise or leaves it where it was.
RelayStep == [Promised!Next]_(Promised!vars)

LEMMA HeldType == InboxInv => Held \in SUBSET Id
BY DEF InboxInv, InboxBounds, ProcessesInv, InboxTypeOK, Held, IdsOf

LEMMA HeldKept ==
  ASSUME file' = file,
         \A p \in Processes : (place'[p] = "write" <=> place[p] = "write")
                              /\ (place[p] = "write" => copy'[p] = copy[p])
  PROVE  Held' = Held
BY DEF Held, IdsOf

\* While nothing is about to be written, the queue is all there is.
LEMMA HeldAtRest == AtRest => Held = IdsOf(file)
BY DEF Held, AtRest

LEMMA Stutters == ASSUME Held' = Held, UNCHANGED <<rows, device, disturbed>> PROVE RelayStep
BY DEF RelayStep, Promised!vars

LEMMA Upsets ==
  ASSUME InboxInv', disturbed', UNCHANGED <<rows, device>>
  PROVE  RelayStep /\ SnapshotInv'
<1>1. disturbed' = TRUE
  <2>1. disturbed' \in BOOLEAN
    BY DEF InboxInv, ProcessesInv, InboxTypeOK
  <2> QED BY <2>1
<1>2. (Held \in SUBSET Id)'
  BY HeldType, PTL
<1> QED BY <1>1, <1>2 DEF RelayStep, Promised!Next, Promised!Upset, SnapshotInv

\* A step that leaves the file and its updates alone.
QuietUpdates ==
  /\ UNCHANGED <<file, copy, disturbed>>
  /\ \A p \in Processes : Updating(p) \/ Updating(p)'
                          => place'[p] = place[p] /\ sms'[p] = sms[p]

LEMMA SnapshotKept ==
  ASSUME SnapshotInv, QuietUpdates,
         \A f \in Flushers : todo'[f] \subseteq todo[f] \/ todo'[f] = file,
         (device' = device /\ keys \subseteq keys') \/ \A f \in Flushers : todo'[f] = {}
  PROVE  SnapshotInv' /\ Held' = Held
<1> USE DEF QuietUpdates
<1>1. \A p \in Processes : (place'[p] = "truncate" <=> place[p] = "truncate")
                           /\ (place'[p] = "write" <=> place[p] = "write")
                           /\ (place[p] = "truncate" => sms'[p] = sms[p])
  BY DEF Updating
<1>2. Held' = Held
  BY <1>1, HeldKept
<1>3. ASSUME ~disturbed, NEW f \in Flushers, NEW s \in todo'[f]
      PROVE  SmsId[s] \in Held' \/ HandedOver(SmsId[s])'
  <2>1. device' = device /\ keys \subseteq keys'
    BY <1>3
  <2>2. CASE s \in todo[f]
    BY <1>2, <1>3, <2>1, <2>2 DEF SnapshotInv, HandedOver, IdsOf
  <2>3. CASE s \in file
    BY <1>2, <2>3 DEF Held, IdsOf
  <2> QED BY <1>3, <2>2, <2>3
<1>4. Receivers \subseteq Processes /\ Flushers \subseteq Processes
  BY DEF Processes
<1> QED BY <1>1, <1>2, <1>3, <1>4 DEF SnapshotInv

LEMMA QuietReceiver ==
  ASSUME InboxInv, NEW r \in Receivers,
         \/ Kick(r) \/ \E s \in Sms : Receive(r, s)
         \/ EnqueueSms(r) /\ SmsId[sms[r]] \in IdsOf(file)
  PROVE  QuietUpdates
<1>1. /\ r \in Processes /\ r \notin Flushers /\ Kicks \subseteq Processes
      /\ place \in [Processes -> PLabels] /\ sms \in [Processes -> Sms \cup {NoOne}]
  BY DEF InboxInv, InboxBounds, Processes, Flushers, ProcessesInv, InboxTypeOK, PLabels
<1>2. CASE Kick(r)
  BY <1>1, <1>2 DEF Kick, MoveTo, QuietUpdates, Updating
<1>3. CASE \E s \in Sms : Receive(r, s)
  BY <1>1, <1>3 DEF Receive, MoveTo, QuietUpdates, Updating
<1>4. CASE EnqueueSms(r) /\ SmsId[sms[r]] \in IdsOf(file)
  BY <1>1, <1>4 DEF EnqueueSms, MoveTo, QuietUpdates, Updating
<1> QED BY <1>2, <1>3, <1>4

LEMMA QuietFlush ==
  ASSUME InboxInv, NEW f \in Flushers,
         \/ Peek(f) \/ FlushEnds(f)
         \/ \E s \in Sms : PushAnswered(f, s) \/ PushLost(f, s)
                            \/ PushRateLimited(f, s) \/ PushUnauthorized(f, s)
  PROVE  QuietUpdates /\ \A g \in Flushers : todo'[g] \subseteq todo[g] \/ todo'[g] = file
<1>1. /\ f \in Processes /\ Flushers \subseteq Processes
      /\ place \in [Processes -> PLabels] /\ sms \in [Processes -> Sms \cup {NoOne}]
      /\ todo \in [Processes -> SUBSET Sms]
  BY DEF InboxInv, InboxBounds, Processes, ProcessesInv, InboxTypeOK, PLabels
<1>2. CASE Peek(f)
  BY <1>1, <1>2 DEF Peek, MayStart, MoveTo, QuietUpdates, Updating
<1>3. CASE FlushEnds(f)
  BY <1>1, <1>3 DEF FlushEnds, EndFlush, MoveTo, QuietUpdates, Updating
<1>4. ASSUME NEW s \in Sms, PushRateLimited(f, s) \/ PushUnauthorized(f, s)
      PROVE  QuietUpdates /\ \A g \in Flushers : todo'[g] \subseteq todo[g]
  BY <1>1, <1>4 DEF PushRateLimited, PushUnauthorized, Pushes, EndFlush, MoveTo, QuietUpdates,
     Updating
<1>5. ASSUME NEW s \in Sms, PushAnswered(f, s) \/ PushLost(f, s)
      PROVE  QuietUpdates /\ \A g \in Flushers : todo'[g] \subseteq todo[g]
  BY <1>1, <1>5 DEF PushAnswered, PushLost, Pushes, Tried, MoveTo, QuietUpdates, Updating
<1> QED BY <1>2, <1>3, <1>4, <1>5

\* A push shows a message that the phone has, or that was refused or shown before.
LEMMA StoreStep ==
  ASSUME InboxInv, SnapshotInv, NEW f \in Flushers, NEW s \in todo[f], s \in Sms, Store(s),
         Held' = Held, disturbed' = disturbed
  PROVE  RelayStep
<1>1. SmsId[s] \in Id /\ device' = device
  BY DEF InboxInv, InboxBounds, Store
<1>2. CASE <<device, SmsId[s]>> \in keys
  BY <1>1, <1>2, Stutters DEF Store
<1>3. CASE <<device, SmsId[s]>> \notin keys
  <2>1. SmsId[s] \in Held \cup IdsOf(Unacceptable) \/ disturbed
    BY <1>3 DEF SnapshotInv, HandedOver
  <2>2. rows[SmsId[s]] < device
    BY <1>1, <1>3 DEF InboxInv, RowsInv
  <2>3. rows' = [rows EXCEPT ![SmsId[s]] = @ + 1]
    BY <1>3 DEF Store
  <2>4. Promised!Hand(SmsId[s])
    BY <1>1, <2>1, <2>2, <2>3 DEF Promised!Hand
  <2> QED BY <1>1, <2>4 DEF RelayStep, Promised!Next
<1> QED BY <1>2, <1>3
-----------------------------------------------------------------------------
\* Every action keeps the snapshots and the promise.
LEMMA QuietStep ==
  ASSUME InboxInv, SnapshotInv, QuietUpdates, UNCHANGED <<device, keys, rows>>,
         \A f \in Flushers : todo'[f] \subseteq todo[f] \/ todo'[f] = file
  PROVE  SnapshotInv' /\ RelayStep
<1>1. SnapshotInv' /\ Held' = Held
  BY SnapshotKept
<1> QED BY <1>1, Stutters DEF QuietUpdates

\* An update begins.
LEMMA BeginRelays ==
  ASSUME InboxInv, InboxInv', SnapshotInv, NEW p \in Processes, NEW list,
         BeginUpdate(p, list), UNCHANGED <<file, sms, todo, device, keys, rows>>, ~Updating(p),
         p \in Receivers => list = file \cup {sms[p]},
         p \in Flushers => list = {e \in file : SmsId[e] # SmsId[sms[p]]}
  PROVE  SnapshotInv' /\ RelayStep
<1>1. CASE disturbed'
  BY <1>1, Upsets
<1>2. CASE ~disturbed'
  <2>0. disturbed \in BOOLEAN /\ disturbed' \in BOOLEAN
    BY DEF InboxInv, ProcessesInv, InboxTypeOK
  <2>1. /\ ~disturbed /\ \A q \in Processes : ~Updating(q)
        /\ disturbed' = disturbed
    <3>1. ~disturbed /\ \A q \in Processes : ~Updating(q)
      BY <1>2 DEF BeginUpdate, Updating
    <3> QED BY <1>2, <2>0, <3>1
  <2>2. /\ place'[p] = "truncate" /\ copy'[p] = list
        /\ \A q \in Processes \ {p} : place'[q] = place[q] /\ copy'[q] = copy[q]
    BY DEF BeginUpdate, MoveTo, InboxInv, ProcessesInv, InboxTypeOK
  <2>3. Held' = Held
    BY <2>1, <2>2, HeldKept DEF Updating
  <2>4. Receivers \subseteq Processes /\ Flushers \subseteq Processes
    BY DEF Processes
  <2>5. \A q \in Processes : place'[q] = "truncate" => q = p
    BY <2>1, <2>2 DEF Updating
  <2>6. \A f \in Flushers : \A s \in todo'[f] : SmsId[s] \in Held' \/ HandedOver(SmsId[s])'
    BY <2>1, <2>3 DEF SnapshotInv, HandedOver, IdsOf
  <2> QED BY <2>1, <2>2, <2>3, <2>4, <2>5, <2>6, Stutters DEF SnapshotInv
<1> QED BY <1>1, <1>2

\* The file is opened for writing: the phone has the received message now, or has let go
\* of the answered one.
LEMMA TruncateRelays ==
  ASSUME InboxInv, InboxInv', HandedInv, SnapshotInv, NEW p \in Processes, Truncate(p)
  PROVE  SnapshotInv' /\ RelayStep
<1>1. /\ UNCHANGED <<sms, copy, todo, device, keys, rows, disturbed>>
      /\ place[p] = "truncate" /\ file' = {} /\ place'[p] = "write"
      /\ \A q \in Processes \ {p} : place'[q] = place[q]
  BY DEF Truncate, MoveTo, inbox, InboxInv, ProcessesInv, InboxTypeOK
<1>2. CASE disturbed
  BY <1>1, <1>2, Upsets
<1>3. CASE ~disturbed
  <2>1. \A q \in Processes : Updating(q) => q = p
    BY <1>1, <1>3 DEF InboxInv, FileInv, Updating
  <2>2. Held = IdsOf(file)
    BY <1>1, <2>1, HeldAtRest DEF AtRest, Updating
  <2>3. Held' = IdsOf(copy[p])
    BY <1>1, <2>1 DEF Held, IdsOf, Updating
  <2>4. \A q \in Processes : place'[q] # "truncate"
    BY <1>1, <2>1 DEF Updating
  <2>5. Receivers \subseteq Processes /\ Flushers \subseteq Processes
    BY DEF Processes
  <2>6. \A i : HandedOver(i) => HandedOver(i)'
    BY <1>1 DEF HandedOver, IdsOf
  <2> DEFINE i == SmsId[sms[p]]
  <2>7. CASE p \in Receivers
    <3>1. copy[p] = file \cup {sms[p]} /\ sms[p] \in Sms
      BY <1>1, <1>3, <2>7 DEF SnapshotInv, InboxInv, ProcessesInv, Updating
    <3>2. Held' = Held \cup {i} /\ i \in Id
      BY <2>2, <2>3, <3>1 DEF IdsOf, InboxInv, InboxBounds
    <3>3. Promised!Keep(i)
      BY <1>1, <3>2 DEF Promised!Keep
    <3>4. RelayStep
      BY <3>2, <3>3 DEF RelayStep, Promised!Next
    <3>5. SnapshotInv'
      BY <1>1, <1>3, <2>4, <2>5, <2>6, <3>2 DEF SnapshotInv
    <3> QED BY <3>4, <3>5
  <2>8. CASE p \in Flushers
    <3>1. /\ copy[p] = {e \in file : SmsId[e] # i}
          /\ sms[p] \in Sms /\ HandedOver(i)
      BY <1>1, <1>3, <2>8 DEF SnapshotInv, HandedInv, FlushOK
    <3>2. Held' = Held \ {i} /\ i \in Id
      BY <2>2, <2>3, <3>1 DEF IdsOf, InboxInv, InboxBounds
    <3>3. rows[i] > 0 \/ i \in IdsOf(Unacceptable)
      BY <3>1, <3>2 DEF HandedOver, HandedInv, KeysShown, InboxInv, ProcessesInv, InboxTypeOK
    <3>4. ASSUME i \in Held PROVE RelayStep
      <4>1. Promised!LetGo(i)
        BY <1>1, <3>2, <3>3, <3>4 DEF Promised!LetGo
      <4> QED BY <3>2, <4>1 DEF RelayStep, Promised!Next
    <3>5. ASSUME i \notin Held PROVE RelayStep
      <4>1. Held' = Held
        BY <3>2, <3>5
      <4> QED BY <1>1, <4>1, Stutters
    <3>6. RelayStep
      BY <3>4, <3>5
    <3>7. \A f \in Flushers : \A s \in todo'[f] : SmsId[s] \in Held' \/ HandedOver(SmsId[s])'
      BY <1>1, <1>3, <2>6, <3>1, <3>2 DEF SnapshotInv
    <3>8. SnapshotInv'
      BY <2>4, <2>5, <3>7 DEF SnapshotInv
    <3> QED BY <3>6, <3>8
  <2> QED BY <2>7, <2>8 DEF Processes
<1> QED BY <1>2, <1>3

\* The file is written.
LEMMA WriteRelays ==
  ASSUME InboxInv, InboxInv', SnapshotInv, NEW p \in Processes, Write(p)
  PROVE  SnapshotInv' /\ RelayStep
<1>1. /\ UNCHANGED <<todo, device, keys, rows, disturbed>>
      /\ place[p] = "write" /\ place'[p] \notin {"truncate", "write"}
      /\ \A q \in Processes \ {p} : place'[q] = place[q] /\ copy'[q] = copy[q]
      /\ file = {} => file' = copy[p]
  BY DEF Write, MoveTo, inbox, InboxInv, ProcessesInv, InboxTypeOK
<1>2. CASE disturbed
  BY <1>1, <1>2, Upsets
<1>3. CASE ~disturbed
  <2>1. file = {} /\ \A q \in Processes : Updating(q) => q = p
    BY <1>1, <1>3 DEF InboxInv, FileInv, Updating
  <2>2. \A q \in Processes : place'[q] \notin {"truncate", "write"}
    BY <1>1, <2>1 DEF Updating
  <2>3. Held = IdsOf(copy[p])
    BY <1>1, <2>1 DEF Held, IdsOf, Updating
  <2>4. Held' = IdsOf(copy[p])
    BY <1>1, <2>1, <2>2 DEF Held, IdsOf
  <2>5. Receivers \subseteq Processes /\ Flushers \subseteq Processes
    BY DEF Processes
  <2>6. \A f \in Flushers : \A s \in todo'[f] : SmsId[s] \in Held' \/ HandedOver(SmsId[s])'
    BY <1>1, <1>3, <2>3, <2>4 DEF SnapshotInv, HandedOver, IdsOf
  <2> QED BY <1>1, <2>2, <2>3, <2>4, <2>5, <2>6, Stutters DEF SnapshotInv
<1> QED BY <1>2, <1>3

\* The phone's process dies: it has what the file has, unless it died over a write.
LEMMA DieRelays ==
  ASSUME InboxInv, InboxInv', SnapshotInv, RelayDies
  PROVE  SnapshotInv' /\ RelayStep
<1>1. /\ UNCHANGED <<file, device, keys, rows>>
      /\ \A p \in Processes : place'[p] = "idle" /\ todo'[p] = {}
      /\ disturbed' = (disturbed \/ \E p \in Processes : place[p] = "write")
  BY DEF RelayDies, AllIdle, Nothing, inbox
<1>2. CASE disturbed'
  BY <1>1, <1>2, Upsets
<1>3. CASE ~disturbed'
  <2>1. disturbed' = disturbed /\ \A p \in Processes : place[p] # "write"
    <3>1. disturbed \in BOOLEAN /\ disturbed' \in BOOLEAN
      BY DEF InboxInv, ProcessesInv, InboxTypeOK
    <3>2. ~disturbed /\ \A p \in Processes : place[p] # "write"
      BY <1>1, <1>3
    <3> QED BY <1>3, <3>1, <3>2
  <2>2. Held' = Held
    BY <1>1, <2>1, HeldKept
  <2>3. Receivers \subseteq Processes /\ Flushers \subseteq Processes
    BY DEF Processes
  <2> QED BY <1>1, <2>1, <2>2, <2>3, Stutters DEF SnapshotInv
<1> QED BY <1>2, <1>3
LEMMA ReceiverRelays ==
  ASSUME InboxInv, InboxInv', HandedInv, SnapshotInv, NEW r \in Receivers,
         ReceiverStep(r) \/ \E s \in Sms : Receive(r, s)
  PROVE  SnapshotInv' /\ RelayStep
<1>1. /\ r \in Processes /\ r \notin Flushers
      /\ UNCHANGED <<todo, device, keys, rows>>
  BY ReceiverFrame DEF InboxInv, InboxBounds, Processes
<1>2. CASE Kick(r) \/ \E s \in Sms : Receive(r, s)
  BY <1>1, <1>2, QuietReceiver, QuietStep
<1>3. CASE EnqueueSms(r) /\ SmsId[sms[r]] \in IdsOf(file)
  BY <1>1, <1>3, QuietReceiver, QuietStep
<1>4. CASE EnqueueSms(r) /\ SmsId[sms[r]] \notin IdsOf(file)
  <2>1. /\ BeginUpdate(r, file \cup {sms[r]}) /\ UNCHANGED <<file, sms>>
        /\ ~Updating(r)
    BY <1>4 DEF EnqueueSms, Updating
  <2> QED BY <1>1, <2>1, BeginRelays
<1>5. CASE Truncate(r) \/ Write(r)
  BY <1>1, <1>5, TruncateRelays, WriteRelays
<1> QED BY <1>2, <1>3, <1>4, <1>5 DEF ReceiverStep

LEMMA FlushRelays ==
  ASSUME InboxInv, InboxInv', HandedInv, SnapshotInv, NEW f \in Flushers, FlushStep(f)
  PROVE  SnapshotInv' /\ RelayStep
<1>1. f \in Processes /\ f \notin Receivers
  BY DEF InboxInv, InboxBounds, Processes
<1>2. device' = device /\ keys \subseteq keys'
  BY FlushFrame DEF HandedInv
<1>3. CASE Truncate(f) \/ Write(f)
  BY <1>1, <1>3, TruncateRelays, WriteRelays
<1>4. CASE BeginRemove(f)
  <2>1. /\ BeginUpdate(f, {e \in file : SmsId[e] # SmsId[sms[f]]})
        /\ UNCHANGED <<file, sms, todo, device, keys, rows>> /\ ~Updating(f)
    BY <1>4 DEF BeginRemove, Updating, inbox
  <2> QED BY <1>1, <2>1, BeginRelays
<1>5. CASE Peek(f) \/ FlushEnds(f)
  <2>1. UNCHANGED <<device, keys, rows>>
    BY <1>5 DEF Peek, FlushEnds, inbox
  <2> QED BY <1>5, <2>1, QuietFlush, QuietStep
<1>6. ASSUME NEW s \in Sms, PushRateLimited(f, s) \/ PushUnauthorized(f, s)
      PROVE  SnapshotInv' /\ RelayStep
  <2>1. UNCHANGED <<device, keys, rows>>
    BY <1>6 DEF PushRateLimited, PushUnauthorized, inbox
  <2> QED BY <1>6, <2>1, QuietFlush, QuietStep
<1>7. ASSUME NEW s \in Sms, PushAnswered(f, s) \/ PushLost(f, s)
      PROVE  SnapshotInv' /\ RelayStep
  <2>1. s \in todo[f] /\ (Store(s) \/ UNCHANGED <<device, keys, rows>>)
    BY <1>7 DEF PushAnswered, PushLost, Pushes, inbox
  <2>2. QuietUpdates /\ \A g \in Flushers : todo'[g] \subseteq todo[g] \/ todo'[g] = file
    BY <1>7, QuietFlush
  <2>3. SnapshotInv' /\ Held' = Held
    BY <1>2, <2>2, SnapshotKept
  <2>4. disturbed' = disturbed
    BY <2>2 DEF QuietUpdates
  <2> QED BY <2>1, <2>3, <2>4, StoreStep, Stutters
<1> QED BY <1>3, <1>4, <1>5, <1>6, <1>7 DEF FlushStep

LEMMA ElsewhereRelays ==
  ASSUME InboxInv, HandedInv, SnapshotInv,
         \/ RevokePhone \/ OtherCallUnauthorized \/ SaveNewCredentials
         \/ UNCHANGED inboxVars
  PROVE  SnapshotInv' /\ RelayStep
<1>1. /\ UNCHANGED <<place, sms, todo, keys, rows>> /\ QuietUpdates
  BY DEF RevokePhone, OtherCallUnauthorized, SaveNewCredentials, Elsewhere, relay, inboxVars,
     inbox, QuietUpdates
<1>2. CASE device' = device
  BY <1>1, <1>2, QuietStep
<1>3. CASE SaveNewCredentials
  <2>1. \A f \in Flushers : todo'[f] = {}
    BY <1>1, <1>3 DEF SaveNewCredentials, HandedInv, FlushOK
  <2>2. SnapshotInv' /\ Held' = Held
    BY <1>1, <2>1, SnapshotKept
  <2>3. device' = device + 1 /\ UNCHANGED <<rows, disturbed>>
    BY <1>1, <1>3 DEF SaveNewCredentials, QuietUpdates
  <2>4. Promised!Register
    BY <2>2, <2>3 DEF Promised!Register
  <2> QED BY <2>2, <2>4 DEF RelayStep, Promised!Next
<1> QED BY <1>2, <1>3 DEF RevokePhone, OtherCallUnauthorized, inboxVars, inbox

\* What the refinement rests on.
RelayInv == InboxInv /\ HandedInv /\ SnapshotInv

LEMMA RelayInvStep == RelayInv /\ [InboxNext]_inboxVars => RelayInv' /\ RelayStep
<1> SUFFICES ASSUME InboxInv, HandedInv, SnapshotInv, [InboxNext]_inboxVars
             PROVE  RelayInv' /\ RelayStep
  BY DEF RelayInv
<1>1. InboxInv' /\ HandedInv'
  BY InboxInvStep, HandedStep
<1>2. SnapshotInv' /\ RelayStep
  BY <1>1, ReceiverRelays, FlushRelays, ElsewhereRelays, DieRelays DEF InboxNext
<1> QED BY <1>1, <1>2 DEF RelayInv

\* The queue, the flushes and the server's rows implement Relay: whatever overlaps or
\* dies, the phone lets go of an SMS only for its row or a refusal.
THEOREM InboxImplementsRelay == InboxSpec => RelaysAsPromised
<1>1. InboxInit => HandedInv /\ SnapshotInv /\ Promised!Init
  <2> SUFFICES ASSUME InboxInit PROVE HandedInv /\ SnapshotInv /\ Promised!Init
    OBVIOUS
  <2>1. /\ keys = {} /\ device = 1 /\ rows = [i \in Id |-> 0] /\ file = {}
        /\ disturbed = FALSE /\ place = AllIdle /\ todo = Nothing
    BY DEF InboxInit
  <2>2. \A p \in Processes : place[p] = "idle" /\ todo[p] = {}
    BY <2>1 DEF AllIdle, Nothing
  <2>3. Receivers \subseteq Processes /\ Flushers \subseteq Processes
    BY DEF Processes
  <2>4. Held = {}
    BY <2>1, <2>2 DEF Held, IdsOf
  <2> QED BY <2>1, <2>2, <2>3, <2>4 DEF HandedInv, KeysShown, FlushOK, SnapshotInv, Promised!Init
<1>2. InboxSpec => []RelayInv
  <2>1. InboxInv /\ HandedInv /\ SnapshotInv => RelayInv
    BY DEF RelayInv
  <2>2. HandedInv /\ SnapshotInv /\ InboxInv /\ InboxInv' /\ [InboxNext]_inboxVars
          => HandedInv' /\ SnapshotInv'
    BY RelayInvStep DEF RelayInv
  <2> QED BY <1>1, <2>1, <2>2, InboxInvariant, PTL DEF InboxSpec
<1>3. RelayInv /\ [InboxNext]_inboxVars => [Promised!Next]_(Promised!vars)
  BY RelayInvStep DEF RelayStep
<1> QED BY <1>1, <1>2, <1>3, PTL DEF InboxSpec, RelaysAsPromised, Promised!Spec
=============================================================================
