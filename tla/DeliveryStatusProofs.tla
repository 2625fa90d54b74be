------------------------ MODULE DeliveryStatusProofs ------------------------
(***************************************************************************)
(* What the delivery-status callbacks can do to a row, for any number of   *)
(* webhook requests, senders and accepted sends.                           *)
(*                                                                         *)
(* The argument is about a send that is spent: it has failed, its FAILED   *)
(* callback has been recorded, and no request is about to write that       *)
(* status.  A row is open to another send only when all its sends are      *)
(* spent; a spent send stays spent; and what the contact has received      *)
(* was not spent.                                                          *)
(***************************************************************************)
EXTENDS DeliveryStatus, TLAPS

Failure(i) == [send |-> i, status |-> "FAILED"]

Spent(i) ==
  /\ fate[i] = "failed" /\ Failure(i) \in events
  /\ \A h \in Handlers : pc[h] = "write" => Callback(h) # Failure(i)

\* What a callback of this status says is true of a send with this fate.
TrueOf(s, f) ==
  \/ s = "SENT"      /\ f \in {"sent", "delivered", "read", "failed"}
  \/ s = "DELIVERED" /\ f \in {"delivered", "read"}
  \/ s = "READ"      /\ f = "read"
  \/ s = "FAILED"    /\ f = "failed"

Busy(h)  == pc[h] \in {"record", "write"}
OnAir(r) == pc[r] \in {"call", "accepted"}

HandlersInv ==
  /\ \A h \in Handlers :
       /\ pc[h] \in {"idle", "record", "write"}
       /\ Busy(h) => /\ seen[h].send \in 1..externalId
                     /\ TrueOf(seen[h].status, fate[seen[h].send])
       /\ pc[h] = "write" => Callback(h) \in events /\ CanTransition(seen[h].read, seen[h].status)
  /\ OneWriterPerCallback

SendersInv ==
  /\ \A r \in Senders :
       /\ pc[r] \in {"idle", "claim", "call", "accepted"}
       /\ pc[r] = "accepted" => seen[r].send = sends /\ externalId < sends
       /\ OnAir(r) => status \in {"SENDING", "SENT"}
  /\ \A q, r \in Senders : OnAir(q) /\ OnAir(r) => q = r

\* The row may be sent again, or is being sent again.
Open == status \in {"PENDING", "FAILED", "DEAD_LETTER"} \/ \E r \in Senders : pc[r] = "call"

SpentInv ==
  /\ externalId <= sends
  /\ \A i \in 1..sends : i < sends \/ Open => Spent(i)
  /\ ShownDeliveredIsTrue /\ ~resent

ApartInv ==
  ~overlapped =>
    /\ \A g, h \in Handlers : Busy(g) /\ Busy(h) => g = h
    /\ \A h \in Handlers : Busy(h) /\ status \in {"DELIVERED", "READ"} => seen[h].read = status

Inv == TypeOK /\ HandlersInv /\ SendersInv /\ SpentInv /\ ApartInv

-----------------------------------------------------------------------------
Labels == {"idle", "record", "write", "claim", "call", "accepted"}
Copies == [send : 0..MaxSends, status : {"none", "SENT", "DELIVERED", "READ", "FAILED"},
           read : Status \cup {"none"}]

LEMMA Numbers ==
  ASSUME TypeOK
  PROVE  MaxSends \in Nat \ {0} /\ sends \in Nat /\ externalId \in Nat /\ NoCopy \in Copies
BY MaxSendsAssumption DEF TypeOK, NoCopy, Copies

\* A request moves to its next step.
LEMMA Moved ==
  ASSUME TypeOK, NEW r \in Requests, NEW l \in Labels, NEW c \in Copies, Goto(r, l, c)
  PROVE  /\ pc' \in [Requests -> Labels] /\ seen' \in [Requests -> Copies]
         /\ pc'[r] = l /\ seen'[r] = c
         /\ \A q \in Requests \ {r} : pc'[q] = pc[q] /\ seen'[q] = seen[q]
BY DEF TypeOK, Goto, Labels, Copies

\* The channel gets on with a send.
LEMMA ProgressStep == ASSUME Inv, NEW i \in SendIds, ChannelProgress(i) PROVE Inv'
<1> USE DEF Inv
<1>1. PICK f \in Later(fate[i]) : fate' = [fate EXCEPT ![i] = f]
  BY DEF ChannelProgress
<1>2. UNCHANGED <<status, externalId, events, pc, seen, sends, overlapped, resent>>
  BY DEF ChannelProgress, history
<1>3. /\ fate[i] \in {"accepted", "sent", "delivered"} /\ fate'[i] = f
      /\ f \in Fates \ {"none", "accepted"}
      /\ fate[i] = "delivered" => f = "read"
      /\ fate[i] = "sent" => f \in {"delivered", "failed"}
      /\ \A j \in SendIds \ {i} : fate'[j] = fate[j]
  BY <1>1 DEF Later, TypeOK, Fates
<1>4. TypeOK'
  BY <1>1, <1>2, <1>3 DEF TypeOK, Fates
<1>5. \A j \in SendIds : \A s : TrueOf(s, fate[j]) => TrueOf(s, fate'[j])
  BY <1>3 DEF TrueOf
<1>6. \A j \in SendIds : Spent(j) => Spent(j)'
  BY <1>2, <1>3 DEF Spent, Callback
<1>7. \A j \in 1..sends : j \in SendIds
  BY Numbers DEF TypeOK, SendIds
<1>8. HandlersInv'
  <2>1. \A h \in Handlers : Busy(h) => seen[h].send \in SendIds
    BY <1>7, Numbers DEF HandlersInv, SpentInv
  <2> QED BY <1>2, <1>5, <2>1 DEF HandlersInv, OneWriterPerCallback, Callback, Busy
<1>9. SendersInv' /\ ApartInv'
  BY <1>2 DEF SendersInv, ApartInv, OnAir, Busy
<1>10. SpentInv'
  <2>1. ShownDeliveredIsTrue'
    BY <1>2, <1>3 DEF SpentInv, ShownDeliveredIsTrue, Received, TypeOK, SendIds
  <2> QED BY <1>2, <1>6, <1>7, <2>1 DEF SpentInv, Open
<1> QED BY <1>4, <1>8, <1>9, <1>10

\* A callback finds the row.
LEMMA ReceiveStep ==
  ASSUME Inv, NEW h \in Handlers, NEW i \in SendIds, NEW s \in Told(i), ReceiveCallback(h, i, s)
  PROVE  Inv'
<1> USE DEF Inv
<1> DEFINE c == [send |-> i, status |-> MapStatus(s), read |-> status]
<1>1. /\ pc[h] = "idle" /\ externalId = i /\ Goto(h, "record", c)
      /\ overlapped' = (overlapped \/ \E g \in Handlers : pc[g] # "idle")
      /\ UNCHANGED <<status, externalId, events, sends, fate, resent>>
  BY DEF ReceiveCallback, channel
<1>2. s \in {"sent", "delivered", "read", "failed"} /\ TrueOf(MapStatus(s), fate[i])
  BY DEF Told, MapStatus, STATUS_MAP, TrueOf
<1>3. c \in Copies
  BY <1>1, <1>2, Numbers DEF Copies, MapStatus, STATUS_MAP, TypeOK, SendIds
<1>4. h \in Requests /\ h \notin Senders
  BY DeliveryRequestsAssumption DEF Requests
<1>5. /\ pc' \in [Requests -> Labels] /\ seen' \in [Requests -> Copies]
      /\ pc'[h] = "record" /\ seen'[h] = c
      /\ \A q \in Requests \ {h} : pc'[q] = pc[q] /\ seen'[q] = seen[q]
  BY <1>1, <1>3, <1>4, Moved DEF Labels
<1>6. TypeOK'
  BY <1>1, <1>5 DEF TypeOK, Labels, Copies
<1>7. HandlersInv'
  <2>1. i \in 1..externalId
    BY <1>1 DEF SendIds
  <2> QED BY <1>1, <1>2, <1>5, <2>1 DEF HandlersInv, OneWriterPerCallback, Callback, Busy, Requests
<1>8. SendersInv'
  BY <1>1, <1>4, <1>5 DEF SendersInv, OnAir, Requests
<1>9. SpentInv'
  <2>1. \A j \in 1..sends : Spent(j) => Spent(j)'
    BY <1>1, <1>5 DEF Spent, Callback, Requests
  <2>2. Open' => Open
    BY <1>1, <1>4, <1>5 DEF Open, Requests
  <2> QED BY <1>1, <2>1, <2>2 DEF SpentInv, ShownDeliveredIsTrue, Received
<1>10. ApartInv'
  <2> SUFFICES ASSUME ~overlapped' PROVE ApartInv'
    BY DEF ApartInv
  <2>1. \A g \in Handlers : ~Busy(g)
    BY <1>1 DEF Busy, HandlersInv
  <2>2. \A g \in Handlers : Busy(g)' => g = h
    BY <1>5, <2>1 DEF Busy, Requests
  <2>3. seen'[h].read = status'
    BY <1>1, <1>5
  <2> QED BY <2>2, <2>3 DEF ApartInv
<1> QED BY <1>6, <1>7, <1>8, <1>9, <1>10

\* A handler that has received a callback: it records it, writes the status or dies.
LEMMA RecordStep == ASSUME Inv, NEW h \in Handlers, RecordEvent(h) PROVE Inv'
<1> USE DEF Inv
<1>1. /\ pc[h] = "record" /\ events' = events \cup {Callback(h)}
      /\ UNCHANGED <<status, externalId, sends, fate, overlapped, resent>>
  BY DEF RecordEvent, channel, history
<1>2. h \in Requests /\ h \notin Senders /\ seen[h] \in Copies /\ NoCopy \in Copies
  BY Numbers, DeliveryRequestsAssumption DEF Requests, TypeOK, Copies
<1>3. PICK l \in {"write", "idle"}, c \in Copies :
        /\ Goto(h, l, c)
        /\ l = "write" => c = seen[h] /\ ~IsDuplicate(h) /\ Applies(h)
  BY <1>2 DEF RecordEvent, Return
<1>4. /\ pc' \in [Requests -> Labels] /\ seen' \in [Requests -> Copies]
      /\ pc'[h] = l /\ seen'[h] = c
      /\ \A q \in Requests \ {h} : pc'[q] = pc[q] /\ seen'[q] = seen[q]
  BY <1>2, <1>3, Moved DEF Labels
<1>5. Callback(h) \in Callbacks
  <2>1. /\ seen[h].send \in 1..externalId
        /\ seen[h].status \in {"SENT", "DELIVERED", "READ", "FAILED"}
    BY <1>1 DEF HandlersInv, Busy, TrueOf
  <2>2. externalId <= MaxSends
    BY Numbers DEF TypeOK
  <2> QED BY <2>1, <2>2, Numbers DEF Callback, Callbacks, SendIds
<1>6. TypeOK'
  BY <1>1, <1>4, <1>5 DEF TypeOK, Labels, Copies
<1>7. \A g \in Handlers : pc'[g] = "write" => (Callback(g))' = Callback(g)
  BY <1>3, <1>4 DEF Callback, Requests
<1>8. HandlersInv'
  <2>1. \A g \in Handlers : pc'[g] = "write" /\ pc[g] # "write" => g = h /\ Callback(h) \notin events
    BY <1>3, <1>4 DEF Requests, IsDuplicate
  <2>2. OneWriterPerCallback'
    BY <1>3, <1>4, <1>7, <2>1 DEF HandlersInv, OneWriterPerCallback, Requests
  <2>3. ASSUME NEW g \in Handlers
        PROVE  /\ pc'[g] \in {"idle", "record", "write"}
               /\ pc'[g] \in {"record", "write"} =>
                    /\ seen'[g].send \in 1..externalId
                    /\ TrueOf(seen'[g].status, fate[seen'[g].send])
               /\ pc'[g] = "write" => /\ (Callback(g))' \in events'
                                      /\ CanTransition(seen'[g].read, seen'[g].status)
    <3>1. CASE g = h
      BY <1>1, <1>3, <1>4, <1>7, <3>1 DEF HandlersInv, Busy, Applies
    <3>2. CASE g # h
      BY <1>1, <1>4, <1>7, <3>2 DEF HandlersInv, Busy, Requests
    <3> QED BY <3>1, <3>2
  <2> QED BY <1>1, <2>2, <2>3 DEF HandlersInv, Busy
<1>9. SendersInv'
  BY <1>1, <1>2, <1>4 DEF SendersInv, OnAir, Requests
<1>10. SpentInv'
  <2>1. ASSUME NEW j \in 1..sends, Spent(j) PROVE Spent(j)'
    <3>1. \A g \in Handlers : pc'[g] = "write" => Callback(g) # Failure(j)
      BY <1>3, <1>4, <2>1 DEF Spent, IsDuplicate, Requests
    <3> QED BY <1>1, <1>7, <2>1, <3>1 DEF Spent, Failure
  <2>2. Open' => Open
    BY <1>1, <1>2, <1>4 DEF Open, Requests
  <2> QED BY <1>1, <2>1, <2>2 DEF SpentInv, ShownDeliveredIsTrue, Received
<1>11. ApartInv'
  BY <1>1, <1>3, <1>4 DEF ApartInv, Busy, Requests
<1> QED BY <1>6, <1>8, <1>9, <1>10, <1>11

\* What a callback writes, it writes on a row that is not open: it is the one request that
\* may still make it so.
LEMMA WrittenStatus ==
  ASSUME Inv, NEW h \in Handlers, pc[h] = "write"
  PROVE  /\ seen[h].status \in {"SENT", "DELIVERED", "READ", "FAILED"}
         /\ seen[h].status # "SENT" => ~Open /\ seen[h].send = sends
                                       /\ \A r \in Senders : ~OnAir(r)
         /\ seen[h].status \in {"DELIVERED", "READ"} => fate[sends] # "failed"
<1> USE DEF Inv
<1> DEFINE i == seen[h].send
<1>1. i \in 1..externalId /\ TrueOf(seen[h].status, fate[i]) /\ externalId <= sends
  BY DEF HandlersInv, SpentInv, Busy
<1>2. seen[h].status \in {"SENT", "DELIVERED", "READ", "FAILED"}
  BY <1>1 DEF TrueOf
<1>3. ASSUME seen[h].status # "SENT" PROVE ~Spent(i)
  BY <1>1, <1>3 DEF Spent, Callback, Failure, TrueOf
<1>4. i \in 1..sends /\ (i < sends \/ Open => Spent(i))
  BY <1>1, Numbers DEF SpentInv
<1>5. seen[h].status # "SENT" => ~Open /\ i = sends
  BY <1>3, <1>4, Numbers
<1>6. ASSUME NEW r \in Senders, i = sends, OnAir(r), ~Open PROVE FALSE
  BY <1>1, <1>6, Numbers DEF SendersInv, OnAir, Open
<1>7. seen[h].status \in {"DELIVERED", "READ"} => fate[i] # "failed"
  BY <1>1 DEF TrueOf
<1> QED BY <1>2, <1>5, <1>6, <1>7

LEMMA WriteStep == ASSUME Inv, NEW h \in Handlers, WriteStatus(h) PROVE Inv'
<1> USE DEF Inv
<1> DEFINE s == seen[h].status
<1>1. /\ pc[h] = "write" /\ status' = s /\ Goto(h, "idle", NoCopy)
      /\ UNCHANGED <<externalId, events, sends, fate, overlapped, resent>>
  BY DEF WriteStatus, Return, channel, history
<1>2. h \in Requests /\ h \notin Senders /\ NoCopy \in Copies
  BY Numbers, DeliveryRequestsAssumption DEF Requests
<1>3. /\ pc' \in [Requests -> Labels] /\ seen' \in [Requests -> Copies]
      /\ pc'[h] = "idle" /\ seen'[h] = NoCopy
      /\ \A q \in Requests \ {h} : pc'[q] = pc[q] /\ seen'[q] = seen[q]
  BY <1>1, <1>2, Moved DEF Labels
<1>4. /\ s \in {"SENT", "DELIVERED", "READ", "FAILED"}
      /\ s # "SENT" => ~Open /\ seen[h].send = sends /\ \A r \in Senders : ~OnAir(r)
  BY <1>1, WrittenStatus
<1>5. TypeOK'
  BY <1>1, <1>3, <1>4 DEF TypeOK, Labels, Copies, Status
<1>6. HandlersInv'
  BY <1>1, <1>3 DEF HandlersInv, OneWriterPerCallback, Callback, Busy, Requests
<1>7. SendersInv'
  <2>1. \A r \in Senders : pc'[r] = pc[r] /\ seen'[r] = seen[r]
    BY <1>2, <1>3 DEF Requests
  <2> QED BY <1>1, <1>4, <2>1 DEF SendersInv, OnAir
<1>8. SpentInv'
  <2>1. \A j \in 1..sends : Spent(j) => Spent(j)'
    BY <1>1, <1>3 DEF Spent, Callback, Requests
  <2>2. ASSUME s = "FAILED", sends > 0 PROVE Spent(sends)'
    <3>1. seen[h].send = sends /\ Callback(h) = Failure(sends)
      BY <1>4, <2>2 DEF Callback, Failure
    <3>2. fate[sends] = "failed" /\ Failure(sends) \in events
      BY <1>1, <2>2, <3>1 DEF HandlersInv, Busy, TrueOf
    <3>3. \A g \in Handlers \ {h} : pc[g] = "write" => Callback(g) # Failure(sends)
      BY <1>1, <3>1 DEF HandlersInv, OneWriterPerCallback
    <3> QED BY <1>1, <1>3, <3>2, <3>3 DEF Spent, Callback, Failure, Requests
  <2>3. Open' => s = "FAILED" \/ \E r \in Senders : pc[r] = "call"
    BY <1>1, <1>2, <1>3, <1>4 DEF Open, Requests
  <2>4. \A j \in 1..sends : j < sends \/ Open' => Spent(j)'
    <3> SUFFICES ASSUME NEW j \in 1..sends, j < sends \/ Open' PROVE Spent(j)'
      OBVIOUS
    <3>1. CASE j < sends \/ \E r \in Senders : pc[r] = "call"
      BY <2>1, <3>1 DEF SpentInv, Open
    <3>2. CASE ~(j < sends) /\ s = "FAILED"
      <4>1. j = sends /\ sends > 0
        BY <3>2, Numbers
      <4> QED BY <1>1, <2>2, <3>2, <4>1 DEF Spent, Failure
    <3> QED BY <2>3, <3>1, <3>2
  <2>5. ShownDeliveredIsTrue'
    <3>1. seen[h].send \in 1..externalId /\ TrueOf(s, fate[seen[h].send]) /\ externalId <= sends
      BY <1>1 DEF HandlersInv, SpentInv, Busy
    <3>2. ASSUME s # "SENT" PROVE seen[h].send = externalId /\ externalId # 0
      BY <1>4, <3>1, <3>2, Numbers
    <3> QED BY <1>1, <3>1, <3>2 DEF ShownDeliveredIsTrue, Received, TrueOf
  <2> QED BY <1>1, <2>4, <2>5 DEF SpentInv
<1>9. ApartInv'
  BY <1>1, <1>3 DEF ApartInv, Busy, Requests
<1> QED BY <1>5, <1>6, <1>7, <1>8, <1>9

LEMMA CrashStep == ASSUME Inv, NEW h \in Handlers, Crash(h) PROVE Inv'
<1> USE DEF Inv
<1>1. /\ Goto(h, "idle", NoCopy)
      /\ UNCHANGED <<status, externalId, events, sends, fate, overlapped, resent>>
  BY DEF Crash, Return, channel, history
<1>2. h \in Requests /\ h \notin Senders /\ NoCopy \in Copies
  BY Numbers, DeliveryRequestsAssumption DEF Requests
<1>3. /\ pc' \in [Requests -> Labels] /\ seen' \in [Requests -> Copies]
      /\ pc'[h] = "idle" /\ seen'[h] = NoCopy
      /\ \A q \in Requests \ {h} : pc'[q] = pc[q] /\ seen'[q] = seen[q]
  BY <1>1, <1>2, Moved DEF Labels
<1>4. TypeOK'
  BY <1>1, <1>3 DEF TypeOK, Labels, Copies
<1>5. HandlersInv' /\ ApartInv'
  BY <1>1, <1>3 DEF HandlersInv, OneWriterPerCallback, ApartInv, Callback, Busy, Requests
<1>6. SendersInv'
  BY <1>1, <1>2, <1>3 DEF SendersInv, OnAir, Requests
<1>7. SpentInv'
  <2>1. \A j \in 1..sends : Spent(j) => Spent(j)'
    BY <1>1, <1>3 DEF Spent, Callback, Requests
  <2>2. Open' => Open
    BY <1>1, <1>2, <1>3 DEF Open, Requests
  <2> QED BY <1>1, <2>1, <2>2 DEF SpentInv, ShownDeliveredIsTrue, Received
<1> QED BY <1>4, <1>5, <1>6, <1>7

-----------------------------------------------------------------------------
\* A sender's step leaves the handlers alone, and they keep what they know while the
\* sends they know of stay as they are.
LEMMA HandlersApart ==
  ASSUME Inv, TypeOK', NEW r \in Senders, events' = events, overlapped' = overlapped,
         \A q \in Requests \ {r} : pc'[q] = pc[q] /\ seen'[q] = seen[q],
         \A i \in 1..sends : fate'[i] = fate[i],
         externalId <= externalId', status' \in {"DELIVERED", "READ"} => status' = status
  PROVE  /\ HandlersInv' /\ ApartInv'
         /\ \A h \in Handlers : pc'[h] = pc[h] /\ seen'[h] = seen[h]
         /\ \A i \in 1..sends : Spent(i) => Spent(i)'
<1> USE DEF Inv
<1>1. \A h \in Handlers : pc'[h] = pc[h] /\ seen'[h] = seen[h]
  BY DeliveryRequestsAssumption DEF Requests
<1>2. \A h \in Handlers : Busy(h) => seen[h].send \in 1..sends /\ seen[h].send \in 1..externalId'
  BY Numbers DEF HandlersInv, SpentInv, TypeOK
<1>3. HandlersInv'
  BY <1>1, <1>2 DEF HandlersInv, OneWriterPerCallback, Callback, Busy
<1>4. ApartInv'
  BY <1>1 DEF ApartInv, Busy
<1>5. \A i \in 1..sends : Spent(i) => Spent(i)'
  BY <1>1 DEF Spent, Callback
<1> QED BY <1>1, <1>3, <1>4, <1>5

\* A retry or a confirm takes hold of the row.
LEMMA ClaimStep == ASSUME Inv, NEW r \in Senders, ClaimRetry(r) \/ ClaimSend(r) PROVE Inv'
<1> USE DEF Inv
<1>1. UNCHANGED <<externalId, events, sends, fate, overlapped, resent>>
  BY DEF ClaimRetry, ClaimSend, channel, history
<1>2. PICK l \in {"claim", "call", "idle"} :
        /\ Goto(r, l, NoCopy)
        /\ \/ l = "claim" /\ status \in RetryableStatus /\ status' = "PENDING"
           \/ l = "call" /\ status = "PENDING" /\ status' = "SENDING"
           \/ l = "idle" /\ status' = status
        /\ pc[r] \in {"idle", "claim"}
  BY DEF ClaimRetry, ClaimSend, Return
<1>3. r \in Requests /\ NoCopy \in Copies
  BY Numbers DEF Requests
<1>4. /\ pc' \in [Requests -> Labels] /\ seen' \in [Requests -> Copies]
      /\ pc'[r] = l /\ seen'[r] = NoCopy
      /\ \A q \in Requests \ {r} : pc'[q] = pc[q] /\ seen'[q] = seen[q]
  BY <1>2, <1>3, Moved DEF Labels
<1>5. TypeOK'
  BY <1>1, <1>2, <1>4 DEF TypeOK, Labels, Copies, Status
<1>6. /\ HandlersInv' /\ ApartInv'
      /\ \A i \in 1..sends : Spent(i) => Spent(i)'
  BY <1>1, <1>2, <1>4, <1>5, HandlersApart, Numbers
<1>7. l # "idle" => Open /\ \A q \in Senders : ~OnAir(q)
  BY <1>2 DEF Open, SendersInv, RetryableStatus
<1>8. SendersInv'
  <2>1. \A q \in Senders \ {r} : pc'[q] = pc[q] /\ seen'[q] = seen[q]
    BY <1>4 DEF Requests
  <2> QED BY <1>1, <1>2, <1>4, <1>7, <2>1 DEF SendersInv, OnAir
<1>9. SpentInv'
  <2>1. Open' => Open
    BY <1>2, <1>4, <1>7 DEF Open, Requests
  <2> QED BY <1>1, <1>2, <1>6, <2>1 DEF SpentInv, ShownDeliveredIsTrue, Received
<1> QED BY <1>5, <1>6, <1>8, <1>9

\* The channel takes the row: nothing it took before is on its way any more.
LEMMA AcceptStep == ASSUME Inv, NEW r \in Senders, AdapterAccepts(r) PROVE Inv'
<1> USE DEF Inv
<1> DEFINE n == sends + 1
           c == [NoCopy EXCEPT !.send = n]
<1>1. /\ pc[r] = "call" /\ sends < MaxSends /\ sends' = n
      /\ fate' = [fate EXCEPT ![n] = "accepted"] /\ Goto(r, "accepted", c)
      /\ resent' = (resent \/ \E i \in SendIds : fate[i] \in {"delivered", "read"})
      /\ UNCHANGED <<status, externalId, events, overlapped>>
  BY DEF AdapterAccepts
<1>2. r \in Requests /\ n \in SendIds /\ c \in Copies /\ c.send = n
  BY <1>1, Numbers DEF Requests, SendIds, Copies, NoCopy
<1>3. /\ pc' \in [Requests -> Labels] /\ seen' \in [Requests -> Copies]
      /\ pc'[r] = "accepted" /\ seen'[r] = c
      /\ \A q \in Requests \ {r} : pc'[q] = pc[q] /\ seen'[q] = seen[q]
  BY <1>1, <1>2, Moved DEF Labels
<1>4. fate'[n] = "accepted" /\ \A i \in SendIds \ {n} : fate'[i] = fate[i]
  BY <1>1, <1>2 DEF TypeOK
<1>5. \A i \in 1..sends : Spent(i) /\ i \in SendIds \ {n}
  BY <1>1, Numbers DEF SpentInv, Open, SendIds
<1>6. \A i \in SendIds : fate[i] \in {"failed", "none"}
  BY <1>5, Numbers DEF Spent, TypeOK, SendIds
<1>7. TypeOK'
  <2>1. \A i \in SendIds : fate'[i] = "none" <=> i > n
    <3>1. \A i \in SendIds : i \in Nat /\ (fate[i] = "none" <=> i > sends)
      BY DEF TypeOK, SendIds
    <3> QED BY <1>4, <3>1, Numbers
  <2> QED BY <1>1, <1>2, <1>3, <1>6, <2>1, Numbers DEF TypeOK, Labels, Copies, Fates
<1>8. /\ HandlersInv' /\ ApartInv'
      /\ \A i \in 1..sends : Spent(i) => Spent(i)'
  BY <1>1, <1>3, <1>4, <1>5, <1>7, HandlersApart, Numbers
<1>9. SendersInv'
  <2>1. \A q \in Senders \ {r} : pc'[q] = pc[q] /\ seen'[q] = seen[q] /\ ~OnAir(q)
    BY <1>1, <1>3 DEF Requests, SendersInv, OnAir
  <2>2. externalId < n /\ status \in {"SENDING", "SENT"}
    BY <1>1, Numbers DEF SpentInv, SendersInv, OnAir
  <2> QED BY <1>1, <1>2, <1>3, <2>1, <2>2 DEF SendersInv, OnAir
<1>10. SpentInv'
  <2>1. ~Open'
    BY <1>1, <1>3 DEF Open, SendersInv, OnAir, Requests
  <2>2. \A i \in 1..n : i < n => i \in 1..sends
    BY Numbers
  <2>3. ShownDeliveredIsTrue'
    BY <1>1 DEF SendersInv, OnAir, ShownDeliveredIsTrue
  <2>4. ~resent'
    BY <1>1, <1>6 DEF SpentInv
  <2> QED BY <1>1, <1>5, <1>8, <2>1, <2>2, <2>3, <2>4, Numbers DEF SpentInv
<1> QED BY <1>7, <1>8, <1>9, <1>10

\* The channel refuses the row, or the row is told the send that was accepted.
LEMMA AnswerStep == ASSUME Inv, NEW r \in Senders, AdapterRefuses(r) \/ RecordSendResult(r) PROVE Inv'
<1> USE DEF Inv
<1>1. /\ Goto(r, "idle", NoCopy) /\ OnAir(r)
      /\ UNCHANGED <<events, sends, fate, overlapped, resent>>
      /\ \/ pc[r] = "call" /\ status' = "FAILED" /\ externalId' = externalId
         \/ pc[r] = "accepted" /\ status' = "SENT" /\ externalId' = seen[r].send
  BY DEF AdapterRefuses, RecordSendResult, Return, channel, history, OnAir
<1>2. r \in Requests /\ NoCopy \in Copies
  BY Numbers DEF Requests
<1>3. /\ pc' \in [Requests -> Labels] /\ seen' \in [Requests -> Copies]
      /\ pc'[r] = "idle" /\ seen'[r] = NoCopy
      /\ \A q \in Requests \ {r} : pc'[q] = pc[q] /\ seen'[q] = seen[q]
  BY <1>1, <1>2, Moved DEF Labels
<1>4. externalId <= externalId' /\ externalId' <= sends /\ externalId' \in 0..MaxSends
  BY <1>1, Numbers DEF SpentInv, SendersInv, TypeOK
<1>5. TypeOK'
  BY <1>1, <1>3, <1>4 DEF TypeOK, Labels, Copies, Status
<1>6. /\ HandlersInv' /\ ApartInv'
      /\ \A i \in 1..sends : Spent(i) => Spent(i)'
  BY <1>1, <1>3, <1>4, <1>5, HandlersApart
<1>7. \A q \in Senders : ~OnAir(q)'
  BY <1>1, <1>3 DEF SendersInv, OnAir, Requests
<1>8. SendersInv'
  BY <1>3, <1>7 DEF SendersInv, OnAir, TypeOK, Requests
<1>9. SpentInv'
  <2>1. Open' => Open
    BY <1>1, <1>3, <1>7 DEF Open, OnAir
  <2> QED BY <1>1, <1>4, <1>6, <2>1 DEF SpentInv, ShownDeliveredIsTrue, Received
<1> QED BY <1>5, <1>6, <1>8, <1>9

-----------------------------------------------------------------------------
LEMMA InvStep == Inv /\ [Next]_vars => Inv'
<1> SUFFICES ASSUME Inv, [Next]_vars PROVE Inv'
  OBVIOUS
<1>1. CASE UNCHANGED vars
  <2>1. TypeOK' /\ HandlersInv'
    BY <1>1 DEF vars, channel, history, Inv, TypeOK, HandlersInv, OneWriterPerCallback, Callback, Busy
  <2>2. SendersInv' /\ ApartInv'
    BY <1>1 DEF vars, channel, history, Inv, SendersInv, ApartInv, OnAir, Busy
  <2>3. SpentInv'
    BY <1>1 DEF vars, channel, history, Inv, SpentInv, Spent, Open, Callback,
                ShownDeliveredIsTrue, Received
  <2> QED BY <2>1, <2>2, <2>3 DEF Inv
<1>2. ASSUME NEW r \in Senders, SenderStep(r) PROVE Inv'
  BY <1>2, ClaimStep, AcceptStep, AnswerStep DEF SenderStep
<1>3. ASSUME NEW h \in Handlers, HandlerStep(h) PROVE Inv'
  BY <1>3, RecordStep, WriteStep, CrashStep DEF HandlerStep
<1> QED BY <1>1, <1>2, <1>3, ProgressStep, ReceiveStep DEF Next

LEMMA Invariant == Spec => []Inv
<1>1. ASSUME Init PROVE Inv
  <2>1. /\ status = "PENDING" /\ externalId = 0 /\ sends = 0 /\ events = {}
        /\ \A r \in Requests : pc[r] = "idle" /\ seen[r] = NoCopy
        /\ overlapped = FALSE /\ resent = FALSE
    BY <1>1 DEF Init
  <2>2. TypeOK
    <3>1. NoCopy \in Copies
      BY MaxSendsAssumption DEF NoCopy, Copies
    <3>2. /\ pc \in [Requests -> Labels] /\ seen \in [Requests -> Copies]
          /\ fate \in [SendIds -> Fates] /\ \A i \in SendIds : fate[i] = "none" /\ i > 0
      BY <1>1, <3>1 DEF Init, Labels, Fates, SendIds
    <3>3. status \in Status /\ 0 \in 0..MaxSends
      BY <2>1, MaxSendsAssumption DEF Status
    <3> QED BY <2>1, <3>2, <3>3 DEF TypeOK, Copies, Labels
  <2>3. HandlersInv /\ SendersInv /\ ApartInv
    BY <2>1 DEF HandlersInv, OneWriterPerCallback, SendersInv, ApartInv, Busy, OnAir, Requests
  <2>4. SpentInv
    BY <2>1 DEF SpentInv, ShownDeliveredIsTrue, Received
  <2> QED BY <2>2, <2>3, <2>4 DEF Inv
<1> QED BY <1>1, InvStep, PTL DEF Spec

\* The row, the log of callbacks, the requests and the channel stay well-formed.
THEOREM TypeCorrect == Spec => []TypeOK
<1>1. Inv => TypeOK
  BY DEF Inv
<1> QED BY <1>1, Invariant, PTL

\* "Delivered" and "read" are shown only when the send that the row names got there, however
\* many callbacks about however many sends of the row are repeated, reordered or cut short.
THEOREM DeliveredIsDelivered == Spec => []ShownDeliveredIsTrue
<1>1. Inv => ShownDeliveredIsTrue
  BY DEF Inv, SpentInv
<1> QED BY <1>1, Invariant, PTL

\* Of any number of sends of a row the contact receives at most one, whatever callbacks,
\* retries and crashes overlap: all the sends but the last have failed.
THEOREM ReceivedOnce == Spec => []DeliveredNotResent
<1>1. ASSUME Inv PROVE DeliveredNotResent
  <2>1. ASSUME NEW i \in SendIds, Received(i) PROVE i = sends
    <3>1. i \in Nat /\ 1 <= i /\ i <= sends
      BY <1>1, <2>1, Numbers DEF Inv, TypeOK, SendIds, Received
    <3>2. ~Spent(i)
      BY <2>1 DEF Spent, Received
    <3> QED BY <1>1, <3>1, <3>2, Numbers DEF Inv, SpentInv
  <2> QED BY <1>1, <2>1 DEF Inv, SpentInv, DeliveredNotResent
<1> QED BY <1>1, Invariant, PTL

\* Of all the requests with one callback, at most one writes its status.
THEOREM CallbackAppliedOnce == Spec => []OneWriterPerCallback
<1>1. Inv => OneWriterPerCallback
  BY DEF Inv, HandlersInv
<1> QED BY <1>1, Invariant, PTL

\* A delivered row goes nowhere but to "read", by whatever callback, retry or send, as long
\* as the webhook works on one callback at a time.
THEOREM DeliveredIsFinal == Spec => DeliveredOnlyForward
<1>1. ASSUME Inv, [Next]_vars, status \in {"DELIVERED", "READ"}, status' # status, ~overlapped
      PROVE  status' = "READ" \/ overlapped
  <2>1. \A r \in Senders : ~OnAir(r)
    BY <1>1 DEF Inv, SendersInv
  <2>2. ASSUME NEW r \in Senders, SenderStep(r) PROVE FALSE
    BY <1>1, <2>1, <2>2 DEF SenderStep, ClaimRetry, ClaimSend, AdapterAccepts, AdapterRefuses,
       RecordSendResult, RetryableStatus, OnAir
  <2>3. PICK h \in Handlers : WriteStatus(h)
    BY <1>1, <2>2 DEF Next, vars, HandlerStep, ChannelProgress, ReceiveCallback, RecordEvent, Crash
  <2>4. /\ status' = seen[h].status /\ seen[h].read = status
        /\ CanTransition(seen[h].read, seen[h].status)
    BY <1>1, <2>3 DEF WriteStatus, Inv, HandlersInv, ApartInv, Busy
  <2> QED BY <1>1, <2>4 DEF CanTransition, VALID_TRANSITIONS
<1>2. Inv /\ [Next]_vars =>
        [(status = "DELIVERED" \/ status = "READ") /\ status' # status
           => status' = "READ" \/ overlapped]_vars
  <2> SUFFICES ASSUME Inv, [Next]_vars,
                      status = "DELIVERED" \/ status = "READ", status' # status
               PROVE  status' = "READ" \/ overlapped
    OBVIOUS
  <2> QED BY <1>1
<1> QED BY <1>2, Invariant, PTL DEF Spec, DeliveredOnlyForward
=============================================================================
