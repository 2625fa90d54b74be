------------------------------ MODULE Delivery ------------------------------
(***************************************************************************)
(* What sending a message promises, without requests, claims or rows: it   *)
(* is attempted by one attempt at a time, the channel takes it at most     *)
(* once, a message that was taken is never attempted again, one that was   *)
(* not may be, and it is given up only when the automatic attempts are     *)
(* used up.  Outbound implements this as long as nothing disturbs it: an   *)
(* update that lands on a status its author did not expect, or a channel   *)
(* that takes the message and reports an error.                            *)
(***************************************************************************)
EXTENDS Naturals

CONSTANT MaxAttempts  \* automatic attempts after the first

VARIABLES
  phase,     \* of the message: none, open, sending, failed, givenUp, delivered
  taken,     \* how often the channel has taken it
  attempts,  \* how many automatic attempts have been scheduled
  disturbed  \* nothing is promised any more

vars == <<phase, taken, attempts, disturbed>>

Init == phase = "none" /\ taken = 0 /\ attempts = 0 /\ disturbed = FALSE

Moves(from, to) == phase \in from /\ phase' = to /\ UNCHANGED <<attempts, disturbed>>

Compose == Moves({"none"}, "open") /\ UNCHANGED taken

\* An attempt begins, and it is the only one.
Attempt == Moves({"open"}, "sending") /\ UNCHANGED taken

Take == Moves({"sending"}, "sending") /\ taken = 0 /\ taken' = 1

Deliver == Moves({"sending"}, "delivered") /\ taken = 1 /\ UNCHANGED taken

\* What the channel has taken does not count as failed.
Fail == Moves({"open", "sending"}, "failed") /\ taken = 0 /\ UNCHANGED taken

Schedule == attempts' = attempts + 1 /\ UNCHANGED <<phase, taken, disturbed>>

GiveUp == attempts >= MaxAttempts /\ Moves({"failed"}, "givenUp") /\ UNCHANGED taken

Retry == Moves({"failed", "givenUp"}, "open") /\ UNCHANGED taken

Disturb == disturbed' = TRUE

Next ==
  \/ Compose \/ Attempt \/ Take \/ Deliver \/ Fail
  \/ Schedule \/ GiveUp \/ Retry \/ Disturb

Spec == Init /\ [][Next]_vars
=============================================================================
