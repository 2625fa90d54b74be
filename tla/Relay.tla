------------------------------- MODULE Relay -------------------------------
(***************************************************************************)
(* What relaying received SMSs promises, without a file, flushes or calls: *)
(* the phone lets go of a message only when the server shows it or may     *)
(* refuse it, whatever was done with other messages meanwhile, and the     *)
(* server shows it no more than once for each registration of the phone,   *)
(* and only while the phone has it.  DeviceInbox implements this; from an  *)
(* upset on, only the bound on what the server shows is promised.          *)
(***************************************************************************)
EXTENDS Naturals

CONSTANTS
  Id,      \* messages
  Refused  \* those the server may refuse, for what they say or who sent them

VARIABLES
  held,          \* what the phone has
  shown,         \* how often the server shows each message
  registration,  \* the phone's registrations so far
  upset          \* the phone may have lost messages, or have them again

vars == <<held, shown, registration, upset>>

Init == held = {} /\ shown = [i \in Id |-> 0] /\ registration = 1 /\ upset = FALSE

Keep(i) == held' = held \cup {i} /\ UNCHANGED <<shown, registration, upset>>

Hand(i) ==
  /\ i \in held \cup Refused \/ upset
  /\ shown[i] < registration
  /\ shown' = [shown EXCEPT ![i] = @ + 1]
  /\ UNCHANGED <<held, registration, upset>>

LetGo(i) ==
  /\ i \in held
  /\ shown[i] > 0 \/ i \in Refused
  /\ held' = held \ {i}
  /\ UNCHANGED <<shown, registration, upset>>

Register == registration' = registration + 1 /\ UNCHANGED <<held, shown, upset>>

Upset == upset' = TRUE /\ held' \in SUBSET Id /\ UNCHANGED <<shown, registration>>

Next == (\E i \in Id : Keep(i) \/ Hand(i) \/ LetGo(i)) \/ Register \/ Upset

Spec == Init /\ [][Next]_vars
=============================================================================
