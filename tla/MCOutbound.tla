----------------------------- MODULE MCOutbound -----------------------------
(* The instances of Outbound that TLC checks.                               *)
EXTENDS Outbound, TLC

UserSymmetry == Permutations(Users)

\* What the later steps and the safety properties can still tell apart: no step
\* reads lastFailure; after an overwrite NoDuplicateDelivery holds for good, and
\* so does RawTextOnlyFromRawDraft once rawDraft is set.
Relevant ==
  <<status, text, retries, due, pc, seen, offered, overwritten, rawDraft,
    rawSent /\ ~rawDraft, ambiguous /\ ~overwritten,
    IF overwritten THEN 0 ELSE accepted>>
=============================================================================
