------------------------------- MODULE MCTeam -------------------------------
EXTENDS Team, TLC

CONSTANTS ann, bob, cai

\* Two owners and somebody to be invited.
MCStartRole == [u \in Users |-> IF u = cai THEN None ELSE "OWNER"]

\* The owners are alike, and so are the requests.
Alike == Permutations({ann, bob}) \cup Permutations(Requests)
=============================================================================
