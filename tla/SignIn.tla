------------------------------- MODULE SignIn -------------------------------
(***************************************************************************)
(* Signing in to an organization with a password or with a link            *)
(* (sign-in/page.tsx, credentialsAuth.ts, auth.ts), and what a browser's   *)
(* session is worth afterwards (authTokenRefresh.ts).  An email is unique  *)
(* in an organization only, and a sign-in names no organization.           *)
(***************************************************************************)
EXTENDS FiniteSets, Naturals

CONSTANTS
  Users,      \* everybody who is or may become a user of the organization
  None,
  Browsers,
  Shared,     \* users whose email another organization may register too
  MaxLinks    \* bound: sign-in links that are valid at a time

VARIABLES
  role,       \* User.role, None before the user is invited
  active,     \* users whose deactivatedAt is null
  cookie,     \* the user that a browser's session token names
  links,      \* VerificationToken: users with a sign-in link that is still valid
  elsewhere   \* users whose email a second organization has registered

people   == <<role, active>>
sessions == <<cookie, links, elsewhere>>

SessionsOK ==
  /\ cookie \in [Browsers -> Users \cup {None}]
  /\ links \subseteq Users /\ elsewhere \subseteq Shared

\* Mutant: a session keeps its claims when the user is deactivated.
RefreshedRole_Kept(u) == IF u \in Users THEN role[u] ELSE None

\* The claims of a session are read from the user's row again on every request.
RefreshedRole(u) == IF u \in active THEN role[u] ELSE None

\* The User rows with the email of u, in whatever organization.
Matches(u) == (IF role[u] # None THEN {"here"} ELSE {})
              \cup (IF u \in elsewhere THEN {"elsewhere"} ELSE {})

-----------------------------------------------------------------------------

\* verifyCredentials, given the right password within the rate limit.
VerifyCredentials(u) == Matches(u) = {"here"} /\ u \in active

\* Mutant: the first row with the email is taken.
FindByEmail_First(u) == "here" \in Matches(u)

\* findByEmail: exactly one row, which may be that of a deactivated user.
FindByEmail(u) == Matches(u) = {"here"}

HandleCredentialsSubmit(b, u) ==
  /\ VerifyCredentials(u)
  /\ cookie' = [cookie EXCEPT ![b] = u]
  /\ UNCHANGED <<links, elsewhere>>

\* The page says that a link was generated whether or not one was: an email with no row
\* gets a link that leads nowhere, an ambiguous one gets none.
HandleMagicLinkSubmit(u) ==
  /\ "elsewhere" \notin Matches(u) /\ Cardinality(links) < MaxLinks
  /\ links' = links \cup {u}
  /\ UNCHANGED <<cookie, elsewhere>>

\* The link is good once.  Its email is looked up again, and who has been deactivated
\* meanwhile is let in here.
FollowLink(b, u) ==
  /\ u \in links /\ links' = links \ {u}
  /\ cookie' = IF FindByEmail(u) THEN [cookie EXCEPT ![b] = u] ELSE cookie
  /\ UNCHANGED elsewhere

LinkExpires(u) ==
  /\ u \in links /\ links' = links \ {u}
  /\ UNCHANGED <<cookie, elsewhere>>

\* The jwt callback answers null for a user who is no longer active.
RefreshSession(b) ==
  /\ cookie[b] # None /\ RefreshedRole(cookie[b]) = None
  /\ cookie' = [cookie EXCEPT ![b] = None]
  /\ UNCHANGED <<links, elsewhere>>

\* SESSION_MAX_AGE_SECONDS without a request.
SessionExpires(b) ==
  /\ cookie[b] # None
  /\ cookie' = [cookie EXCEPT ![b] = None]
  /\ UNCHANGED <<links, elsewhere>>

\* Another organization invites the same email, or the seed is run a second time and
\* creates its users once more in an organization of their own.
RegisterElsewhere(u) ==
  /\ u \in Shared \ elsewhere
  /\ elsewhere' = elsewhere \cup {u}
  /\ UNCHANGED <<cookie, links>>

SessionStep ==
  \/ \E u \in Users :
       \/ \E b \in Browsers : HandleCredentialsSubmit(b, u) \/ FollowLink(b, u)
       \/ HandleMagicLinkSubmit(u) \/ LinkExpires(u) \/ RegisterElsewhere(u)
  \/ \E b \in Browsers : RefreshSession(b) \/ SessionExpires(b)

-----------------------------------------------------------------------------

\* Nobody is signed in on an email that two organizations know, not even with a link
\* that was asked for while it was known to one: a sign-in never guesses whom it lets in.
NeverGuesses ==
  [][\A b \in Browsers : cookie'[b] # cookie[b] /\ cookie'[b] # None
       => cookie'[b] \notin elsewhere]_<<people, sessions>>
=============================================================================
