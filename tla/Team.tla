-------------------------------- MODULE Team --------------------------------
(***************************************************************************)
(* The people of an organization: inviting users, changing roles and       *)
(* deactivating (actions/users.ts), the audit log, teams (actions/teams.ts)*)
(* and the assignment of a conversation to a user or a team                *)
(* (actions/conversations.ts), called from the pages of a browser whose    *)
(* session is that of SignIn.  Every action reads the session's claims     *)
(* anew and then checks, writes and records in separate statements, so     *)
(* two administrators' actions interleave.                                 *)
(***************************************************************************)
EXTENDS SignIn, Sequences

CONSTANTS
  StartRole,   \* the role of the users at the start, None of the others
  Offered,     \* the roles that are handed out
  Recruits,    \* those of them who are put into teams and get conversations
  Requests,    \* role changes and deactivations in flight at a time
  MaxRequests, \* bound: role changes and deactivations that are begun
  MaxDeaths    \* bound: requests that die

Roles    == {"OWNER", "ADMINISTRATOR", "MANAGER", "AGENT", "VIEWER"}
Removal  == "deactivate"
ROLE_RANK == [r \in Roles |-> CASE r = "OWNER" -> 4 [] r = "ADMINISTRATOR" -> 3
                                [] r = "MANAGER" -> 2 [] r = "AGENT" -> 1
                                [] r = "VIEWER" -> 0]

\* seed.ts and every organization start with an active owner.
ASSUME TeamAssumption ==
  /\ IsFiniteSet(Users) /\ Recruits \subseteq Users /\ Offered \subseteq Roles /\ None \notin Roles \cup Users
  /\ StartRole \in [Users -> Roles \cup {None}]
  /\ \E u \in Users : StartRole[u] = "OWNER"
  /\ MaxRequests \in Nat /\ MaxDeaths \in Nat /\ MaxLinks \in Nat
  /\ Shared \subseteq Users

VARIABLES
  pc, job,     \* where a request is suspended, and what it was asked for
  from,        \* the role it read for its audit record
  log,         \* AuditLog: user.role_changed
  team,        \* does the team exist
  members,     \* its TeamMember rows
  assigned,    \* Conversation.assignedUserId and assignedTeamId
  stale,       \* history: requests during whose checks another request wrote a user
  muddled,     \* history: users about whom two requests overlapped or one died unrecorded
  raced,       \* history: an owner was removed by a request with a stale check
  begun, deaths

requests == <<pc, job, from, stale, muddled, begun, deaths>>
groups   == <<team, members, assigned>>
staff    == <<people, requests, log, groups, raced>>
vars     == <<staff, sessions>>

NoJob == [target |-> None, to |-> None]

TypeOK ==
  /\ role \in [Users -> Roles \cup {None}] /\ active \subseteq Users
  /\ pc \in [Requests -> {"idle", "target", "count", "before", "write", "audit"}]
  /\ job \in [Requests -> [target : Users \cup {None}, to : Roles \cup {Removal, None}]]
  /\ from \in [Requests -> Roles \cup {None}]
  /\ log \in Seq([user : Users, from : Roles, to : Roles])
  /\ team \in BOOLEAN /\ members \subseteq Users /\ (~team => members = {})
  /\ assigned \in [user : Users \cup {None}, team : BOOLEAN] /\ (assigned.team => team)
  /\ stale \subseteq Requests /\ muddled \subseteq Users /\ raced \in BOOLEAN
  /\ begun \in 0..MaxRequests /\ deaths \in 0..MaxDeaths
  /\ SessionsOK

\* What seed.ts leaves: an organization, its users and one team.
Init ==
  /\ role = StartRole /\ active = {u \in Users : StartRole[u] # None}
  /\ pc = [r \in Requests |-> "idle"] /\ job = [r \in Requests |-> NoJob]
  /\ from = [r \in Requests |-> None]
  /\ log = <<>>
  /\ team = TRUE
  /\ members = {u \in Recruits : StartRole[u] \in {"OWNER", "MANAGER", "AGENT"}}
  /\ assigned = [user |-> None, team |-> FALSE]
  /\ stale = {} /\ muddled = {} /\ raced = FALSE
  /\ begun = 0 /\ deaths = 0
  /\ cookie = [b \in Browsers |-> None] /\ links = {} /\ elsewhere = {}

RequireRole(r, minRole) == r # None /\ ROLE_RANK[r] >= ROLE_RANK[minRole]

\* auth(), through the jwt and session callbacks, and the guard of an action.
MayAct(u, minRole) == RequireRole(RefreshedRole(u), minRole)

\* assertNotGrantingAboveOwnRank
MayGrant(a, to) == ROLE_RANK[to] <= ROLE_RANK[role[a]]

Owners == {u \in active : role[u] = "OWNER"}

-----------------------------------------------------------------------------
(* users                                                                      *)

\* inviteUser, one insert.
InviteUser(a, u, to) ==
  /\ MayAct(a, "ADMINISTRATOR") /\ MayGrant(a, to)
  /\ role[u] = None
  /\ role' = [role EXCEPT ![u] = to] /\ active' = active \cup {u}
  /\ UNCHANGED <<requests, log, groups, raced>>

SameTarget(r) == {q \in Requests \ {r} : pc[q] # "idle" /\ job[q].target = job'[r].target}

Begin(r, a, u, to) ==
  /\ pc[r] = "idle" /\ begun < MaxRequests /\ begun' = begun + 1
  /\ MayAct(a, "ADMINISTRATOR") /\ role[u] # None
  /\ job' = [job EXCEPT ![r] = [target |-> u, to |-> to]]
  /\ pc' = [pc EXCEPT ![r] = "target"]
  /\ stale' = stale \ {r}
  /\ muddled' = IF SameTarget(r) = {} THEN muddled ELSE muddled \cup {u}
  /\ UNCHANGED <<people, from, log, groups, raced, deaths>>

\* Only the role to be granted is compared with the administrator's own, not the one
\* that is taken away.
UpdateUserRole(r, a, u, to) == Begin(r, a, u, to) /\ MayGrant(a, to)
DeactivateUser(r, a, u)     == Begin(r, a, u, Removal)

Goto(r, label) == pc' = [pc EXCEPT ![r] = label]

\* A request that has ended leaves nothing behind.
Ends(r) ==
  /\ Goto(r, "idle")
  /\ job' = [job EXCEPT ![r] = NoJob] /\ from' = [from EXCEPT ![r] = None]
  /\ stale' = stale \ {r}

AfterChecks(r) == IF job[r].to = Removal THEN "write" ELSE "before"

\* assertNotRemovingLastOwner reads the target: whoever is no owner, or stays one, need
\* not be counted.
ReadTarget(r) ==
  /\ pc[r] = "target"
  /\ LET j == job[r]
     IN Goto(r, IF role[j.target] = "OWNER" /\ j.to # "OWNER" THEN "count" ELSE AfterChecks(r))
  /\ UNCHANGED <<people, job, from, stale, muddled, begun, deaths, log, groups, raced>>

\* Mutant: deactivated owners are counted too.
Counted_All == {u \in Users : role[u] = "OWNER"}

\* countActiveOwners
Counted == Owners

CountActiveOwners(r) ==
  /\ pc[r] = "count"
  /\ IF Cardinality(Counted) <= 1
     THEN Ends(r)
     ELSE Goto(r, AfterChecks(r)) /\ UNCHANGED <<job, from, stale>>
  /\ UNCHANGED <<people, muddled, begun, deaths, log, groups, raced>>

\* Mutant: what the record calls the old role is the new one.
ReadBefore_New(r) ==
  /\ pc[r] = "before"
  /\ from' = [from EXCEPT ![r] = job[r].to]
  /\ Goto(r, "write")
  /\ UNCHANGED <<people, job, stale, muddled, begun, deaths, log, groups, raced>>

\* The role for the audit record is read once more.
ReadBefore(r) ==
  /\ pc[r] = "before"
  /\ from' = [from EXCEPT ![r] = role[job[r].target]]
  /\ Goto(r, "write")
  /\ UNCHANGED <<people, job, stale, muddled, begun, deaths, log, groups, raced>>

\* What a write does to the others: their checks are stale.
Wrote(r) ==
  /\ stale' = (stale \cup {q \in Requests : pc[q] # "idle"}) \ {r}
  /\ raced' = (raced \/ (Owners' # Owners /\ ~(Owners \subseteq Owners') /\ r \in stale))

UpdateRole(r) ==
  /\ pc[r] = "write" /\ job[r].to # Removal
  /\ role' = [role EXCEPT ![job[r].target] = job[r].to]
  /\ UNCHANGED active
  /\ Wrote(r) /\ Goto(r, "audit")
  /\ UNCHANGED <<job, from, muddled, begun, deaths, log, groups>>

Deactivate(r) ==
  /\ pc[r] = "write" /\ job[r].to = Removal
  /\ active' = active \ {job[r].target}
  /\ UNCHANGED role
  /\ Wrote(r) /\ Goto(r, "audit")
  /\ UNCHANGED <<job, from, muddled, begun, deaths, log, groups>>

\* The audit record follows the write in a statement of its own.
RecordAudit(r) ==
  /\ pc[r] = "audit"
  /\ log' = IF job[r].to = Removal THEN log
            ELSE Append(log, [user |-> job[r].target, from |-> from[r], to |-> job[r].to])
  /\ Ends(r)
  /\ UNCHANGED <<people, muddled, begun, deaths, groups, raced>>

\* A request that dies after its write leaves no record.
RequestDies(r) ==
  /\ pc[r] # "idle" /\ deaths < MaxDeaths /\ deaths' = deaths + 1
  /\ muddled' = IF pc[r] = "audit" THEN muddled \cup {job[r].target} ELSE muddled
  /\ Ends(r)
  /\ UNCHANGED <<people, begun, log, groups, raced>>

-----------------------------------------------------------------------------
(* teams and assignment                                                       *)

CreateTeam(a) ==
  /\ MayAct(a, "ADMINISTRATOR") /\ ~team
  /\ team' = TRUE
  /\ UNCHANGED <<people, requests, log, members, assigned, raced>>

\* The members go with the team (onDelete: Cascade), conversations lose it (SetNull).
DeleteTeam(a) ==
  /\ MayAct(a, "ADMINISTRATOR") /\ team
  /\ team' = FALSE /\ members' = {}
  /\ assigned' = [assigned EXCEPT !.team = FALSE]
  /\ UNCHANGED <<people, requests, log, raced>>

\* The primary key (teamId, userId) decides between two additions of one user.
AddMember(u)    == team /\ role[u] # None /\ u \notin members /\ members' = members \cup {u}
RemoveMember(u) == team /\ u \in members /\ members' = members \ {u}

AddTeamMember(a, u) ==
  /\ MayAct(a, "MANAGER") /\ AddMember(u)
  /\ UNCHANGED <<people, requests, log, team, assigned, raced>>

RemoveTeamMember(a, u) ==
  /\ MayAct(a, "MANAGER") /\ RemoveMember(u)
  /\ UNCHANGED <<people, requests, log, team, assigned, raced>>

\* The panel sends both columns, the one that was not chosen as null.
Assignment(kind, u) == [user |-> IF kind = "user" THEN u ELSE None, team |-> kind = "team"]

Assign(to) == assigned' = to

\* The target must be of the organization, which a deactivated user still is.
AssignConversation(a, to) ==
  /\ MayAct(a, "AGENT")
  /\ to.user # None => role[to.user] # None
  /\ to.team => team
  /\ Assign(to)
  /\ UNCHANGED <<people, requests, log, team, members, raced>>

-----------------------------------------------------------------------------
(* the pages: what a browser calls for the user of its session                *)

\* A list of users offers its controls for those who were active when it was loaded.
\* It may be older than anything that happened since, and everybody was active once.
Listed == {u \in Users : role[u] # None}

HandleInvite(b, u, to)        == InviteUser(cookie[b], u, to)
HandleRoleChange(b, r, u, to) == u \in Listed /\ UpdateUserRole(r, cookie[b], u, to)
HandleDeactivate(b, r, u)     == u \in Listed /\ DeactivateUser(r, cookie[b], u)

HandleAddMember(b, u)    == u \in Listed /\ AddTeamMember(cookie[b], u)
HandleRemoveMember(b, u) == RemoveTeamMember(cookie[b], u)
HandleDeleteTeam(b)      == DeleteTeam(cookie[b])
HandleCreateTeam(b)      == CreateTeam(cookie[b])

\* The panel offers every user of the organization, every team, and nobody.
HandleAssigneeChange(b, kind, u) == AssignConversation(cookie[b], Assignment(kind, u))

UsersSection(b) ==
  \E u \in Users : \/ \E to \in Offered : HandleInvite(b, u, to)
                   \/ \E r \in Requests, to \in Offered : HandleRoleChange(b, r, u, to)
                   \/ \E r \in Requests : HandleDeactivate(b, r, u)

TeamCard(b) ==
  \/ HandleCreateTeam(b) \/ HandleDeleteTeam(b)
  \/ \E u \in Recruits : HandleAddMember(b, u) \/ HandleRemoveMember(b, u)

AssignmentPanel(b) ==
  \E u \in Recruits, kind \in {"user", "team", "nobody"} : HandleAssigneeChange(b, kind, u)

-----------------------------------------------------------------------------

RequestStep(r) == \/ ReadTarget(r) \/ CountActiveOwners(r) \/ ReadBefore(r)
                  \/ UpdateRole(r) \/ Deactivate(r) \/ RecordAudit(r) \/ RequestDies(r)

Next ==
  \/ /\ \/ \E b \in Browsers : UsersSection(b) \/ TeamCard(b) \/ AssignmentPanel(b)
        \/ \E r \in Requests : RequestStep(r)
     /\ UNCHANGED sessions
  \/ SessionStep /\ UNCHANGED staff

Spec == Init /\ [][Next]_vars

-----------------------------------------------------------------------------

\* The organization keeps an active owner - unless a request removed one after another
\* request had written to a user since it looked: the count is not part of the update.
OwnerRemains == raced \/ Owners # {}

Precedes(k, i) ==
  log[k].user = log[i].user /\ \A j \in (k + 1)..(i - 1) : log[j].user # log[i].user

\* The audit log tells the history of a role: each record of a user starts from the role
\* that the user's previous one ended with, and the first one from the role at the start,
\* for all whose requests were never in flight together and never died on a write.
AuditChain ==
  \A i \in 1..Len(log) : log[i].user \notin muddled =>
    /\ \A k \in 1..(i - 1) : Precedes(k, i) => log[i].from = log[k].to
    /\ (\A k \in 1..(i - 1) : log[k].user # log[i].user) /\ StartRole[log[i].user] # None
         => log[i].from = StartRole[log[i].user]

Calls(b) == UsersSection(b) \/ TeamCard(b) \/ AssignmentPanel(b)

\* A request is begun, somebody is invited, a team or an assignment is changed only by a
\* call from a browser, and the user of that very browser's session is active at that
\* moment, however long the session has lasted and however it came about: the deactivated
\* are out with their next request, even if a link has just let them in.
OnlyTheActiveAct ==
  [][begun' # begun \/ groups' # groups \/ (\E u \in Users : role[u] = None /\ role'[u] # None)
       => LET callers == {b \in Browsers : Calls(b)}
          IN callers # {} /\ \A b \in callers : cookie[b] \in active]_vars
=============================================================================
