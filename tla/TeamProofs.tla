----------------------------- MODULE TeamProofs -----------------------------
(***************************************************************************)
(* What holds of Team, and of SignIn in it, for any number of users, of     *)
(* browsers and of requests in flight.                                     *)
(***************************************************************************)
EXTENDS Team, FiniteSetTheorems, SequenceTheorems, TLAPS

USE DEF people, requests, groups, staff, sessions

Job == [target : Users \cup {None}, to : Roles \cup {Removal, None}]

PeopleOK == role \in [Users -> Roles \cup {None}] /\ active \subseteq Users

\* A request at work has a target, and that is a user of the organization.
JobsOK ==
  /\ pc \in [Requests -> {"idle", "target", "count", "before", "write", "audit"}]
  /\ job \in [Requests -> Job]
  /\ \A r \in Requests : pc[r] # "idle" =>
       /\ job[r].target \in Users /\ role[job[r].target] # None
       /\ job[r].to \in Offered \cup {Removal}

\* What the request r is about to do takes a role of owner away.
Removes(r) == role[job[r].target] = "OWNER" /\ job[r].to # "OWNER"

\* A request past its checks which has not been overtaken leaves another owner.
CheckedInv ==
  \A r \in Requests \ stale :
    pc[r] \in {"before", "write"} /\ Removes(r) => Cardinality(Owners) > 1

TeamInv == PeopleOK /\ JobsOK /\ CheckedInv

-----------------------------------------------------------------------------
LEMMA OwnersFinite == PeopleOK => IsFiniteSet(Owners) /\ Cardinality(Owners) \in Nat
BY TeamAssumption, FS_Subset, FS_CardinalityType DEF PeopleOK, Owners

\* Whoever takes one of several owners away leaves one.
LEMMA AnotherOwner ==
  ASSUME PeopleOK, Cardinality(Owners) > 1, NEW t
  PROVE  Owners \ {t} # {}
<1> SUFFICES ASSUME Owners \subseteq {t} PROVE FALSE
  OBVIOUS
<1>1. IsFiniteSet({t}) /\ Cardinality({t}) = 1
  BY FS_Singleton
<1>2. Cardinality(Owners) <= Cardinality({t})
  BY <1>1, FS_Subset
<1> QED BY <1>1, <1>2, OwnersFinite

\* The end of a request, and the way from one of its steps to the next.
LEMMA RequestMoves ==
  ASSUME TeamInv, UNCHANGED people, NEW r \in Requests, pc[r] # "idle",
         NEW label \in {"idle", "target", "count", "before", "write", "audit"}, Goto(r, label),
         stale' = stale \/ (label = "idle" /\ stale' = stale \ {r}),
         job' = job \/ (label = "idle" /\ job' = [job EXCEPT ![r] = NoJob]),
         label \in {"before", "write"} =>
           pc[r] \in {"before", "write"} \/ ~Removes(r) \/ Cardinality(Owners) > 1
  PROVE  TeamInv'
<1>1. PeopleOK' /\ Owners' = Owners
  BY DEF TeamInv, PeopleOK, Owners
<1>2. NoJob \in Job
  BY DEF NoJob, Job
<1>3. JobsOK'
  BY <1>2 DEF TeamInv, JobsOK, Goto
<1>4. \A q \in Requests \ {r} : pc'[q] = pc[q] /\ job'[q] = job[q] /\ (q \in stale' <=> q \in stale)
  BY DEF TeamInv, JobsOK, Goto
<1>5. pc'[r] = label /\ (label # "idle" => job' = job /\ stale' = stale)
  BY DEF TeamInv, JobsOK, Goto
<1>6. CheckedInv'
  BY <1>1, <1>4, <1>5 DEF TeamInv, CheckedInv, Removes
<1> QED BY <1>1, <1>3, <1>6 DEF TeamInv

\* A user is written: every other request's checks are stale, and the roles of the
\* users that requests are about are not taken away.
LEMMA WriteStep ==
  ASSUME TeamInv, NEW r \in Requests, pc[r] = "write", Goto(r, "audit"), UNCHANGED job,
         PeopleOK', \A u \in Users : role[u] # None => role'[u] # None,
         stale' = (stale \cup {q \in Requests : pc[q] # "idle"}) \ {r}
  PROVE  TeamInv'
<1>1. JobsOK'
  BY DEF TeamInv, JobsOK, Goto
<1>2. \A q \in Requests \ stale' : pc'[q] \in {"idle", "audit"}
  BY DEF TeamInv, JobsOK, Goto
<1> QED BY <1>1, <1>2 DEF TeamInv, CheckedInv

Invites == \E b \in Browsers, u \in Users, to \in Offered : InviteUser(cookie[b], u, to)
Begins  == \E b \in Browsers, r \in Requests, u \in Users, to \in Offered \cup {Removal} :
             Begin(r, cookie[b], u, to)

\* What does not write a user or a request's state has nothing to do with either.
LEMMA StepCases ==
  ASSUME [Next]_vars
  PROVE  \/ Invites \/ Begins \/ \E r \in Requests : RequestStep(r)
         \/ UNCHANGED <<people, requests, log, raced>>
<1>1. ASSUME NEW b \in Browsers, UsersSection(b) PROVE Invites \/ Begins
  BY <1>1 DEF UsersSection, HandleInvite, HandleRoleChange, HandleDeactivate, UpdateUserRole,
     DeactivateUser, Invites, Begins
<1>2. ASSUME NEW b \in Browsers, TeamCard(b) PROVE UNCHANGED <<people, requests, log, raced>>
  BY <1>2 DEF TeamCard, HandleCreateTeam, HandleDeleteTeam, HandleAddMember,
     HandleRemoveMember, CreateTeam, DeleteTeam, AddTeamMember, RemoveTeamMember
<1>3. ASSUME NEW b \in Browsers, AssignmentPanel(b)
      PROVE  UNCHANGED <<people, requests, log, raced>>
  BY <1>3 DEF AssignmentPanel, HandleAssigneeChange, AssignConversation
<1>4. CASE SessionStep /\ UNCHANGED staff
  BY <1>4
<1>5. CASE UNCHANGED vars
  BY <1>5 DEF vars
<1> QED BY <1>1, <1>2, <1>3, <1>4, <1>5 DEF Next

LEMMA TeamStep == TeamInv /\ [Next]_vars => TeamInv'
<1> SUFFICES ASSUME TeamInv, [Next]_vars PROVE TeamInv'
  OBVIOUS
<1> USE DEF TeamInv
<1>a. ASSUME UNCHANGED <<role, active, pc, job, stale>> PROVE TeamInv'
  BY <1>a DEF PeopleOK, JobsOK, CheckedInv, Removes, Owners
<1>1. ASSUME NEW a, NEW u \in Users, NEW to \in Offered, InviteUser(a, u, to)
      PROVE  TeamInv'
  <2>1. to \in Roles /\ role[u] = None /\ None \notin Roles
    BY <1>1, TeamAssumption DEF InviteUser
  <2>2. PeopleOK' /\ Owners \subseteq Owners'
    BY <1>1, <2>1 DEF InviteUser, PeopleOK, Owners, Roles
  <2>3. JobsOK' /\ \A r \in Requests : pc[r] # "idle" => (Removes(r) <=> Removes(r)')
    BY <1>1, <2>1 DEF InviteUser, PeopleOK, JobsOK, Removes
  <2>4. Cardinality(Owners) <= Cardinality(Owners')
    <3>1. IsFiniteSet(Owners')
      BY <2>2, TeamAssumption, FS_Subset DEF PeopleOK, Owners
    <3> QED BY <2>2, <3>1, FS_Subset
  <2>5. Cardinality(Owners) \in Nat /\ Cardinality(Owners') \in Nat
    <3>1. IsFiniteSet(Owners')
      BY <2>2, TeamAssumption, FS_Subset DEF PeopleOK, Owners
    <3> QED BY <3>1, OwnersFinite, FS_CardinalityType
  <2>6. CheckedInv'
    BY <1>1, <2>3, <2>4, <2>5 DEF InviteUser, CheckedInv
  <2> QED BY <2>2, <2>3, <2>6
<1>2. ASSUME NEW r \in Requests, NEW a, NEW u \in Users,
             NEW to \in Offered \cup {Removal}, Begin(r, a, u, to)
      PROVE  TeamInv'
  <2>1. [target |-> u, to |-> to] \in Job
    BY TeamAssumption DEF Job
  <2>2. PeopleOK' /\ Owners' = Owners
    BY <1>2 DEF Begin, PeopleOK, Owners
  <2>3. JobsOK'
    BY <1>2, <2>1 DEF Begin, JobsOK
  <2>4. \A q \in Requests \ {r} : pc'[q] = pc[q] /\ job'[q] = job[q] /\ (q \in stale' <=> q \in stale)
    BY <1>2 DEF Begin, JobsOK
  <2>5. pc'[r] = "target" /\ role' = role
    BY <1>2 DEF Begin, JobsOK
  <2>6. CheckedInv'
    BY <2>2, <2>4, <2>5 DEF CheckedInv, Removes
  <2> QED BY <2>2, <2>3, <2>6
<1>3. CASE UNCHANGED <<people, requests, log, raced>>
  BY <1>3, <1>a
<1>5. ASSUME NEW r \in Requests, ReadTarget(r) PROVE TeamInv'
  <2>1. CASE role[job[r].target] = "OWNER" /\ job[r].to # "OWNER"
    BY <1>5, <2>1, RequestMoves DEF ReadTarget
  <2>2. CASE ~Removes(r)
    BY <1>5, <2>2, RequestMoves DEF ReadTarget, AfterChecks, Removes
  <2> QED BY <2>1, <2>2 DEF Removes
<1>6. ASSUME NEW r \in Requests, CountActiveOwners(r) PROVE TeamInv'
  <2>1. CASE Cardinality(Counted) <= 1
    BY <1>6, <2>1, RequestMoves DEF CountActiveOwners, Ends
  <2>2. CASE Cardinality(Owners) > 1
    BY <1>6, <2>2, OwnersFinite, RequestMoves DEF CountActiveOwners, AfterChecks, Counted
  <2> QED BY <2>1, <2>2, OwnersFinite DEF Counted
<1>7. ASSUME NEW r \in Requests, ReadBefore(r) PROVE TeamInv'
  BY <1>7, RequestMoves DEF ReadBefore
<1>8. ASSUME NEW r \in Requests, RecordAudit(r) \/ RequestDies(r) PROVE TeamInv'
  <2>1. pc[r] # "idle" /\ UNCHANGED people /\ Goto(r, "idle") /\ stale' = stale \ {r}
        /\ job' = [job EXCEPT ![r] = NoJob]
    BY <1>8 DEF RecordAudit, RequestDies, Ends
  <2> QED BY <2>1, RequestMoves
<1>9. ASSUME NEW r \in Requests, UpdateRole(r) PROVE TeamInv'
  <2>1. job[r].to \in Roles /\ job[r].to # None
    BY <1>9, TeamAssumption DEF UpdateRole, JobsOK
  <2>2. PeopleOK' /\ \A u \in Users : role[u] # None => role'[u] # None
    BY <1>9, <2>1 DEF UpdateRole, PeopleOK
  <2> QED BY <1>9, <2>2, WriteStep DEF UpdateRole, Wrote
<1>10. ASSUME NEW r \in Requests, Deactivate(r) PROVE TeamInv'
  <2>1. PeopleOK'
    BY <1>10 DEF Deactivate, PeopleOK
  <2> QED BY <1>10, <2>1, WriteStep DEF Deactivate, Wrote
<1>11. CASE Invites
  BY <1>1, <1>11 DEF Invites
<1>12. CASE Begins
  BY <1>2, <1>12 DEF Begins
<1>13. ASSUME NEW r \in Requests, RequestStep(r) PROVE TeamInv'
  BY <1>13, <1>5, <1>6, <1>7, <1>8, <1>9, <1>10 DEF RequestStep
<1> QED BY <1>3, <1>11, <1>12, <1>13, StepCases

LEMMA TeamInvariant == Spec => []TeamInv
<1>1. Init => TeamInv
  BY TeamAssumption DEF Init, TeamInv, PeopleOK, JobsOK, CheckedInv, NoJob, Job
<1> QED BY <1>1, TeamStep, PTL DEF Spec

\* The organization keeps an active owner, whoever promotes, demotes and deactivates
\* whom at the same time, unless a request acted on a count that others had overtaken.
THEOREM AnOwnerRemains == Spec => []OwnerRemains
<1>1. Init => OwnerRemains
  <2>1. "OWNER" # None
    BY TeamAssumption DEF Roles
  <2> QED BY <2>1, TeamAssumption DEF Init, OwnerRemains, Owners
<1>a. ASSUME UNCHANGED <<role, active>>, OwnerRemains, raced' = raced PROVE OwnerRemains'
  BY <1>a DEF OwnerRemains, Owners
<1>b. ASSUME NEW r \in Requests, Wrote(r), OwnerRemains, ~raced'
      PROVE  Owners # {} /\ (Owners \subseteq Owners' \/ r \notin stale)
  BY <1>b DEF Wrote, OwnerRemains
<1>2. TeamInv /\ OwnerRemains /\ [Next]_vars => OwnerRemains'
  <2> SUFFICES ASSUME TeamInv, OwnerRemains, [Next]_vars PROVE OwnerRemains'
    OBVIOUS
  <2>1. ASSUME NEW r \in Requests, UpdateRole(r) \/ Deactivate(r) PROVE OwnerRemains'
    <3> SUFFICES ASSUME ~raced' PROVE Owners' # {}
      BY Zenon DEF OwnerRemains
    <3> DEFINE t == job[r].target
    <3>0. t \in Users /\ pc[r] = "write" /\ Wrote(r)
      BY <2>1 DEF TeamInv, JobsOK, UpdateRole, Deactivate
    <3>1. Owners # {} /\ (Owners \subseteq Owners' \/ r \notin stale)
      BY <3>0, <1>b
    <3>2. Owners \ {t} \subseteq Owners'
      BY <2>1 DEF UpdateRole, Deactivate, Owners, TeamInv, PeopleOK
    <3>3. CASE Owners \subseteq Owners'
      BY <3>1, <3>3
    <3>4. CASE r \notin stale /\ Removes(r)
      <4>1. Cardinality(Owners) > 1
        BY <3>0, <3>4 DEF TeamInv, CheckedInv
      <4>2. Owners \ {t} # {}
        BY <4>1, AnotherOwner DEF TeamInv
      <4> QED BY <3>2, <4>2
    <3>5. CASE ~Removes(r)
      <4>1. Owners \subseteq Owners'
        BY <2>1, <3>2, <3>5 DEF UpdateRole, Deactivate, Owners, Removes, Removal, TeamInv, PeopleOK
      <4> QED BY <3>1, <4>1
    <3> QED BY <3>1, <3>3, <3>4, <3>5
  <2>2. CASE Invites
    <3>1. raced' = raced /\ Owners \subseteq Owners'
      BY <2>2, TeamAssumption DEF Invites, InviteUser, Owners, TeamInv, PeopleOK, Roles
    <3> QED BY <3>1, Zenon DEF OwnerRemains
  <2>3. CASE Begins
    BY <2>3, <1>a DEF Begins, Begin
  <2>6. ASSUME NEW r \in Requests, \/ ReadTarget(r) \/ CountActiveOwners(r) \/ ReadBefore(r)
                                  \/ RecordAudit(r) \/ RequestDies(r)
        PROVE  OwnerRemains'
    BY <2>6, <1>a DEF ReadTarget, CountActiveOwners, ReadBefore, RecordAudit, RequestDies
  <2>7. CASE UNCHANGED <<people, requests, log, raced>>
    BY <2>7, <1>a
  <2> QED BY <2>1, <2>2, <2>3, <2>6, <2>7, StepCases DEF RequestStep
<1> QED BY <1>1, <1>2, TeamInvariant, PTL DEF Spec

-----------------------------------------------------------------------------
(* The audit log.  Of a user whose requests never overlapped nor died on a    *)
(* write, the last record ends with the role the user has, but while the one  *)
(* request at work on the user has written and not yet recorded; then it ends *)
(* with the role which that request read.                                     *)

Record == [user : Users, from : Roles \cup {None}, to : Roles]

LogOK ==
  /\ log \in Seq(Record) /\ from \in [Requests -> Roles \cup {None}]
  /\ \A u \in Users : StartRole[u] # None => role[u] # None
  /\ \A i \in 1..Len(log) : role[log[i].user] # None

\* The last record of u, and what the records of u end with.
LastIs(u, k) ==
  k \in 1..Len(log) /\ log[k].user = u /\ \A j \in (k + 1)..Len(log) : log[j].user # u

Recorded(u, x) ==
  /\ \A k \in 1..Len(log) : LastIs(u, k) => x = log[k].to
  /\ (\A k \in 1..Len(log) : log[k].user # u) /\ StartRole[u] # None => x = StartRole[u]

AtWork(q, u)     == pc[q] # "idle" /\ job[q].target = u
Unrecorded(q, u) == AtWork(q, u) /\ pc[q] = "audit" /\ job[q].to # Removal

HistoryOf(u) ==
  /\ \A q, p \in Requests : AtWork(q, u) /\ AtWork(p, u) => p = q
  /\ \A q \in Requests : AtWork(q, u) /\ job[q].to # Removal =>
       /\ pc[q] = "write" => from[q] = role[u]
       /\ pc[q] = "audit" => role[u] = job[q].to /\ Recorded(u, from[q])
  /\ (\A q \in Requests : ~Unrecorded(q, u)) => Recorded(u, role[u])

HistoryInv == LogOK /\ AuditChain /\ \A u \in Users \ muddled : HistoryOf(u)

\* Nothing about u changes but that a request ends or goes from one check to another.
LEMMA SameHistory ==
  ASSUME NEW u, HistoryOf(u), role'[u] = role[u],
         \A x : Recorded(u, x) => Recorded(u, x)',
         \A q \in Requests : AtWork(q, u)' => AtWork(q, u) /\ job'[q] = job[q],
         \A q \in Requests : AtWork(q, u)' /\ pc'[q] \in {"write", "audit"} =>
           \/ from'[q] = role[u] /\ pc'[q] = "write"
           \/ from'[q] = from[q] /\ pc'[q] = pc[q]
           \/ job[q].to = Removal,
         \A q \in Requests : Unrecorded(q, u) => Unrecorded(q, u)'
  PROVE  HistoryOf(u)'
<1>1. \A q, p \in Requests : AtWork(q, u)' /\ AtWork(p, u)' => p = q
  BY DEF HistoryOf
<1>2. ASSUME NEW q \in Requests, AtWork(q, u)', job'[q].to # Removal
      PROVE  /\ pc'[q] = "write" => from'[q] = role'[u]
             /\ pc'[q] = "audit" => role'[u] = job'[q].to /\ Recorded(u, from[q])'
  <2>1. AtWork(q, u) /\ job'[q] = job[q]
    BY <1>2
  <2>2. CASE pc'[q] \in {"write", "audit"} /\ pc'[q] = pc[q] /\ from'[q] = from[q]
    <3>1. pc[q] = "audit" => Recorded(u, from'[q])
      BY <1>2, <2>1, <2>2 DEF HistoryOf
    <3>2. pc[q] = "audit" => Recorded(u, from[q])'
      BY <2>2, <3>1 DEF Recorded
    <3> QED BY <1>2, <2>1, <2>2, <3>2 DEF HistoryOf
  <2>3. CASE pc'[q] = "write" /\ from'[q] = role[u]
    BY <2>3
  <2>4. CASE pc'[q] \notin {"write", "audit"}
    BY <2>4
  <2> QED BY <1>2, <2>1, <2>2, <2>3, <2>4
<1>3. (\A q \in Requests : ~Unrecorded(q, u)') => Recorded(u, role[u])'
  <2> SUFFICES ASSUME \A q \in Requests : ~Unrecorded(q, u)' PROVE Recorded(u, role[u])'
    OBVIOUS
  <2>1. Recorded(u, role[u])
    BY DEF HistoryOf
  <2>2. Recorded(u, role'[u])
    BY <2>1
  <2> QED BY <2>2 DEF Recorded
<1> QED BY <1>1, <1>2, <1>3 DEF HistoryOf

\* Nothing is recorded and no role changes: the log reads as before.
LEMMA SameLog ==
  ASSUME UNCHANGED log
  PROVE  /\ \A u, x : Recorded(u, x) => Recorded(u, x)'
         /\ AuditChain /\ muddled \subseteq muddled' => AuditChain'
<1>1. \A u, x : Recorded(u, x)' <=> Recorded(u, x)
  BY DEF Recorded, LastIs
<1>2. AuditChain /\ muddled \subseteq muddled' => AuditChain'
  BY DEF AuditChain, Precedes
<1> QED BY <1>1, <1>2

\* A record of t is appended: the others' histories end as before, that of t with it.
LEMMA OneMoreRecord ==
  ASSUME LogOK, NEW t \in Users, NEW f \in Roles \cup {None}, NEW to \in Roles,
         log' = Append(log, [user |-> t, from |-> f, to |-> to])
  PROVE  /\ \A u, x : u # t /\ Recorded(u, x) => Recorded(u, x)'
         /\ \A x : x = to => Recorded(t, x)'
         /\ log' \in Seq(Record)
         /\ AuditChain /\ muddled' = muddled /\ (t \notin muddled => Recorded(t, f)) => AuditChain'
<1> DEFINE n == Len(log)
           rec == [user |-> t, from |-> f, to |-> to]
<1>1. log \in Seq(Record) /\ rec \in Record /\ n \in Nat
  BY DEF LogOK, Record
<1>2. /\ Len(log') = n + 1 /\ log'[n + 1] = rec /\ log' \in Seq(Record)
      /\ \A k \in 1..n : log'[k] = log[k]
  BY <1>1
<1>3. \A u : u # t => \A k : LastIs(u, k)' <=> LastIs(u, k)
  BY <1>1, <1>2 DEF LastIs
<1>4. \A k : LastIs(t, k)' => k = n + 1
  BY <1>1, <1>2 DEF LastIs
<1>5. ASSUME NEW u, NEW x, u # t, Recorded(u, x) PROVE Recorded(u, x)'
  BY <1>1, <1>2, <1>3, <1>5 DEF Recorded, LastIs
<1>6. Recorded(t, to)'
  <2>1. \A k : LastIs(t, k)' => to = log'[k].to
    BY <1>2, <1>4
  <2>2. log'[n + 1].user = t /\ n + 1 \in 1..Len(log')
    BY <1>1, <1>2
  <2> QED BY <2>1, <2>2 DEF Recorded
<1>7. ASSUME AuditChain, muddled' = muddled, t \notin muddled => Recorded(t, f) PROVE AuditChain'
  <2> SUFFICES ASSUME NEW i \in 1..(n + 1), log'[i].user \notin muddled
               PROVE  /\ \A k \in 1..(i - 1) : Precedes(k, i)' => log'[i].from = log'[k].to
                      /\ (\A k \in 1..(i - 1) : log'[k].user # log'[i].user)
                           /\ StartRole[log'[i].user] # None
                         => log'[i].from = StartRole[log'[i].user]
    BY <1>2, <1>7 DEF AuditChain
  <2>1. CASE i \in 1..n
    <3>1. \A k \in 1..(i - 1) : Precedes(k, i)' <=> Precedes(k, i)
      BY <1>1, <1>2, <2>1 DEF Precedes
    <3> QED BY <1>1, <1>2, <1>7, <2>1, <3>1 DEF AuditChain
  <2>2. CASE i = n + 1
    <3>1. Recorded(t, f) /\ log'[i] = rec
      BY <1>2, <1>7, <2>2
    <3>2. \A k \in 1..(i - 1) : Precedes(k, i)' <=> LastIs(t, k)
      BY <1>1, <1>2, <2>2 DEF Precedes, LastIs
    <3> QED BY <1>1, <1>2, <2>2, <3>1, <3>2 DEF Recorded
  <2> QED BY <1>1, <2>1, <2>2
<1> QED BY <1>2, <1>5, <1>6, <1>7

\* Requests end or go from one check to another and nothing else is seen of them.
LEMMA QuietStep ==
  ASSUME LogOK, AuditChain, \A u \in Users \ muddled : HistoryOf(u),
         UNCHANGED <<role, log>>, muddled \subseteq muddled', muddled' \subseteq Users,
         from' \in [Requests -> Roles \cup {None}],
         \A q \in Requests : pc'[q] # "idle" => pc[q] # "idle" /\ job'[q] = job[q],
         \A q \in Requests : pc'[q] \in {"write", "audit"} =>
           \/ from'[q] = role[job[q].target] /\ pc'[q] = "write"
           \/ from'[q] = from[q] /\ pc'[q] = pc[q]
           \/ job[q].to = Removal,
         \A q \in Requests : pc[q] = "audit" /\ job[q].to # Removal /\ job[q].target \notin muddled'
           => pc'[q] = "audit" /\ job'[q] = job[q]
  PROVE  HistoryInv'
<1>1. LogOK'
  BY DEF LogOK
<1>2. AuditChain' /\ \A u, x : Recorded(u, x) => Recorded(u, x)'
  BY SameLog
<1>3. ASSUME NEW u \in Users \ muddled' PROVE HistoryOf(u)'
  <2>1. HistoryOf(u) /\ role'[u] = role[u]
    BY <1>3
  <2>2. \A x : Recorded(u, x) => Recorded(u, x)'
    BY <1>2
  <2>3. \A q \in Requests : AtWork(q, u)' => AtWork(q, u) /\ job'[q] = job[q]
    BY DEF AtWork
  <2>4. \A q \in Requests : AtWork(q, u)' /\ pc'[q] \in {"write", "audit"} =>
           \/ from'[q] = role[u] /\ pc'[q] = "write"
           \/ from'[q] = from[q] /\ pc'[q] = pc[q]
           \/ job[q].to = Removal
    BY <2>3 DEF AtWork
  <2>5. \A q \in Requests : Unrecorded(q, u) => Unrecorded(q, u)'
    BY <1>3 DEF Unrecorded, AtWork
  <2> QED BY <2>1, <2>2, <2>3, <2>4, <2>5, SameHistory
<1> QED BY <1>1, <1>2, <1>3 DEF HistoryInv

HistoryTyped == muddled \subseteq Users /\ HistoryInv

LEMMA HistoryOfInvited ==
  ASSUME TeamInv, HistoryTyped, NEW a, NEW u \in Users, NEW to \in Offered, InviteUser(a, u, to)
  PROVE  HistoryTyped'
<1>1. UNCHANGED <<pc, job, from, muddled, log>> /\ role[u] = None
  BY DEF InviteUser
<1>2. to \in Roles /\ to # None
  BY TeamAssumption
<1>3. \A v \in Users : v # u => role'[v] = role[v]
  BY DEF InviteUser, TeamInv, PeopleOK
<1>4. role'[u] = to
  BY DEF InviteUser, TeamInv, PeopleOK
<1>5. LogOK'
  <2>1. \A i \in 1..Len(log) : log[i].user \in Users
    <3>1. log \in Seq(Record)
      BY DEF HistoryTyped, HistoryInv, LogOK
    <3>2. \A i \in 1..Len(log) : log[i] \in Record
      BY <3>1, ElementOfSeq
    <3> QED BY <3>2 DEF Record
  <2> QED BY <1>1, <1>2, <1>3, <1>4, <2>1 DEF HistoryTyped, HistoryInv, LogOK
<1>6. AuditChain' /\ \A v, x : Recorded(v, x) => Recorded(v, x)'
  BY <1>1, SameLog DEF HistoryTyped, HistoryInv
<1>7. ASSUME NEW v \in Users \ muddled, v # u PROVE HistoryOf(v)'
  <2>1. HistoryOf(v) /\ role'[v] = role[v]
    BY <1>3, <1>7 DEF HistoryTyped, HistoryInv
  <2>2. \A q \in Requests : (AtWork(q, v)' <=> AtWork(q, v)) /\ (Unrecorded(q, v)' <=> Unrecorded(q, v))
    BY <1>1 DEF AtWork, Unrecorded
  <2>3. \A x : Recorded(v, x) => Recorded(v, x)'
    BY <1>6
  <2>4. \A q \in Requests : AtWork(q, v)' => AtWork(q, v) /\ job'[q] = job[q]
    BY <1>1, <2>2
  <2>5. \A q \in Requests : AtWork(q, v)' /\ pc'[q] \in {"write", "audit"} =>
           \/ from'[q] = role[v] /\ pc'[q] = "write"
           \/ from'[q] = from[q] /\ pc'[q] = pc[q]
           \/ job[q].to = Removal
    BY <1>1
  <2>6. \A q \in Requests : Unrecorded(q, v) => Unrecorded(q, v)'
    BY <2>2
  <2> QED BY <2>1, <2>3, <2>4, <2>5, <2>6, SameHistory
<1>8. HistoryOf(u)'
  <2>1. \A q \in Requests : ~AtWork(q, u)'
    BY <1>1 DEF TeamInv, JobsOK, AtWork
  <2>2. (\A i \in 1..Len(log) : log[i].user # u) /\ StartRole[u] = None
    BY <1>1 DEF HistoryTyped, HistoryInv, LogOK
  <2>3. \A x : Recorded(u, x)'
    BY <1>1, <2>2 DEF Recorded, LastIs
  <2>4. Recorded(u, role[u])'
    <3>1. Recorded(u, to)'
      BY <2>3
    <3> QED BY <1>4, <3>1 DEF Recorded
  <2> QED BY <2>1, <2>4 DEF HistoryOf
<1> QED BY <1>1, <1>5, <1>6, <1>7, <1>8 DEF HistoryTyped, HistoryInv

LEMMA HistoryOfBegun ==
  ASSUME TeamInv, HistoryTyped, NEW r \in Requests, NEW a, NEW u \in Users,
         NEW to \in Offered \cup {Removal}, Begin(r, a, u, to)
  PROVE  HistoryTyped'
<1>1. UNCHANGED <<role, from, log>> /\ pc[r] = "idle" /\ muddled \subseteq muddled'
      /\ muddled' \subseteq Users
  BY DEF Begin, HistoryTyped
<1>2. /\ pc'[r] = "target" /\ job'[r].target = u
      /\ \A q \in Requests \ {r} : pc'[q] = pc[q] /\ job'[q] = job[q]
  BY DEF Begin, TeamInv, JobsOK
<1>3. LogOK'
  BY <1>1 DEF HistoryTyped, HistoryInv, LogOK
<1>4. AuditChain' /\ \A v, x : Recorded(v, x) => Recorded(v, x)'
  BY <1>1, SameLog DEF HistoryTyped, HistoryInv
<1>5. ASSUME NEW v \in Users \ muddled', v # u PROVE HistoryOf(v)'
  <2>1. HistoryOf(v) /\ role'[v] = role[v]
    BY <1>1, <1>5 DEF HistoryTyped, HistoryInv
  <2>2. \A x : Recorded(v, x) => Recorded(v, x)'
    BY <1>4
  <2>3. \A q \in Requests : AtWork(q, v)' => AtWork(q, v) /\ job'[q] = job[q] /\ pc'[q] = pc[q]
    BY <1>2, <1>5 DEF AtWork
  <2>4. \A q \in Requests : AtWork(q, v) => q # r
    BY <1>1 DEF AtWork
  <2>5. \A q \in Requests : Unrecorded(q, v) => Unrecorded(q, v)'
    BY <1>2, <2>4 DEF Unrecorded, AtWork
  <2> QED BY <1>1, <2>1, <2>2, <2>3, <2>5, SameHistory
<1>6. ASSUME u \notin muddled' PROVE HistoryOf(u)'
  <2>1. SameTarget(r) = {} /\ HistoryOf(u)
    BY <1>1, <1>6 DEF Begin, HistoryTyped, HistoryInv
  <2>2. \A q \in Requests : ~AtWork(q, u) /\ (AtWork(q, u)' => q = r)
    BY <1>1, <1>2, <2>1 DEF SameTarget, AtWork
  <2>3. Recorded(u, role[u])
    BY <2>1, <2>2 DEF HistoryOf, Unrecorded
  <2>4. Recorded(u, role[u])'
    BY <1>1, <2>3 DEF Recorded, LastIs
  <2> QED BY <1>2, <2>2, <2>4 DEF HistoryOf
<1> QED BY <1>1, <1>3, <1>4, <1>5, <1>6 DEF HistoryTyped, HistoryInv


\* The role is written and the record is still to come, or the user is deactivated.
LEMMA HistoryOfWritten ==
  ASSUME TeamInv, HistoryTyped, NEW r \in Requests, UpdateRole(r)
  PROVE  HistoryTyped'
<1> DEFINE t == job[r].target
           to == job[r].to
<1>1. UNCHANGED <<job, from, log, muddled>> /\ pc[r] = "write" /\ to # Removal
  BY DEF UpdateRole
<1>2. t \in Users /\ to \in Roles /\ to # None
  BY <1>1, TeamAssumption DEF TeamInv, JobsOK
<1>3. role'[t] = to /\ \A v \in Users : v # t => role'[v] = role[v]
  BY <1>2 DEF UpdateRole, TeamInv, PeopleOK
<1>4. pc'[r] = "audit" /\ \A q \in Requests \ {r} : pc'[q] = pc[q]
  BY DEF UpdateRole, Goto, TeamInv, JobsOK
<1>5. LogOK'
  <2>1. \A v \in Users : role[v] # None => role'[v] # None
    BY <1>2, <1>3
  <2>2. log \in Seq(Record)
    BY DEF HistoryTyped, HistoryInv, LogOK
  <2>3. \A i \in 1..Len(log) : log[i] \in Record
    BY <2>2, ElementOfSeq
  <2>4. \A i \in 1..Len(log) : log[i].user \in Users
    BY <2>3 DEF Record
  <2> QED BY <1>1, <2>1, <2>4 DEF HistoryTyped, HistoryInv, LogOK
<1>6. AuditChain' /\ \A v, x : Recorded(v, x) => Recorded(v, x)'
  BY <1>1, SameLog DEF HistoryTyped, HistoryInv
<1>7. ASSUME NEW v \in Users \ muddled, v # t PROVE HistoryOf(v)'
  <2>1. HistoryOf(v) /\ role'[v] = role[v]
    BY <1>3, <1>7 DEF HistoryTyped, HistoryInv
  <2>2. \A x : Recorded(v, x) => Recorded(v, x)'
    BY <1>6
  <2>3. ~AtWork(r, v)
    BY <1>7 DEF AtWork
  <2>4. \A q \in Requests : AtWork(q, v)' => AtWork(q, v) /\ job'[q] = job[q] /\ pc'[q] = pc[q]
    BY <1>1, <1>4, <1>7 DEF AtWork
  <2>5. \A q \in Requests : Unrecorded(q, v) => Unrecorded(q, v)'
    BY <1>1, <1>4, <2>3 DEF Unrecorded, AtWork
  <2> QED BY <1>1, <2>1, <2>2, <2>4, <2>5, SameHistory
<1>8. ASSUME t \notin muddled PROVE HistoryOf(t)'
  <2>1. HistoryOf(t) /\ AtWork(r, t)
    BY <1>1, <1>2, <1>8 DEF HistoryTyped, HistoryInv, AtWork
  <2>2. \A q \in Requests : AtWork(q, t) => q = r
    BY <2>1 DEF HistoryOf
  <2>3. \A q \in Requests : AtWork(q, t)' => q = r
    BY <1>1, <1>4, <2>2 DEF AtWork
  <2>4. from[r] = role[t] /\ Recorded(t, role[t])
    BY <1>1, <2>1, <2>2 DEF HistoryOf, Unrecorded
  <2>5. Recorded(t, from[r])'
    BY <1>1, <2>4 DEF Recorded, LastIs
  <2>6. Unrecorded(r, t)'
    BY <1>1, <1>4 DEF Unrecorded, AtWork
  <2> QED BY <1>1, <1>3, <1>4, <2>3, <2>5, <2>6 DEF HistoryOf
<1> QED BY <1>1, <1>5, <1>6, <1>7, <1>8 DEF HistoryTyped, HistoryInv

\* The record of a role change is appended and its request ends.
LEMMA HistoryOfRecorded ==
  ASSUME TeamInv, HistoryTyped, NEW r \in Requests, RecordAudit(r), job[r].to # Removal
  PROVE  HistoryTyped'
<1>0. PICK t, to : t = job[r].target /\ to = job[r].to
  OBVIOUS
<1>1. UNCHANGED <<role, muddled>> /\ pc[r] = "audit"
  BY DEF RecordAudit
<1>2. t \in Users /\ to \in Roles /\ role[t] # None
  BY <1>0, <1>1, TeamAssumption DEF TeamInv, JobsOK
<1>3. log' = Append(log, [user |-> t, from |-> from[r], to |-> to]) /\ LogOK
  BY <1>0 DEF RecordAudit, HistoryTyped, HistoryInv
<1>4. from[r] \in Roles \cup {None} /\ from' \in [Requests -> Roles \cup {None}]
  BY <1>3 DEF RecordAudit, Ends, LogOK
<1>5. /\ pc'[r] = "idle"
      /\ \A q \in Requests \ {r} : pc'[q] = pc[q] /\ job'[q] = job[q] /\ from'[q] = from[q]
  BY <1>3 DEF RecordAudit, Ends, Goto, TeamInv, JobsOK, LogOK
<1>6. /\ \A u, x : u # t /\ Recorded(u, x) => Recorded(u, x)'
      /\ \A x : x = to => Recorded(t, x)'
      /\ log' \in Seq(Record)
      /\ AuditChain /\ muddled' = muddled /\ (t \notin muddled => Recorded(t, from[r])) => AuditChain'
  BY <1>2, <1>3, <1>4, OneMoreRecord
<1>7. t \notin muddled => HistoryOf(t) /\ AtWork(r, t)
  BY <1>0, <1>1, <1>2 DEF HistoryTyped, HistoryInv, AtWork
<1>8. t \notin muddled => role[t] = to /\ Recorded(t, from[r])
  BY <1>0, <1>1, <1>7 DEF HistoryOf
<1>9. AuditChain'
  BY <1>1, <1>6, <1>8 DEF HistoryTyped, HistoryInv
<1>10. LogOK'
  <2>1. \A i \in 1..Len(log') : role[log'[i].user] # None
    <3>1. log \in Seq(Record) /\ [user |-> t, from |-> from[r], to |-> to] \in Record
      BY <1>2, <1>3, <1>4 DEF LogOK, Record
    <3> QED BY <1>2, <1>3, <3>1 DEF LogOK
  <2> QED BY <1>1, <1>3, <1>4, <1>6, <2>1 DEF LogOK
<1>11. ASSUME NEW v \in Users \ muddled, v # t PROVE HistoryOf(v)'
  <2>1. HistoryOf(v) /\ role'[v] = role[v]
    BY <1>1, <1>11 DEF HistoryTyped, HistoryInv
  <2>2. \A x : Recorded(v, x) => Recorded(v, x)'
    BY <1>6, <1>11
  <2>3. \A q \in Requests : AtWork(q, v)' => /\ AtWork(q, v) /\ job'[q] = job[q]
                                             /\ pc'[q] = pc[q] /\ from'[q] = from[q]
    BY <1>5 DEF AtWork
  <2>4. ~AtWork(r, v)
    BY <1>0, <1>11 DEF AtWork
  <2>5. \A q \in Requests : Unrecorded(q, v) => Unrecorded(q, v)'
    BY <1>5, <2>4 DEF Unrecorded, AtWork
  <2> QED BY <2>1, <2>2, <2>3, <2>5, SameHistory
<1>12. ASSUME t \notin muddled PROVE HistoryOf(t)'
  <2>1. \A q \in Requests : AtWork(q, t) => q = r
    BY <1>7, <1>12 DEF HistoryOf
  <2>2. \A q \in Requests : ~AtWork(q, t)'
    BY <1>5, <2>1 DEF AtWork
  <2>3. Recorded(t, to)' /\ role'[t] = to
    BY <1>1, <1>6, <1>8, <1>12
  <2>4. Recorded(t, role[t])'
    BY <2>3 DEF Recorded
  <2> QED BY <2>2, <2>4 DEF HistoryOf
<1> QED BY <1>1, <1>9, <1>10, <1>11, <1>12 DEF HistoryTyped, HistoryInv

LEMMA HistoryStep == TeamInv /\ HistoryTyped /\ [Next]_vars => HistoryTyped'
<1> SUFFICES ASSUME TeamInv, HistoryTyped, [Next]_vars PROVE HistoryTyped'
  OBVIOUS
<1>a. LogOK /\ AuditChain /\ (\A u \in Users \ muddled : HistoryOf(u)) /\ muddled \subseteq Users
  BY DEF HistoryTyped, HistoryInv
<1>b. from \in [Requests -> Roles \cup {None}]
  BY <1>a DEF LogOK
<1>1. CASE Invites
  BY <1>1, HistoryOfInvited DEF Invites
<1>2. CASE Begins
  BY <1>2, HistoryOfBegun DEF Begins
<1>3. CASE UNCHANGED <<people, requests, log, raced>>
  BY <1>3, <1>a, <1>b, QuietStep DEF HistoryTyped
<1>4. ASSUME NEW r \in Requests, ReadTarget(r) PROVE HistoryTyped'
  <2>1. \A q \in Requests : pc'[q] # "idle" => pc[q] # "idle" /\ job'[q] = job[q]
    BY <1>4 DEF ReadTarget, Goto, TeamInv, JobsOK
  <2>2. \A q \in Requests : pc'[q] \in {"write", "audit"} =>
          pc'[q] = pc[q] \/ job[q].to = Removal
    BY <1>4 DEF ReadTarget, Goto, AfterChecks, TeamInv, JobsOK
  <2>3. \A q \in Requests : pc[q] = "audit" => pc'[q] = "audit"
    BY <1>4 DEF ReadTarget, Goto, TeamInv, JobsOK
  <2>4. UNCHANGED <<role, log, muddled, from, job>>
    BY <1>4 DEF ReadTarget
  <2> QED BY <1>a, <1>b, <2>1, <2>2, <2>3, <2>4, QuietStep DEF HistoryTyped
<1>5. ASSUME NEW r \in Requests, CountActiveOwners(r) PROVE HistoryTyped'
  <2>1. UNCHANGED <<role, log, muddled>> /\ pc[r] = "count"
    BY <1>5 DEF CountActiveOwners
  <2>2. /\ from' \in [Requests -> Roles \cup {None}]
        /\ \A q \in Requests \ {r} : pc'[q] = pc[q] /\ job'[q] = job[q] /\ from'[q] = from[q]
    BY <1>5, <1>b DEF CountActiveOwners, Ends, Goto, TeamInv, JobsOK
  <2>3. \/ pc'[r] = "idle"
        \/ pc'[r] \in {"before", "write"} /\ job' = job /\ (pc'[r] = "write" => job[r].to = Removal)
    BY <1>5 DEF CountActiveOwners, Ends, Goto, AfterChecks, TeamInv, JobsOK
  <2> QED BY <1>a, <2>1, <2>2, <2>3, QuietStep DEF HistoryTyped
<1>6. ASSUME NEW r \in Requests, ReadBefore(r) PROVE HistoryTyped'
  <2>1. UNCHANGED <<role, log, muddled, job>> /\ pc[r] = "before"
    BY <1>6 DEF ReadBefore
  <2>2. role[job[r].target] \in Roles \cup {None}
    BY <2>1 DEF TeamInv, JobsOK, PeopleOK
  <2>3. from'[r] = role[job[r].target] /\ from' \in [Requests -> Roles \cup {None}]
    BY <1>6, <1>b, <2>2 DEF ReadBefore
  <2>4. pc'[r] = "write" /\ \A q \in Requests \ {r} : pc'[q] = pc[q] /\ from'[q] = from[q]
    BY <1>6, <1>b DEF ReadBefore, Goto, TeamInv, JobsOK
  <2> QED BY <1>a, <2>1, <2>3, <2>4, QuietStep DEF HistoryTyped
<1>7. ASSUME NEW r \in Requests, Deactivate(r) PROVE HistoryTyped'
  <2>1. UNCHANGED <<role, log, muddled, job, from>> /\ pc[r] = "write" /\ job[r].to = Removal
    BY <1>7 DEF Deactivate
  <2>2. pc'[r] = "audit" /\ \A q \in Requests \ {r} : pc'[q] = pc[q]
    BY <1>7 DEF Deactivate, Goto, TeamInv, JobsOK
  <2> QED BY <1>a, <1>b, <2>1, <2>2, QuietStep DEF HistoryTyped
<1>8. ASSUME NEW r \in Requests, pc[r] # "idle", UNCHANGED <<role, log>>, Ends(r),
             \/ pc[r] = "audit" /\ job[r].to = Removal /\ muddled' = muddled
             \/ muddled' = IF pc[r] = "audit" THEN muddled \cup {job[r].target} ELSE muddled
      PROVE  HistoryTyped'
  <2>1. job[r].target \in Users /\ muddled \subseteq muddled' /\ muddled' \subseteq Users
    BY <1>8, <1>a DEF TeamInv, JobsOK
  <2>2. /\ from' \in [Requests -> Roles \cup {None}] /\ pc'[r] = "idle"
        /\ \A q \in Requests \ {r} : pc'[q] = pc[q] /\ job'[q] = job[q] /\ from'[q] = from[q]
    BY <1>8, <1>b DEF Ends, Goto, TeamInv, JobsOK
  <2> QED BY <1>a, <1>8, <2>1, <2>2, QuietStep DEF HistoryTyped
<1>9. ASSUME NEW r \in Requests, RequestDies(r) PROVE HistoryTyped'
  BY <1>9, <1>8 DEF RequestDies
<1>10. ASSUME NEW r \in Requests, RecordAudit(r) PROVE HistoryTyped'
  <2>1. CASE job[r].to = Removal
    BY <1>10, <1>8, <2>1 DEF RecordAudit
  <2> QED BY <1>10, <2>1, HistoryOfRecorded
<1>11. ASSUME NEW r \in Requests, RequestStep(r) PROVE HistoryTyped'
  BY <1>11, <1>4, <1>5, <1>6, <1>7, <1>9, <1>10, HistoryOfWritten DEF RequestStep
<1> QED BY <1>1, <1>2, <1>3, <1>11, StepCases

\* Whatever administrators do at the same time, the audit log tells the roles that
\* everybody has had whose changes did not overlap and did not die on a write.
THEOREM AuditTellsHistory == Spec => []AuditChain
<1>1. Init => HistoryTyped
  <2> SUFFICES ASSUME Init PROVE HistoryTyped
    OBVIOUS
  <2>1. LogOK /\ AuditChain /\ muddled \subseteq Users
    BY DEF Init, LogOK, AuditChain
  <2>2. \A u \in Users : HistoryOf(u)
    BY DEF Init, HistoryOf, AtWork, Unrecorded, Recorded, LastIs
  <2> QED BY <2>1, <2>2 DEF HistoryTyped, HistoryInv
<1>2. HistoryTyped => AuditChain
  BY DEF HistoryTyped, HistoryInv
<1> QED BY <1>1, <1>2, HistoryStep, TeamInvariant, PTL DEF Spec

-----------------------------------------------------------------------------
(* Sessions                                                                   *)

\* The session of a browser is given out to a user whose email one row has, and only so.
THEOREM SignInNeverGuesses == Spec => NeverGuesses
<1> DEFINE Certain == \A b \in Browsers : cookie'[b] # cookie[b] /\ cookie'[b] # None
                        => cookie'[b] \notin elsewhere'
           Sessions == cookie \in [Browsers -> Users \cup {None}]
<1>1. Init => Sessions
  BY DEF Init
<1>2. Sessions /\ [Next]_vars => Sessions'
  BY DEF vars, Next, SessionStep, HandleCredentialsSubmit, FollowLink, HandleMagicLinkSubmit,
     LinkExpires, RegisterElsewhere, RefreshSession, SessionExpires
<1>3. Sessions /\ [Next]_vars =>
        \A b \in Browsers : cookie'[b] # cookie[b] /\ cookie'[b] # None => cookie'[b] \notin elsewhere
  <2> SUFFICES ASSUME Sessions, SessionStep, NEW b \in Browsers,
                      cookie'[b] # cookie[b], cookie'[b] # None
               PROVE  cookie'[b] \notin elsewhere
    BY DEF vars, Next
  <2>1. PICK c \in Browsers, u \in Users : HandleCredentialsSubmit(c, u) \/ FollowLink(c, u)
    BY DEF SessionStep, HandleMagicLinkSubmit, LinkExpires, RegisterElsewhere,
       RefreshSession, SessionExpires
  <2>2. FindByEmail(u) /\ cookie'[b] = u
    BY <2>1 DEF HandleCredentialsSubmit, FollowLink, VerifyCredentials, FindByEmail
  <2> QED BY <2>2 DEF FindByEmail, Matches
<1>4. Sessions /\ [Next]_vars =>
        [\A b \in Browsers : cookie'[b] # cookie[b] /\ cookie'[b] # None
           => cookie'[b] \notin elsewhere]_<<people, sessions>>
  BY <1>3
<1> QED BY <1>1, <1>2, <1>4, PTL DEF Spec, NeverGuesses

\* A call that has an effect comes from a browser whose own session's user is active: the
\* deactivated begin nothing more, whatever session or link they still hold.
THEOREM TheDeactivatedAreOut == Spec => OnlyTheActiveAct
<1> DEFINE Effect  == \/ begun' # begun \/ groups' # groups
                      \/ \E u \in Users : role[u] = None /\ role'[u] # None
           Callers == {b \in Browsers : Calls(b)}
           ByTheActive == Callers # {} /\ \A b \in Callers : cookie[b] \in active
<1>1. ASSUME NEW u, NEW minRole, MayAct(u, minRole) PROVE u \in active
  BY <1>1 DEF MayAct, RequireRole, RefreshedRole
<1>2. TeamInv /\ [Next]_vars => (Effect => ByTheActive)
  <2> SUFFICES ASSUME TeamInv, [Next]_vars, Effect PROVE ByTheActive
    OBVIOUS
  <2>1. ASSUME NEW b \in Browsers, UsersSection(b) PROVE cookie[b] \in active
    BY <2>1, <1>1 DEF UsersSection, HandleInvite, HandleRoleChange, HandleDeactivate,
       UpdateUserRole, DeactivateUser, Begin, InviteUser
  <2>2. ASSUME NEW b \in Browsers, TeamCard(b) PROVE cookie[b] \in active
    BY <2>2, <1>1 DEF TeamCard, HandleCreateTeam, HandleDeleteTeam, HandleAddMember,
       HandleRemoveMember, CreateTeam, DeleteTeam, AddTeamMember, RemoveTeamMember
  <2>3. ASSUME NEW b \in Browsers, AssignmentPanel(b) PROVE cookie[b] \in active
    BY <2>3, <1>1 DEF AssignmentPanel, HandleAssigneeChange, AssignConversation
  <2>4. ASSUME NEW r \in Requests, RequestStep(r) PROVE ~Effect
    <3>1. UNCHANGED <<begun, groups>>
      BY <2>4 DEF RequestStep, ReadTarget, CountActiveOwners, ReadBefore, UpdateRole, Deactivate,
         RecordAudit, RequestDies
    <3>2. \A u \in Users : role[u] = None => role'[u] = None
      BY <2>4 DEF RequestStep, ReadTarget, CountActiveOwners, ReadBefore, UpdateRole, Deactivate,
         RecordAudit, RequestDies, TeamInv, JobsOK, PeopleOK
    <3> QED BY <3>1, <3>2
  <2>5. ~UNCHANGED staff /\ ~UNCHANGED vars
    BY DEF vars, staff, people, requests
  <2>6. \A b \in Callers : cookie[b] \in active
    BY <2>1, <2>2, <2>3 DEF Calls
  <2>7. Callers # {}
    BY <2>4, <2>5 DEF Next, Calls
  <2> QED BY <2>6, <2>7
<1>3. TeamInv /\ [Next]_vars => [Effect => ByTheActive]_vars
  BY <1>2
<1> QED BY <1>3, TeamInvariant, PTL DEF Spec, OnlyTheActiveAct
=============================================================================
