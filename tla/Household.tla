------------------------------ MODULE Household ------------------------------
(***************************************************************************)
(* Accounts, invitations and shared budgets: services/identity.py,         *)
(* services/family.py, services/setup.py and the handlers of               *)
(* api/security.py and api/setup.py.                                       *)
(*                                                                         *)
(* Each request decides on the snapshot its transaction took and writes    *)
(* the latest committed rows.  None of these requests locks a row before   *)
(* it decides, so any two of them may interleave between the two.          *)
(***************************************************************************)
EXTENDS Integers, FiniteSets

CONSTANTS
  Users,     \* accounts that may ever be created; ids are not used again
  NoUser,
  Invites,   \* invitations that may ever be created
  NoInvite,
  Requests,  \* requests handled at the same time
  Limit      \* MAX_ACTIVE_INVITATIONS_PER_USER

ASSUME HouseholdAssumption ==
  NoUser \notin Users /\ NoInvite \notin Invites /\ Limit \in Nat

VARIABLES
  account,      \* users: "none", "open" or "closed"
  admins,       \* users.is_admin
  owner,        \* budget_memberships: whose budget a user works in
  invites,      \* user_invitations
  initialized,  \* installation_state.initialized_at is not NULL
  requests,     \* the open transactions
  admitted,     \* history: the accounts each invitation created
  registered,   \* history: somebody opened an account without an invitation
  overtaken     \* history: a request wrote what it could not decide any more

tables == <<account, admins, owner, invites, initialized>>
history == <<admitted, registered, overtaken>>
vars == <<tables, requests, history>>

Open == {u \in Users : account[u] = "open"}

Unsent == [sent |-> FALSE, by |-> NoUser, owner |-> NoUser,
           accepted |-> FALSE, revoked |-> FALSE, expired |-> FALSE]
Deleted == [Unsent EXCEPT !.revoked = TRUE]
Pending(i) == invites[i].sent /\ ~invites[i].accepted /\ ~invites[i].revoked /\ ~invites[i].expired

Members(o) == {u \in Users \ {o} : owner[u] = o}

-----------------------------------------------------------------------------
(* What each operation requires.                                           *)

PendingOf(u) == {i \in Invites : Pending(i) /\ invites[i].by = u}

MaySetUp == ~initialized
MayInvite(u) == u \in Open /\ owner[u] # NoUser /\ Cardinality(PendingOf(u)) < Limit
MayRevoke(u, i) ==
  u \in Open /\ invites[i].sent /\ ~invites[i].accepted /\ (u \in admins \/ invites[i].by = u)
MayAccept(i) == Pending(i)
MayLeave(u) == u \in Open /\ owner[u] \notin {u, NoUser}
MayRemove(o, u) == o \in Open /\ owner[o] = o /\ u \in Members(o)

(* The only administrator stays while there are other users, the owner of  *)
(* a budget while it has other members.                                    *)
LastAdminAlone(u) == u \in admins /\ Open = {u}
LastAdmin(u) == u \in admins /\ Open # {u} /\ admins = {u}
MayCloseLeavingMembers(u) == u \in Open /\ owner[u] # NoUser /\ ~LastAdmin(u)
MayClose(u) ==
  /\ u \in Open /\ owner[u] # NoUser
  /\ ~LastAdmin(u)
  /\ owner[u] = u => Members(u) = {}

-----------------------------------------------------------------------------
(* Requests.                                                               *)

Idle == [op |-> "idle", user |-> NoUser, other |-> NoUser, invite |-> NoInvite, budget |-> NoUser, alone |-> FALSE]

(* budget and alone are what the snapshot says of the user who asks, kept  *)
(* by those who use it later: the owner of the budget, and that nobody     *)
(* else has an account.                                                    *)
Begin(r, op, user, other, invite) ==
  /\ requests[r] = Idle
  /\ requests' = [requests EXCEPT ![r] =
       [op |-> op, user |-> user, other |-> other, invite |-> invite,
        budget |-> IF op \in {"share", "leave"} THEN owner[user] ELSE NoUser,
        alone |-> op = "close" /\ Open = {user}]]
  /\ UNCHANGED <<tables, history>>

Asked(r, op) == requests[r].op = op
End(r) == requests' = [requests EXCEPT ![r] = Idle]

(* Refused by the database, given up in a deadlock, or the process died.   *)
Fail(r) ==
  /\ requests[r] # Idle
  /\ End(r)
  /\ UNCHANGED <<tables, history>>

Overtaken(may) == overtaken' = (overtaken \/ ~may)

New(r) == requests[r].user
Ids(r) == {requests[q].user : q \in Requests \ {r}}

-----------------------------------------------------------------------------
(* The claim is a conditional UPDATE: it takes effect once. *)
SetUpBegins(r, u) ==
  /\ MaySetUp /\ account[u] = "none" /\ u \notin Ids(r)
  /\ Begin(r, "setup", u, NoUser, NoInvite)

SetUpClaims(r) == ~initialized
SetUpCommits(r) ==
  LET u == New(r)
  IN /\ Asked(r, "setup") /\ SetUpClaims(r)
     /\ initialized' = TRUE
     /\ account' = [account EXCEPT ![u] = "open"]
     /\ admins' = admins \cup {u}
     /\ owner' = [owner EXCEPT ![u] = u]
     /\ End(r)
     /\ UNCHANGED <<invites, history>>

InviteBegins(r, u, i, shared) ==
  /\ MayInvite(u) /\ invites[i] = Unsent /\ \A q \in Requests : requests[q].invite # i
  /\ Begin(r, IF shared THEN "share" ELSE "invite", u, NoUser, i)

(* The invitation refers to its sender and to the owner of the budget. *)
InviteCommits(r) ==
  LET u == requests[r].user
      o == IF Asked(r, "share") THEN requests[r].budget ELSE NoUser
  IN /\ Asked(r, "share") \/ Asked(r, "invite")
     /\ u \in Open /\ o \in Open \cup {NoUser}
     /\ invites' = [invites EXCEPT ![requests[r].invite] = [Unsent EXCEPT !.sent = TRUE, !.by = u, !.owner = o]]
     /\ Overtaken(MayInvite(u) /\ o \in {owner[u], NoUser})
     /\ End(r)
     /\ UNCHANGED <<account, admins, owner, initialized, admitted, registered>>

RevokeBegins(r, u, i) == MayRevoke(u, i) /\ Begin(r, "revoke", u, NoUser, i)

RevokeCommits(r) ==
  LET i == requests[r].invite
  IN /\ Asked(r, "revoke") /\ invites[i].sent
     /\ invites' = [invites EXCEPT ![i].revoked = TRUE]
     /\ Overtaken(MayRevoke(requests[r].user, i))
     /\ End(r)
     /\ UNCHANGED <<account, admins, owner, initialized, admitted, registered>>

(* Somebody opens an account without an invitation, by password or with    *)
(* Google, while registration_mode is "open"; nobody asks whether the      *)
(* installation was set up before.                                         *)
RegisterBegins(r, u) ==
  /\ account[u] = "none" /\ u \notin Ids(r)
  /\ Begin(r, "register", u, NoUser, NoInvite)

RegisterCommits(r) ==
  LET u == New(r)
  IN /\ Asked(r, "register")
     /\ account' = [account EXCEPT ![u] = "open"]
     /\ owner' = [owner EXCEPT ![u] = u]
     /\ registered' = TRUE
     /\ End(r)
     /\ UNCHANGED <<admins, invites, initialized, admitted, overtaken>>

(* Somebody registers with an invitation, by password or with Google. *)
AcceptBegins(r, u, i) ==
  /\ MayAccept(i) /\ account[u] = "none" /\ u \notin Ids(r)
  /\ Begin(r, "accept", u, NoUser, i)

(* The UPDATE of the invitation and the foreign keys of the membership     *)
(* need the rows they refer to.                                            *)
NeverUsed(i) == invites
Used(i) == [invites EXCEPT ![i].accepted = TRUE]
AcceptCommits(r) ==
  LET u == New(r)
      i == requests[r].invite
      o == invites[i].owner
  IN /\ Asked(r, "accept") /\ invites[i].sent
     /\ account' = [account EXCEPT ![u] = "open"]
     /\ owner' = [owner EXCEPT ![u] = IF o = NoUser THEN u ELSE o]
     /\ invites' = Used(i)
     /\ admitted' = [admitted EXCEPT ![i] = @ \cup {u}]
     /\ Overtaken(MayAccept(i))
     /\ End(r)
     /\ UNCHANGED <<admins, initialized, registered>>

(* Whoever leaves a budget, or is removed from it, starts an own one; the  *)
(* invitations to the old budget that are still open are revoked.          *)
RevokedByNobody(u, o) == invites
Revoked(u, o) ==
  [i \in Invites |-> IF Pending(i) /\ invites[i].by = u /\ invites[i].owner = o
                       THEN [invites[i] EXCEPT !.revoked = TRUE] ELSE invites[i]]

Departs(r, u, o) ==
  /\ owner[u] # NoUser
  /\ owner' = [owner EXCEPT ![u] = u]
  /\ invites' = Revoked(u, o)
  /\ End(r)
  /\ UNCHANGED <<account, admins, initialized, admitted, registered>>

LeaveBegins(r, u) == MayLeave(u) /\ Begin(r, "leave", u, NoUser, NoInvite)
LeaveCommits(r) ==
  /\ Asked(r, "leave")
  /\ Departs(r, requests[r].user, requests[r].budget)
  /\ Overtaken(MayLeave(requests[r].user))

RemoveBegins(r, o, u) == MayRemove(o, u) /\ Begin(r, "remove", o, u, NoInvite)
RemoveCommits(r) ==
  /\ Asked(r, "remove")
  /\ Departs(r, requests[r].other, requests[r].user)
  /\ Overtaken(MayRemove(requests[r].user, requests[r].other))

CloseBegins(r, u) == MayClose(u) /\ Begin(r, "close", u, NoUser, NoInvite)

(* The DELETE cascades to memberships and invitations as they are by then; *)
(* who was alone leaves the installation as it was before setup.           *)
OwnerOnly(u) == [owner EXCEPT ![u] = NoUser]
KeptAdmins(u) == admins
RemainingAdmins(u) == admins \ {u}
SentBy(u) == {i \in Invites : invites[i].by = u}
Concerning(u) == {i \in Invites : u \in {invites[i].by, invites[i].owner}}
WithoutOwner(u) == [v \in Users |-> IF v = u \/ owner[v] = u THEN NoUser ELSE owner[v]]

CloseCommits(r) ==
  LET u == requests[r].user
  IN /\ Asked(r, "close") /\ u \in Open
     /\ account' = [account EXCEPT ![u] = "closed"]
     /\ admins' = RemainingAdmins(u)
     /\ owner' = WithoutOwner(u)
     /\ invites' = [i \in Invites |-> IF i \in Concerning(u) THEN Deleted ELSE invites[i]]
     /\ initialized' = (initialized /\ ~requests[r].alone)
     /\ Overtaken(MayClose(u) /\ (requests[r].alone <=> Open = {u}))
     /\ End(r)
     /\ UNCHANGED <<admitted, registered>>

(* Any request of a user without a budget creates one. *)
EnsureMembership(u) ==
  /\ u \in Open /\ owner[u] = NoUser
  /\ owner' = [owner EXCEPT ![u] = u]
  /\ UNCHANGED <<account, admins, invites, initialized, requests, history>>

(* Seven days. *)
Expire(i) ==
  /\ Pending(i)
  /\ invites' = [invites EXCEPT ![i].expired = TRUE]
  /\ UNCHANGED <<account, admins, owner, initialized, requests, history>>

-----------------------------------------------------------------------------
Init ==
  /\ account = [u \in Users |-> "none"]
  /\ admins = {}
  /\ owner = [u \in Users |-> NoUser]
  /\ invites = [i \in Invites |-> Unsent]
  /\ initialized = FALSE
  /\ requests = [r \in Requests |-> Idle]
  /\ admitted = [i \in Invites |-> {}]
  /\ registered = FALSE
  /\ overtaken = FALSE

Begins(r) ==
  \/ \E u \in Users :
       \/ SetUpBegins(r, u) \/ RegisterBegins(r, u) \/ LeaveBegins(r, u) \/ CloseBegins(r, u)
       \/ \E v \in Users : RemoveBegins(r, u, v)
       \/ \E i \in Invites :
            \/ \E shared \in BOOLEAN : InviteBegins(r, u, i, shared)
            \/ RevokeBegins(r, u, i)
            \/ AcceptBegins(r, u, i)

Commits(r) ==
  \/ SetUpCommits(r) \/ RegisterCommits(r) \/ InviteCommits(r) \/ RevokeCommits(r) \/ AcceptCommits(r)
  \/ LeaveCommits(r) \/ RemoveCommits(r) \/ CloseCommits(r)

Next ==
  \/ \E r \in Requests : Begins(r) \/ Commits(r) \/ Fail(r)
  \/ \E u \in Users : EnsureMembership(u)
  \/ \E i \in Invites : Expire(i)

Spec == Init /\ [][Next]_vars

-----------------------------------------------------------------------------
(* Properties.                                                             *)

(* Requests that create an account create different ones. *)
FreshInv ==
  \A r \in Requests : requests[r].op \in {"setup", "register", "accept"} =>
    /\ requests[r].user \in Users /\ account[requests[r].user] = "none"
    /\ \A q \in Requests \ {r} : requests[q].user # requests[r].user

(* The budget a request remembers was somebody's own, and still is unless  *)
(* its owner has left.                                                     *)
BudgetInv ==
  \A r \in Requests : LET b == requests[r].budget IN
    b # NoUser => account[b] # "none" /\ (b \in Open => owner[b] = b)

Operations == {"idle", "setup", "register", "share", "invite", "revoke", "accept", "leave", "remove", "close"}

TypeOK ==
  /\ account \in [Users -> {"none", "open", "closed"}]
  /\ admins \subseteq Open
  /\ owner \in [Users -> Users \cup {NoUser}]
  /\ invites \in [Invites -> [sent : BOOLEAN, by : Users \cup {NoUser}, owner : Users \cup {NoUser},
                              accepted : BOOLEAN, revoked : BOOLEAN, expired : BOOLEAN]]
  /\ initialized \in BOOLEAN
  /\ requests \in [Requests -> [op : Operations, user : Users \cup {NoUser}, other : Users \cup {NoUser},
                                invite : Invites \cup {NoInvite}, budget : Users \cup {NoUser}, alone : BOOLEAN]]
  /\ admitted \in [Invites -> SUBSET Users]
  /\ registered \in BOOLEAN
  /\ overtaken \in BOOLEAN

(* Whatever overlaps: whoever works in a budget works in that of a living  *)
(* account that works in its own, and so does whoever an open invitation   *)
(* would admit (the cascades of budget_memberships and user_invitations    *)
(* against create_membership and detach_family_member).                    *)
OneLevel ==
  \A u \in Users : owner[u] # NoUser =>
    u \in Open /\ owner[u] \in Open /\ owner[owner[u]] = owner[u]

InvitesLead ==
  \A i \in Invites : invites[i].sent =>
    /\ invites[i].by \in Open
    /\ invites[i].owner # NoUser => invites[i].owner \in Open /\ owner[invites[i].owner] = invites[i].owner

(* As long as no request wrote what it could not decide any more:          *)
(* - an invitation creates one account (README.md 679: one-use);           *)
(* - only members invite into a budget: those who left or were removed     *)
(*   leave no open invitation (_revoke_shared_invites_for_departing_user); *)
(* - setup is offered exactly while there is no administrator, and beside  *)
(*   accounts only if somebody registered without an invitation; there is  *)
(*   one administrator (can_delete_admin, delete_account and the claim of  *)
(*   create_initial_user; register_password_account never looks at it).    *)
OneUse == ~overtaken => \A i \in Invites : Cardinality(admitted[i]) <= 1

InvitersBelong ==
  ~overtaken => \A i \in Invites :
    Pending(i) /\ invites[i].owner # NoUser => owner[invites[i].by] = invites[i].owner

(* An invitation opens one account, and only in the name of a member.      *)
InvitationsHold == OneUse /\ InvitersBelong

Administered ==
  ~overtaken =>
    /\ initialized <=> admins # {}
    /\ \A u, v \in admins : u = v
    /\ Open # {} => initialized \/ registered

(* deploy/README.md 944: owners cannot delete a budget while dependent     *)
(* shared members remain, nobody's budget disappears.                      *)
BudgetsStay ==
  [][\A u \in Open : owner[u] # NoUser /\ account'[u] = "open" => owner'[u] # NoUser]_vars
BudgetsStayUnlessOvertaken ==
  [][~overtaken' => \A u \in Open : owner[u] # NoUser /\ account'[u] = "open" => owner'[u] # NoUser]_vars
==============================================================================
