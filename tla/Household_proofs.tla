-------------------------- MODULE Household_proofs --------------------------
(***************************************************************************)
(* What every order of overlapping requests keeps: nobody works in, or is  *)
(* invited to, the budget of a deleted account or of a mere member.  And   *)
(* what holds as long as no request was overtaken: an invitation is used   *)
(* once and by members only, there is one administrator or setup is        *)
(* offered, and nobody's budget disappears.                                *)
(***************************************************************************)
EXTENDS Household, FiniteSetTheorems, TLAPS

(* Types by table. *)
Accounts == {"none", "open", "closed"}
Invitations == [sent : BOOLEAN, by : Users \cup {NoUser}, owner : Users \cup {NoUser},
                accepted : BOOLEAN, revoked : BOOLEAN, expired : BOOLEAN]
Transactions == [op : Operations, user : Users \cup {NoUser}, other : Users \cup {NoUser},
                 invite : Invites \cup {NoInvite}, budget : Users \cup {NoUser}, alone : BOOLEAN]

(* Requests about an invitation name one. *)
About == {"share", "invite", "revoke", "accept"}
AboutInv == \A r \in Requests : requests[r].op \in About => requests[r].invite \in Invites

IInv == TypeOK /\ OneLevel /\ InvitesLead /\ FreshInv /\ BudgetInv /\ AboutInv

-----------------------------------------------------------------------------
(* Facts about single steps.                                               *)

LEMMA IdleType == Idle \in Transactions
  BY DEF Idle, Transactions, Operations

LEMMA UnsentType == Unsent \in Invitations /\ Deleted \in Invitations /\ ~Unsent.sent /\ ~Deleted.sent
  BY DEF Unsent, Deleted, Invitations

(* A request that ends is idle, the others are as they were. *)
LEMMA EndStep ==
  ASSUME TypeOK, NEW r \in Requests, End(r)
  PROVE  /\ requests' \in [Requests -> Transactions]
         /\ requests'[r] = Idle
         /\ \A q \in Requests \ {r} : requests'[q] = requests[q]
  BY IdleType DEF End, TypeOK, Transactions

(* A request that begins remembers the budget of its user. *)
LEMMA BeginStep ==
  ASSUME TypeOK, NEW r \in Requests, NEW op \in Operations, NEW u \in Users, NEW v \in Users \cup {NoUser},
         NEW i \in Invites \cup {NoInvite}, Begin(r, op, u, v, i)
  PROVE  /\ requests' \in [Requests -> Transactions]
         /\ requests'[r].op = op /\ requests'[r].user = u /\ requests'[r].invite = i
         /\ requests'[r].budget \in {owner[u], NoUser}
         /\ op = "leave" => requests'[r].budget = owner[u]
         /\ \A q \in Requests \ {r} : requests'[q] = requests[q]
         /\ UNCHANGED <<tables, history>>
  <1> DEFINE new == [op |-> op, user |-> u, other |-> v, invite |-> i,
                     budget |-> IF op \in {"share", "leave"} THEN owner[u] ELSE NoUser,
                     alone |-> op = "close" /\ Open = {u}]
  <1>1. new \in Transactions
    BY DEF TypeOK, Transactions
  <1>2. /\ new.op = op /\ new.user = u /\ new.invite = i
        /\ new.budget \in {owner[u], NoUser} /\ (op = "leave" => new.budget = owner[u])
    OBVIOUS
  <1>3. requests' = [requests EXCEPT ![r] = new]
    BY DEF Begin
  <1>4. UNCHANGED <<tables, history>>
    BY DEF Begin
  <1> HIDE DEF new
  <1> QED
    BY <1>1, <1>2, <1>3, <1>4 DEF TypeOK, Transactions

(* Every way to begin. *)
LEMMA BeginsAre ==
  ASSUME NEW r \in Requests, Begins(r)
  PROVE  \E op \in Operations, u \in Users, v \in Users \cup {NoUser}, i \in Invites \cup {NoInvite} :
           /\ Begin(r, op, u, v, i)
           /\ op \in {"setup", "register", "accept"} => account[u] = "none" /\ u \notin Ids(r)
           /\ op \notin {"setup", "register", "accept"} => u \in Open
           /\ op \in About => i \in Invites
           /\ op \in {"share", "invite"} => invites[i] = Unsent /\ \A q \in Requests : requests[q].invite # i
           /\ op \notin {"share", "invite"} => i = NoInvite \/ invites[i].sent
  <1>1. CASE \E u \in Users : SetUpBegins(r, u)
    BY <1>1 DEF SetUpBegins, Operations, About
  <1>8. CASE \E u \in Users : RegisterBegins(r, u)
    BY <1>8 DEF RegisterBegins, Operations, About
  <1>2. CASE \E u \in Users : LeaveBegins(r, u)
    BY <1>2 DEF LeaveBegins, MayLeave, Operations, About
  <1>3. CASE \E u \in Users : CloseBegins(r, u)
    BY <1>3 DEF CloseBegins, MayClose, Operations, About
  <1>4. CASE \E u, v \in Users : RemoveBegins(r, u, v)
    BY <1>4 DEF RemoveBegins, MayRemove, Operations, About
  <1>5. CASE \E u \in Users, i \in Invites, shared \in BOOLEAN : InviteBegins(r, u, i, shared)
    <2>1. PICK u \in Users, i \in Invites, shared \in BOOLEAN : InviteBegins(r, u, i, shared)
      BY <1>5
    <2>2. CASE shared
      BY <2>1, <2>2 DEF InviteBegins, MayInvite, Operations, About
    <2>3. CASE ~shared
      BY <2>1, <2>3 DEF InviteBegins, MayInvite, Operations, About
    <2> QED BY <2>2, <2>3
  <1>6. CASE \E u \in Users, i \in Invites : RevokeBegins(r, u, i)
    <2>1. PICK u \in Users, i \in Invites : RevokeBegins(r, u, i)
      BY <1>6
    <2> QED BY <2>1 DEF RevokeBegins, MayRevoke, Operations, About
  <1>7. CASE \E u \in Users, i \in Invites : AcceptBegins(r, u, i)
    <2>1. PICK u \in Users, i \in Invites : AcceptBegins(r, u, i)
      BY <1>7
    <2> QED BY <2>1 DEF AcceptBegins, MayAccept, Pending, Operations, About
  <1> QED
    BY <1>1, <1>2, <1>3, <1>4, <1>5, <1>6, <1>7, <1>8, Zenon DEF Begins

-----------------------------------------------------------------------------
LEMMA InitIInv == Init => IInv
  <1> SUFFICES ASSUME Init PROVE IInv
    OBVIOUS
  <1>1. TypeOK
    BY IdleType, UnsentType DEF Init, TypeOK, Open, Transactions, Invitations
  <1>2. OneLevel /\ InvitesLead
    BY UnsentType DEF Init, OneLevel, InvitesLead
  <1>3. FreshInv /\ BudgetInv /\ AboutInv
    BY DEF Init, FreshInv, BudgetInv, AboutInv, About, Idle
  <1> QED
    BY <1>1, <1>2, <1>3 DEF IInv

(* What each commit needs of the account it creates. *)
LEMMA Created ==
  ASSUME IInv, NEW r \in Requests, requests[r].op \in {"setup", "register", "accept"}
  PROVE  /\ New(r) \in Users /\ account[New(r)] = "none" /\ owner[New(r)] = NoUser
         /\ \A v \in Users : owner[v] # New(r)
         /\ \A q \in Requests \ {r} : requests[q].user # New(r)
         /\ \A q \in Requests : requests[q].budget # New(r)
  BY HouseholdAssumption DEF IInv, TypeOK, FreshInv, BudgetInv, OneLevel, New, Open, Transactions

LEMMA TypeStep == IInv /\ [Next]_vars => TypeOK'
  <1> SUFFICES ASSUME IInv, [Next]_vars PROVE TypeOK'
    OBVIOUS
  <1> USE DEF IInv
  <1>0. /\ account \in [Users -> Accounts] /\ owner \in [Users -> Users \cup {NoUser}]
        /\ invites \in [Invites -> Invitations] /\ requests \in [Requests -> Transactions]
    BY DEF TypeOK, Accounts, Invitations, Transactions
  <1>t. ASSUME /\ account' \in [Users -> Accounts]
               /\ \A u \in admins' : u \in Users /\ account'[u] = "open"
               /\ owner' \in [Users -> Users \cup {NoUser}]
               /\ invites' \in [Invites -> Invitations]
               /\ initialized' \in BOOLEAN
               /\ requests' \in [Requests -> Transactions]
               /\ admitted' \in [Invites -> SUBSET Users]
               /\ registered' \in BOOLEAN
               /\ overtaken' \in BOOLEAN
        PROVE  TypeOK'
    BY <1>t, Zenon DEF TypeOK, Accounts, Invitations, Transactions, Open
  <1>1. CASE UNCHANGED vars
    BY <1>1 DEF vars, tables, history, TypeOK, Open
  <1>2. ASSUME NEW r \in Requests, Begins(r) PROVE TypeOK'
    <2>1. requests' \in [Requests -> Transactions] /\ UNCHANGED <<tables, history>>
      BY <1>2, BeginsAre, BeginStep
    <2> QED BY <2>1 DEF tables, history, TypeOK, Open, Transactions
  <1>3. ASSUME NEW r \in Requests, SetUpCommits(r) PROVE TypeOK'
    <2>1. New(r) \in Users /\ account[New(r)] = "none"
      BY <1>3, Created DEF SetUpCommits, Asked
    <2>2. requests' \in [Requests -> Transactions]
      BY <1>3, EndStep DEF SetUpCommits
    <2> QED BY <1>0, <1>3, <1>t, <2>1, <2>2 DEF SetUpCommits, TypeOK, Open, Accounts, history
  <1>13. ASSUME NEW r \in Requests, RegisterCommits(r) PROVE TypeOK'
    <2>1. New(r) \in Users /\ account[New(r)] = "none"
      BY <1>13, Created DEF RegisterCommits, Asked
    <2>2. requests' \in [Requests -> Transactions]
      BY <1>13, EndStep DEF RegisterCommits
    <2> QED BY <1>0, <1>13, <1>t, <2>1, <2>2 DEF RegisterCommits, TypeOK, Open, Accounts
  <1>4. ASSUME NEW r \in Requests, InviteCommits(r) PROVE TypeOK'
    <2>1. requests' \in [Requests -> Transactions]
      BY <1>4, EndStep DEF InviteCommits
    <2>2. invites' \in [Invites -> Invitations]
      <3> DEFINE o == IF Asked(r, "share") THEN requests[r].budget ELSE NoUser
                 sent == [Unsent EXCEPT !.sent = TRUE, !.by = requests[r].user, !.owner = o]
      <3>1. sent \in Invitations
        BY <1>0 DEF Unsent, Invitations, Transactions
      <3>2. invites' = [invites EXCEPT ![requests[r].invite] = sent]
        BY <1>4 DEF InviteCommits
      <3> HIDE DEF sent
      <3> QED BY <1>0, <3>1, <3>2
    <2>3. overtaken' \in BOOLEAN
      BY <1>4, Zenon DEF InviteCommits, Overtaken, TypeOK
    <2> QED BY <1>0, <1>4, <1>t, <2>1, <2>2, <2>3 DEF InviteCommits, TypeOK, Open
  <1>5. ASSUME NEW r \in Requests, RevokeCommits(r) PROVE TypeOK'
    <2>1. requests' \in [Requests -> Transactions]
      BY <1>5, EndStep DEF RevokeCommits
    <2>2. invites' \in [Invites -> Invitations]
      BY <1>0, <1>5 DEF RevokeCommits, Invitations
    <2>3. overtaken' \in BOOLEAN
      BY <1>5, Zenon DEF RevokeCommits, Overtaken, TypeOK
    <2> QED BY <1>0, <1>5, <1>t, <2>1, <2>2, <2>3 DEF RevokeCommits, TypeOK, Open
  <1>6. ASSUME NEW r \in Requests, AcceptCommits(r) PROVE TypeOK'
    <2>1. New(r) \in Users /\ account[New(r)] = "none"
      BY <1>6, Created DEF AcceptCommits, Asked
    <2>2. requests' \in [Requests -> Transactions]
      BY <1>6, EndStep DEF AcceptCommits
    <2>3. invites' \in [Invites -> Invitations]
      BY <1>0, <1>6 DEF AcceptCommits, Used, Invitations
    <2>4. overtaken' \in BOOLEAN
      BY <1>6, Zenon DEF AcceptCommits, Overtaken, TypeOK
    <2>5. account' \in [Users -> Accounts] /\ \A u \in Users \ {New(r)} : account'[u] = account[u]
      BY <1>0, <1>6, <2>1 DEF AcceptCommits, Accounts
    <2>6. owner' \in [Users -> Users \cup {NoUser}]
      <3>1. invites[requests[r].invite].owner \in Users \cup {NoUser}
        BY <1>0, <1>6 DEF AcceptCommits, Asked, AboutInv, About, Invitations
      <3> QED BY <1>0, <1>6, <2>1, <3>1 DEF AcceptCommits
    <2>7. admitted' \in [Invites -> SUBSET Users]
      BY <1>6, <2>1 DEF AcceptCommits, TypeOK
    <2>8. UNCHANGED <<admins, initialized, registered>>
      BY <1>6 DEF AcceptCommits
    <2> QED BY <1>t, <2>1, <2>2, <2>3, <2>4, <2>5, <2>6, <2>7, <2>8 DEF TypeOK, Open
  <1>7. ASSUME NEW r \in Requests, NEW u \in Users \cup {NoUser}, NEW o \in Users \cup {NoUser},
               Departs(r, u, o), overtaken' \in BOOLEAN
        PROVE  TypeOK'
    <2>1. requests' \in [Requests -> Transactions]
      BY <1>7, EndStep DEF Departs
    <2>2. invites' \in [Invites -> Invitations]
      <3>1. \A i \in Invites : [invites[i] EXCEPT !.revoked = TRUE] \in Invitations
        BY <1>0 DEF Invitations
      <3> QED BY <1>0, <1>7, <3>1 DEF Departs, Revoked
    <2>3. owner' \in [Users -> Users \cup {NoUser}]
      BY <1>0, <1>7 DEF Departs
    <2> QED BY <1>0, <1>7, <1>t, <2>1, <2>2, <2>3 DEF Departs, TypeOK, Open
  <1>8. ASSUME NEW r \in Requests, LeaveCommits(r) \/ RemoveCommits(r) PROVE TypeOK'
    <2>1. overtaken' \in BOOLEAN
      BY <1>8, Zenon DEF LeaveCommits, RemoveCommits, Overtaken, TypeOK
    <2>2. /\ requests[r].user \in Users \cup {NoUser} /\ requests[r].other \in Users \cup {NoUser}
          /\ requests[r].budget \in Users \cup {NoUser}
      BY <1>0 DEF Transactions
    <2> QED BY <1>7, <1>8, <2>1, <2>2 DEF LeaveCommits, RemoveCommits
  <1>9. ASSUME NEW r \in Requests, CloseCommits(r) PROVE TypeOK'
    <2> DEFINE u == requests[r].user
    <2>1. requests' \in [Requests -> Transactions]
      BY <1>9, EndStep DEF CloseCommits
    <2>2. invites' \in [Invites -> Invitations]
      BY <1>0, <1>9, UnsentType DEF CloseCommits
    <2>3. overtaken' \in BOOLEAN
      BY <1>9, Zenon DEF CloseCommits, Overtaken, TypeOK
    <2>4. account' \in [Users -> Accounts] /\ \A v \in Users \ {u} : account'[v] = account[v]
      BY <1>0, <1>9 DEF CloseCommits, Accounts
    <2>5. owner' \in [Users -> Users \cup {NoUser}]
      BY <1>0, <1>9 DEF CloseCommits, WithoutOwner
    <2>6. admins' = admins \ {u} /\ UNCHANGED <<admitted, registered>>
      BY <1>9 DEF CloseCommits, RemainingAdmins
    <2>7. initialized' \in BOOLEAN
      BY <1>9, Zenon DEF CloseCommits
    <2> QED BY <1>t, <2>1, <2>2, <2>3, <2>4, <2>5, <2>6, <2>7 DEF TypeOK, Open
  <1>10. ASSUME NEW r \in Requests, Fail(r) PROVE TypeOK'
    <2>1. requests' \in [Requests -> Transactions]
      BY <1>10, EndStep DEF Fail
    <2> QED BY <1>10, <2>1 DEF Fail, tables, history, TypeOK, Open, Transactions
  <1>11. ASSUME NEW u \in Users, EnsureMembership(u) PROVE TypeOK'
    BY <1>0, <1>11, <1>t DEF EnsureMembership, history, TypeOK, Open
  <1>12. ASSUME NEW i \in Invites, Expire(i) PROVE TypeOK'
    <2>1. invites' \in [Invites -> Invitations]
      BY <1>0, <1>12 DEF Expire, Invitations
    <2> QED BY <1>0, <1>12, <1>t, <2>1 DEF Expire, history, TypeOK, Open
  <1> QED
    BY <1>1, <1>2, <1>3, <1>4, <1>5, <1>6, <1>8, <1>9, <1>10, <1>11, <1>12, <1>13, Zenon DEF Next, Commits

(* A request that ends takes no other one's account, budget or invitation. *)
LEMMA RequestsEnd ==
  ASSUME IInv, NEW r \in Requests, End(r),
         \A q \in Requests \ {r} : requests[q].op \in {"setup", "register", "accept"} => account'[requests[q].user] = "none",
         \A q \in Requests \ {r} : LET b == requests[q].budget IN
           b # NoUser => account'[b] # "none" /\ (b \in Open' => owner'[b] = b)
  PROVE  FreshInv' /\ BudgetInv' /\ AboutInv'
  <1>1. requests'[r] = Idle /\ \A q \in Requests \ {r} : requests'[q] = requests[q]
    BY EndStep DEF IInv
  <1>2. Idle.op = "idle" /\ Idle.user = NoUser /\ Idle.budget = NoUser
    BY DEF Idle
  <1>3. FreshInv'
    BY <1>1, <1>2, HouseholdAssumption DEF IInv, FreshInv
  <1>4. BudgetInv'
    BY <1>1, <1>2 DEF BudgetInv
  <1>5. AboutInv'
    BY <1>1, <1>2 DEF IInv, AboutInv, About
  <1> QED BY <1>3, <1>4, <1>5

(* Tables that did not change, or changed nothing that matters here. *)
LEMMA SameTables ==
  ASSUME IInv, account' = account, owner' = owner
  PROVE  OneLevel'
  BY DEF IInv, OneLevel, Open

LEMMA SameInvites ==
  ASSUME IInv, account' = account, owner' = owner,
         \A i \in Invites : invites'[i].sent =>
           invites[i].sent /\ invites'[i].by = invites[i].by /\ invites'[i].owner = invites[i].owner
  PROVE  InvitesLead'
  BY DEF IInv, InvitesLead, Open

LEMMA SameBudgets ==
  ASSUME IInv, account' = account, owner' = owner, NEW r \in Requests, End(r)
  PROVE  FreshInv' /\ BudgetInv' /\ AboutInv'
  <1>1. \A q \in Requests \ {r} : requests[q].op \in {"setup", "register", "accept"} => account'[requests[q].user] = "none"
    BY DEF IInv, FreshInv
  <1>2. \A q \in Requests \ {r} : LET b == requests[q].budget IN
           b # NoUser => account'[b] # "none" /\ (b \in Open' => owner'[b] = b)
    BY DEF IInv, BudgetInv, Open
  <1> QED BY <1>1, <1>2, RequestsEnd

Rest == OneLevel /\ InvitesLead /\ FreshInv /\ BudgetInv /\ AboutInv

LEMMA BeginKeeps == ASSUME IInv, NEW r \in Requests, Begins(r) PROVE Rest'
  <1>1. PICK op \in Operations, u \in Users, v \in Users \cup {NoUser}, i \in Invites \cup {NoInvite} :
           /\ Begin(r, op, u, v, i)
           /\ op \in {"setup", "register", "accept"} => account[u] = "none" /\ u \notin Ids(r)
           /\ op \notin {"setup", "register", "accept"} => u \in Open
           /\ op \in About => i \in Invites
    BY BeginsAre
  <1>2. /\ requests'[r].op = op /\ requests'[r].user = u /\ requests'[r].invite = i
        /\ requests'[r].budget \in {owner[u], NoUser}
        /\ op = "leave" => requests'[r].budget = owner[u]
        /\ \A q \in Requests \ {r} : requests'[q] = requests[q]
        /\ UNCHANGED <<tables, history>>
    BY <1>1, BeginStep DEF IInv
  <1>3. OneLevel' /\ InvitesLead'
    BY <1>2, SameTables, SameInvites DEF tables
  <1>4. FreshInv'
    <2>1. \A q \in Requests \ {r} : requests[q].op \in {"setup", "register", "accept"} => requests[q].user # u
      BY <1>1 DEF IInv, FreshInv, Ids, Open
    <2>2. op \in {"setup", "register", "accept"} => \A q \in Requests \ {r} : requests[q].user # u
      BY <1>1 DEF Ids
    <2> QED BY <1>1, <1>2, <2>1, <2>2 DEF IInv, FreshInv, tables
  <1>5. BudgetInv'
    BY <1>1, <1>2 DEF IInv, TypeOK, OneLevel, BudgetInv, Open, tables
  <1>6. AboutInv'
    BY <1>1, <1>2 DEF IInv, AboutInv
  <1> QED BY <1>3, <1>4, <1>5, <1>6 DEF Rest

(* An account is created in an own budget, or in one that is somebody's own. *)
LEMMA CreationKeeps ==
  ASSUME IInv, NEW r \in Requests, requests[r].op \in {"setup", "register", "accept"}, End(r),
         NEW o \in Users, o # New(r) => o \in Open /\ owner[o] = o,
         account' = [account EXCEPT ![New(r)] = "open"], owner' = [owner EXCEPT ![New(r)] = o],
         \A i \in Invites : invites'[i].sent =>
           invites[i].sent /\ invites'[i].by = invites[i].by /\ invites'[i].owner = invites[i].owner
  PROVE  Rest'
  <1> DEFINE u == New(r)
  <1>1. /\ u \in Users /\ account[u] = "none" /\ owner[u] = NoUser
        /\ \A v \in Users : owner[v] # u
        /\ \A q \in Requests \ {r} : requests[q].user # u
        /\ \A q \in Requests : requests[q].budget # u
    BY Created
  <1>2. account'[u] = "open" /\ \A v \in Users \ {u} : account'[v] = account[v]
    BY <1>1 DEF IInv, TypeOK
  <1>3. owner'[u] = o /\ \A v \in Users \ {u} : owner'[v] = owner[v]
    BY <1>1 DEF IInv, TypeOK
  <1>4. OneLevel'
    BY <1>1, <1>2, <1>3 DEF IInv, TypeOK, OneLevel, Open
  <1>5. InvitesLead'
    <2>1. u \notin Open
      BY <1>1 DEF Open
    <2> QED BY <1>1, <1>2, <1>3, <2>1 DEF IInv, TypeOK, InvitesLead, Open
  <1>6. \A q \in Requests \ {r} : requests[q].op \in {"setup", "register", "accept"} => account'[requests[q].user] = "none"
    BY <1>1, <1>2 DEF IInv, FreshInv
  <1>7. \A q \in Requests \ {r} : LET b == requests[q].budget IN
           b # NoUser => account'[b] # "none" /\ (b \in Open' => owner'[b] = b)
    BY <1>1, <1>2, <1>3 DEF IInv, TypeOK, BudgetInv, Open, Transactions
  <1>8. FreshInv' /\ BudgetInv' /\ AboutInv'
    BY <1>6, <1>7, RequestsEnd
  <1> QED BY <1>4, <1>5, <1>8 DEF Rest

(* An invitation leads where the request of its sender looked. *)
LEMMA InviteKeeps == ASSUME IInv, NEW r \in Requests, InviteCommits(r) PROVE Rest'
  <1> DEFINE u == requests[r].user
             o == IF Asked(r, "share") THEN requests[r].budget ELSE NoUser
             j == requests[r].invite
  <1>1. account' = account /\ owner' = owner /\ End(r)
    BY DEF InviteCommits
  <1>2. u \in Open /\ o \in Open \cup {NoUser} /\ (o # NoUser => owner[o] = o)
    BY DEF InviteCommits, IInv, BudgetInv
  <1>3. \A i \in Invites \ {j} : invites'[i] = invites[i]
    BY DEF InviteCommits, IInv, TypeOK
  <1>4. j \in Invites => invites'[j].by = u /\ invites'[j].owner = o
    BY DEF InviteCommits, IInv, TypeOK, Unsent
  <1>5. InvitesLead'
    BY <1>1, <1>2, <1>3, <1>4 DEF IInv, InvitesLead, Open
  <1> QED BY <1>1, <1>5, SameTables, SameBudgets DEF Rest

(* Whoever departs had no members. *)
LEMMA DepartKeeps ==
  ASSUME IInv, NEW r \in Requests, NEW u, NEW o, Departs(r, u, o)
  PROVE  Rest'
  <1>1. account' = account /\ End(r) /\ owner' = [owner EXCEPT ![u] = u] /\ owner[u] # NoUser
    BY DEF Departs
  <1>2. \A i \in Invites : /\ invites'[i].sent = invites[i].sent
                           /\ invites'[i].by = invites[i].by /\ invites'[i].owner = invites[i].owner
    <2>1. \A i \in Invites : LET gone == [invites[i] EXCEPT !.revoked = TRUE]
                             IN gone.sent = invites[i].sent /\ gone.by = invites[i].by /\ gone.owner = invites[i].owner
      BY DEF IInv, TypeOK
    <2> QED BY <2>1 DEF Departs, Revoked
  <1>3. CASE u \notin Users
    <2>1. owner' = owner
      BY <1>1, <1>3 DEF IInv, TypeOK
    <2> QED BY <1>1, <1>2, <2>1, SameTables, SameInvites, SameBudgets DEF Rest
  <1>4. CASE u \in Users
    <2>1. owner'[u] = u /\ \A v \in Users \ {u} : owner'[v] = owner[v]
      BY <1>1, <1>4 DEF IInv, TypeOK
    <2>2. u \in Open
      BY <1>1, <1>4 DEF IInv, OneLevel
    <2>3. OneLevel'
      BY <1>1, <1>4, <2>1, <2>2 DEF IInv, TypeOK, OneLevel, Open
    <2>4. InvitesLead'
      BY <1>1, <1>2, <2>1 DEF IInv, InvitesLead, Open
    <2>5. \A q \in Requests \ {r} : requests[q].op \in {"setup", "register", "accept"} => account'[requests[q].user] = "none"
      BY <1>1 DEF IInv, FreshInv
    <2>6. \A q \in Requests \ {r} : LET b == requests[q].budget IN
             b # NoUser => account'[b] # "none" /\ (b \in Open' => owner'[b] = b)
      BY <1>1, <2>1 DEF IInv, BudgetInv, Open
    <2>7. FreshInv' /\ BudgetInv' /\ AboutInv'
      BY <1>1, <2>5, <2>6, RequestsEnd
    <2> QED BY <2>3, <2>4, <2>7 DEF Rest
  <1> QED BY <1>3, <1>4

(* The cascades of a deleted account take along all that refers to it. *)
LEMMA CloseKeeps == ASSUME IInv, NEW r \in Requests, CloseCommits(r) PROVE Rest'
  <1> DEFINE u == requests[r].user
  <1>1. u \in Users /\ account[u] = "open" /\ End(r)
    BY DEF CloseCommits, Open
  <1>2. account'[u] = "closed" /\ \A v \in Users \ {u} : account'[v] = account[v]
    BY <1>1 DEF CloseCommits, IInv, TypeOK
  <1>3. \A v \in Users : owner'[v] = IF v = u \/ owner[v] = u THEN NoUser ELSE owner[v]
    BY DEF CloseCommits, WithoutOwner
  <1>4. \A i \in Invites : invites'[i] = IF i \in Concerning(u) THEN Deleted ELSE invites[i]
    BY DEF CloseCommits
  <1>5. OneLevel'
    BY <1>1, <1>2, <1>3, HouseholdAssumption DEF IInv, TypeOK, OneLevel, Open
  <1>6. InvitesLead'
    BY <1>1, <1>2, <1>3, <1>4, UnsentType DEF IInv, InvitesLead, Concerning, Open
  <1>7. \A q \in Requests \ {r} : requests[q].op \in {"setup", "register", "accept"} => account'[requests[q].user] = "none"
    BY <1>1, <1>2 DEF IInv, FreshInv
  <1>8. \A q \in Requests \ {r} : LET b == requests[q].budget IN
           b # NoUser => account'[b] # "none" /\ (b \in Open' => owner'[b] = b)
    BY <1>1, <1>2, <1>3 DEF IInv, TypeOK, BudgetInv, Open, Transactions
  <1>9. FreshInv' /\ BudgetInv' /\ AboutInv'
    BY <1>1, <1>7, <1>8, RequestsEnd
  <1> QED BY <1>5, <1>6, <1>9 DEF Rest

LEMMA EnsureKeeps == ASSUME IInv, NEW u \in Users, EnsureMembership(u) PROVE Rest'
  <1>1. /\ u \in Open /\ owner[u] = NoUser
        /\ UNCHANGED <<account, invites, requests>>
        /\ owner'[u] = u /\ \A v \in Users \ {u} : owner'[v] = owner[v]
    BY DEF EnsureMembership, IInv, TypeOK
  <1>2. OneLevel' /\ InvitesLead'
    BY <1>1, HouseholdAssumption DEF IInv, TypeOK, OneLevel, InvitesLead, Open
  <1>3. BudgetInv'
    BY <1>1 DEF IInv, BudgetInv, Open
  <1>4. FreshInv' /\ AboutInv'
    BY <1>1 DEF IInv, FreshInv, AboutInv
  <1> QED BY <1>2, <1>3, <1>4 DEF Rest

LEMMA RestStep == IInv /\ [Next]_vars => Rest'
  <1> SUFFICES ASSUME IInv, [Next]_vars PROVE Rest'
    OBVIOUS
  <1>t. ASSUME UNCHANGED <<account, owner, requests>>, InvitesLead' PROVE Rest'
    <2>1. FreshInv' /\ AboutInv'
      BY <1>t DEF IInv, FreshInv, AboutInv
    <2>2. BudgetInv'
      BY <1>t DEF IInv, BudgetInv, Open
    <2> QED BY <1>t, <2>1, <2>2, SameTables DEF Rest
  <1>1. CASE UNCHANGED vars
    BY <1>1, <1>t, SameInvites DEF vars, tables
  <1>2. ASSUME NEW r \in Requests, Begins(r) PROVE Rest'
    BY <1>2, BeginKeeps
  <1>3. ASSUME NEW r \in Requests, SetUpCommits(r) \/ RegisterCommits(r) PROVE Rest'
    <2>1. New(r) \in Users /\ requests[r].op \in {"setup", "register", "accept"}
      BY <1>3, Created DEF SetUpCommits, RegisterCommits, Asked
    <2>2. /\ account' = [account EXCEPT ![New(r)] = "open"] /\ owner' = [owner EXCEPT ![New(r)] = New(r)]
          /\ End(r) /\ invites' = invites
      BY <1>3 DEF SetUpCommits, RegisterCommits
    <2> QED BY <2>1, <2>2, CreationKeeps
  <1>4. ASSUME NEW r \in Requests, InviteCommits(r) PROVE Rest'
    BY <1>4, InviteKeeps
  <1>5. ASSUME NEW r \in Requests, RevokeCommits(r) PROVE Rest'
    <2>1. account' = account /\ owner' = owner /\ End(r)
      BY <1>5 DEF RevokeCommits
    <2>2. \A i \in Invites : /\ invites'[i].sent = invites[i].sent
                             /\ invites'[i].by = invites[i].by /\ invites'[i].owner = invites[i].owner
      BY <1>5 DEF RevokeCommits, IInv, TypeOK
    <2> QED BY <2>1, <2>2, SameTables, SameInvites, SameBudgets DEF Rest
  <1>6. ASSUME NEW r \in Requests, AcceptCommits(r) PROVE Rest'
    <2> DEFINE i == requests[r].invite
               o == IF invites[i].owner = NoUser THEN New(r) ELSE invites[i].owner
    <2>1. New(r) \in Users /\ requests[r].op \in {"setup", "register", "accept"} /\ i \in Invites
      BY <1>6, Created DEF AcceptCommits, Asked, IInv, AboutInv, About
    <2>2. o \in Users /\ (o # New(r) => o \in Open /\ owner[o] = o)
      BY <1>6, <2>1 DEF AcceptCommits, IInv, TypeOK, InvitesLead, Open
    <2>3. \A k \in Invites : invites'[k].sent =>
            invites[k].sent /\ invites'[k].by = invites[k].by /\ invites'[k].owner = invites[k].owner
      BY <1>6, <2>1 DEF AcceptCommits, Used, IInv, TypeOK
    <2>4. account' = [account EXCEPT ![New(r)] = "open"] /\ owner' = [owner EXCEPT ![New(r)] = o] /\ End(r)
      BY <1>6 DEF AcceptCommits
    <2> HIDE DEF o
    <2> QED BY <2>1, <2>2, <2>3, <2>4, CreationKeeps
  <1>7. ASSUME NEW r \in Requests, LeaveCommits(r) \/ RemoveCommits(r) PROVE Rest'
    BY <1>7, DepartKeeps DEF LeaveCommits, RemoveCommits
  <1>8. ASSUME NEW r \in Requests, CloseCommits(r) PROVE Rest'
    BY <1>8, CloseKeeps
  <1>9. ASSUME NEW r \in Requests, Fail(r) PROVE Rest'
    BY <1>9, SameTables, SameInvites, SameBudgets DEF Fail, tables, Rest
  <1>10. ASSUME NEW u \in Users, EnsureMembership(u) PROVE Rest'
    BY <1>10, EnsureKeeps
  <1>11. ASSUME NEW i \in Invites, Expire(i) PROVE Rest'
    <2>1. \A k \in Invites : /\ invites'[k].sent = invites[k].sent
                             /\ invites'[k].by = invites[k].by /\ invites'[k].owner = invites[k].owner
      BY <1>11 DEF Expire, IInv, TypeOK
    <2>2. UNCHANGED <<account, owner, requests>>
      BY <1>11 DEF Expire
    <2> QED BY <1>t, <2>1, <2>2, SameInvites
  <1> QED
    BY <1>1, <1>2, <1>3, <1>4, <1>5, <1>6, <1>7, <1>8, <1>9, <1>10, <1>11, Zenon DEF Next, Commits

LEMMA Inductive == IInv /\ [Next]_vars => IInv'
  BY TypeStep, RestStep DEF IInv, Rest

-----------------------------------------------------------------------------
LEMMA Invariant == Spec => []IInv
  BY InitIInv, Inductive, PTL DEF Spec

(* Every reachable state is well typed; in particular administrators have  *)
(* accounts, whatever close and accept requests overlap.                   *)
THEOREM TypeCorrect == Spec => []TypeOK
  <1>1. IInv => TypeOK
    BY DEF IInv
  <1> QED BY <1>1, Invariant, PTL

(* The membership graph stays one level deep: whoever works in a budget    *)
(* works in that of a living account that works in its own (the cascades   *)
(* and foreign keys of budget_memberships, create_membership).             *)
THEOREM BudgetsHaveOwners == Spec => []OneLevel
  <1>1. IInv => OneLevel
    BY DEF IInv
  <1> QED BY <1>1, Invariant, PTL

(* No invitation, open or not, leads into the budget of a deleted account  *)
(* or of a mere member (create_invitation, delete_account, leave_family).  *)
THEOREM InvitationsLead == Spec => []InvitesLead
  <1>1. IInv => InvitesLead
    BY DEF IInv
  <1> QED BY <1>1, Invariant, PTL

-----------------------------------------------------------------------------
(* How invitations are used and whose budget a leaving request remembers.  *)

(* An invitation under way is unsent, and under way once. *)
NewInv ==
  \A r \in Requests : requests[r].op \in {"share", "invite"} =>
    /\ invites[requests[r].invite] = Unsent
    /\ \A q \in Requests \ {r} : requests[q].invite # requests[r].invite

(* One that created an account says so as long as it exists. *)
UsedInv == \A i \in Invites : admitted[i] # {} => invites[i].accepted \/ invites[i] = Deleted

(* Nobody gets into another budget but at the creation of the account. *)
LeaveInv ==
  \A r \in Requests : requests[r].op = "leave" =>
    /\ requests[r].user \in Users /\ account[requests[r].user] # "none"
    /\ owner[requests[r].user] \in {requests[r].budget, requests[r].user, NoUser}

UseInv == NewInv /\ UsedInv /\ LeaveInv

LEMMA UnsentIs ==
  /\ ~Unsent.sent /\ ~Unsent.accepted /\ Unsent.by = NoUser /\ Unsent.owner = NoUser
  /\ ~Deleted.sent /\ ~Deleted.accepted /\ Deleted # Unsent
<1>1. Deleted.revoked /\ ~Unsent.revoked
  BY DEF Unsent, Deleted
<1> QED
  BY <1>1 DEF Unsent, Deleted

LEMMA UseInit == Init => UseInv
  BY DEF Init, UseInv, NewInv, UsedInv, LeaveInv, Idle

LEMMA UseBegins == ASSUME IInv, UseInv, NEW r \in Requests, Begins(r) PROVE UseInv'
  <1>1. PICK op \in Operations, u \in Users, v \in Users \cup {NoUser}, i \in Invites \cup {NoInvite} :
           /\ Begin(r, op, u, v, i)
           /\ op \in {"setup", "register", "accept"} => account[u] = "none" /\ u \notin Ids(r)
           /\ op \notin {"setup", "register", "accept"} => u \in Open
           /\ op \in About => i \in Invites
           /\ op \in {"share", "invite"} => invites[i] = Unsent /\ \A q \in Requests : requests[q].invite # i
           /\ op \notin {"share", "invite"} => i = NoInvite \/ invites[i].sent
    BY BeginsAre
  <1>2. /\ requests'[r].op = op /\ requests'[r].user = u /\ requests'[r].invite = i
        /\ requests'[r].budget \in {owner[u], NoUser}
        /\ op = "leave" => requests'[r].budget = owner[u]
        /\ \A q \in Requests \ {r} : requests'[q] = requests[q]
        /\ UNCHANGED <<tables, history>>
    BY <1>1, BeginStep DEF IInv
  <1>3. NewInv'
    <2>1. \A q \in Requests \ {r} : requests[q].op \in {"share", "invite"} =>
            requests[q].invite # i /\ requests[q].invite \in Invites
      BY <1>1, UnsentIs, HouseholdAssumption DEF UseInv, NewInv, IInv, AboutInv, About
    <2> QED BY <1>1, <1>2, <2>1 DEF UseInv, NewInv, tables
  <1>4. UsedInv'
    BY <1>2 DEF UseInv, UsedInv, tables, history
  <1>5. LeaveInv'
    BY <1>1, <1>2 DEF UseInv, LeaveInv, tables, Open
  <1> QED BY <1>3, <1>4, <1>5 DEF UseInv

(* A request that ends leaves the others what they look at. *)
LEMMA UseEnds ==
  ASSUME IInv, UseInv, NEW r \in Requests, End(r), UsedInv',
         \A q \in Requests \ {r} : requests[q].op \in {"share", "invite"} => invites'[requests[q].invite] = Unsent,
         \A u \in Users : account[u] # "none" => account'[u] # "none" /\ owner'[u] \in {owner[u], u, NoUser}
  PROVE  UseInv'
  <1>1. requests'[r] = Idle /\ \A q \in Requests \ {r} : requests'[q] = requests[q]
    BY EndStep DEF IInv
  <1>2. Idle.op = "idle"
    BY DEF Idle
  <1>3. NewInv'
    BY <1>1, <1>2, HouseholdAssumption DEF UseInv, NewInv, IInv, AboutInv, About, Idle
  <1>4. LeaveInv'
    BY <1>1, <1>2 DEF UseInv, LeaveInv
  <1> QED BY <1>3, <1>4 DEF UseInv

(* The request creates the account it was made for. *)
LEMMA UseCreates ==
  ASSUME IInv, UseInv, NEW r \in Requests, requests[r].op \in {"setup", "register", "accept"}, End(r), UsedInv',
         NEW o, account' = [account EXCEPT ![New(r)] = "open"], owner' = [owner EXCEPT ![New(r)] = o],
         \A i \in Invites : ~invites[i].sent => invites'[i] = invites[i]
  PROVE  UseInv'
  <1>1. New(r) \in Users /\ account[New(r)] = "none"
    BY Created
  <1>2. \A u \in Users : account[u] # "none" => account'[u] = account[u] /\ owner'[u] = owner[u]
    BY <1>1 DEF IInv, TypeOK
  <1>3. \A q \in Requests \ {r} : requests[q].op \in {"share", "invite"} => invites'[requests[q].invite] = Unsent
    BY UnsentIs DEF UseInv, NewInv, IInv, AboutInv, About
  <1> QED BY <1>2, <1>3, UseEnds

(* Nobody's account changes, and nobody gets into another budget. *)
LEMMA UseKeeps ==
  ASSUME IInv, UseInv, NEW r \in Requests, End(r), UsedInv', account' = account,
         \A u \in Users : owner'[u] \in {owner[u], u, NoUser},
         \A q \in Requests \ {r} : requests[q].op \in {"share", "invite"} => invites'[requests[q].invite] = Unsent
  PROVE  UseInv'
  BY UseEnds

LEMMA UseInvites == ASSUME IInv, UseInv, NEW r \in Requests, InviteCommits(r) PROVE UseInv'
  <1> DEFINE j == requests[r].invite
  <1>1. /\ account' = account /\ owner' = owner /\ admitted' = admitted /\ End(r)
        /\ requests[r].op \in {"share", "invite"}
    BY DEF InviteCommits, Asked
  <1>2. \A i \in Invites \ {j} : invites'[i] = invites[i]
    BY DEF InviteCommits, IInv, TypeOK
  <1>3. invites[j] = Unsent /\ \A q \in Requests \ {r} : requests[q].invite # j
    BY <1>1 DEF UseInv, NewInv
  <1>4. j \in Invites => admitted[j] = {}
    BY <1>3, UnsentIs DEF UseInv, UsedInv
  <1>5. UsedInv'
    BY <1>1, <1>2, <1>4 DEF UseInv, UsedInv
  <1>6. \A q \in Requests \ {r} : requests[q].op \in {"share", "invite"} => invites'[requests[q].invite] = Unsent
    BY <1>2, <1>3 DEF UseInv, NewInv, IInv, AboutInv, About
  <1> QED BY <1>1, <1>5, <1>6, UseKeeps

LEMMA UseRevokes == ASSUME IInv, UseInv, NEW r \in Requests, RevokeCommits(r) PROVE UseInv'
  <1> DEFINE j == requests[r].invite
  <1>1. /\ account' = account /\ owner' = owner /\ admitted' = admitted /\ End(r)
        /\ invites[j].sent /\ invites' = [invites EXCEPT ![j].revoked = TRUE]
    BY DEF RevokeCommits
  <1>2. \A i \in Invites : invites'[i].accepted = invites[i].accepted /\ (i # j => invites'[i] = invites[i])
    BY <1>1 DEF IInv, TypeOK
  <1>3. UsedInv'
    BY <1>1, <1>2, UnsentIs DEF UseInv, UsedInv
  <1>4. \A q \in Requests \ {r} : requests[q].op \in {"share", "invite"} => invites'[requests[q].invite] = Unsent
    BY <1>1, <1>2, UnsentIs DEF UseInv, NewInv, IInv, AboutInv, About
  <1> QED BY <1>1, <1>3, <1>4, UseKeeps

LEMMA UseAccepts == ASSUME IInv, UseInv, NEW r \in Requests, AcceptCommits(r) PROVE UseInv'
  <1> DEFINE j == requests[r].invite
             o == IF invites[j].owner = NoUser THEN New(r) ELSE invites[j].owner
  <1>1. /\ invites[j].sent /\ requests[r].op = "accept" /\ End(r) /\ j \in Invites
        /\ account' = [account EXCEPT ![New(r)] = "open"] /\ owner' = [owner EXCEPT ![New(r)] = o]
        /\ invites' = [invites EXCEPT ![j].accepted = TRUE]
    BY DEF AcceptCommits, Asked, Used, IInv, AboutInv, About
  <1>2. invites'[j].accepted /\ \A i \in Invites \ {j} : invites'[i] = invites[i]
    BY <1>1 DEF IInv, TypeOK
  <1>3. \A i \in Invites \ {j} : admitted'[i] = admitted[i]
    BY DEF AcceptCommits, IInv, TypeOK
  <1>4. UsedInv'
    BY <1>2, <1>3 DEF UseInv, UsedInv
  <1>5. \A i \in Invites : ~invites[i].sent => invites'[i] = invites[i]
    BY <1>1, <1>2
  <1> HIDE DEF o
  <1> QED BY <1>1, <1>4, <1>5, UseCreates

LEMMA UseDeparts == ASSUME IInv, UseInv, NEW r \in Requests, NEW u, NEW o, Departs(r, u, o) PROVE UseInv'
  <1>1. /\ account' = account /\ admitted' = admitted /\ End(r)
        /\ \A v \in Users : owner'[v] \in {owner[v], v}
    BY DEF Departs, IInv, TypeOK
  <1>2. \A i \in Invites : /\ invites'[i].accepted = invites[i].accepted
                           /\ ~invites[i].sent => invites'[i] = invites[i]
    <2>1. \A i \in Invites : [invites[i] EXCEPT !.revoked = TRUE].accepted = invites[i].accepted
      BY DEF IInv, TypeOK
    <2> QED BY <2>1 DEF Departs, Revoked, Pending
  <1>3. UsedInv'
    BY <1>1, <1>2, UnsentIs DEF UseInv, UsedInv
  <1>4. \A q \in Requests \ {r} : requests[q].op \in {"share", "invite"} => invites'[requests[q].invite] = Unsent
    BY <1>2, UnsentIs DEF UseInv, NewInv, IInv, AboutInv, About
  <1> QED BY <1>1, <1>3, <1>4, UseKeeps

LEMMA UseCloses == ASSUME IInv, UseInv, NEW r \in Requests, CloseCommits(r) PROVE UseInv'
  <1> DEFINE u == requests[r].user
  <1>1. u \in Users /\ account[u] = "open" /\ End(r) /\ admitted' = admitted
    BY DEF CloseCommits, Open
  <1>2. account'[u] = "closed" /\ \A v \in Users \ {u} : account'[v] = account[v]
    BY <1>1 DEF CloseCommits, IInv, TypeOK
  <1>3. \A v \in Users : owner'[v] \in {owner[v], NoUser}
    BY DEF CloseCommits, WithoutOwner
  <1>4. \A i \in Invites : invites'[i] = IF i \in Concerning(u) THEN Deleted ELSE invites[i]
    BY DEF CloseCommits
  <1>5. UsedInv'
    BY <1>1, <1>4 DEF UseInv, UsedInv
  <1>6. \A q \in Requests \ {r} : requests[q].op \in {"share", "invite"} => invites'[requests[q].invite] = Unsent
    BY <1>1, <1>4, UnsentIs, HouseholdAssumption DEF UseInv, NewInv, IInv, AboutInv, About, Concerning
  <1>7. \A v \in Users : account[v] # "none" => account'[v] # "none" /\ owner'[v] \in {owner[v], v, NoUser}
    BY <1>2, <1>3
  <1> QED BY <1>1, <1>5, <1>6, <1>7, UseEnds

LEMMA UseStep == IInv /\ UseInv /\ [Next]_vars => UseInv'
  <1> SUFFICES ASSUME IInv, UseInv, [Next]_vars PROVE UseInv'
    OBVIOUS
  <1>1. CASE UNCHANGED vars
    BY <1>1 DEF vars, tables, history, UseInv, NewInv, UsedInv, LeaveInv
  <1>2. ASSUME NEW r \in Requests, SetUpCommits(r) \/ RegisterCommits(r) PROVE UseInv'
    <2>1. UsedInv'
      BY <1>2 DEF SetUpCommits, RegisterCommits, history, UseInv, UsedInv
    <2> QED BY <1>2, <2>1, UseCreates DEF SetUpCommits, RegisterCommits, Asked
  <1>3. ASSUME NEW r \in Requests, LeaveCommits(r) \/ RemoveCommits(r) PROVE UseInv'
    BY <1>3, UseDeparts DEF LeaveCommits, RemoveCommits
  <1>4. ASSUME NEW r \in Requests, Fail(r) PROVE UseInv'
    <2>1. UsedInv'
      BY <1>4 DEF Fail, tables, history, UseInv, UsedInv
    <2> QED BY <1>4, <2>1, UseKeeps DEF Fail, tables, UseInv, NewInv
  <1>5. ASSUME NEW u \in Users, EnsureMembership(u) PROVE UseInv'
    <2>1. /\ UNCHANGED <<account, invites, requests, admitted>>
          /\ \A v \in Users : owner'[v] \in {owner[v], v}
      BY <1>5 DEF EnsureMembership, history, IInv, TypeOK
    <2> QED BY <2>1 DEF UseInv, NewInv, UsedInv, LeaveInv
  <1>6. ASSUME NEW i \in Invites, Expire(i) PROVE UseInv'
    <2>1. /\ UNCHANGED <<account, owner, requests, admitted>> /\ invites[i].sent
          /\ invites' = [invites EXCEPT ![i].expired = TRUE]
      BY <1>6 DEF Expire, Pending, history
    <2>2. \A k \in Invites : invites'[k].accepted = invites[k].accepted /\ (k # i => invites'[k] = invites[k])
      BY <2>1 DEF IInv, TypeOK
    <2>3. NewInv'
      BY <2>1, <2>2, UnsentIs DEF UseInv, NewInv, IInv, AboutInv, About
    <2>4. UsedInv'
      BY <2>1, <2>2, UnsentIs DEF UseInv, UsedInv
    <2> QED BY <2>1, <2>3, <2>4 DEF UseInv, LeaveInv
  <1> QED
    BY <1>1, <1>2, <1>3, <1>4, <1>5, <1>6, UseBegins, UseInvites, UseRevokes, UseAccepts, UseCloses, Zenon DEF Next, Commits

-----------------------------------------------------------------------------
(* Once a request was overtaken nothing more is promised, and one that is  *)
(* not overtaken still may do what it does.                                *)
LEMMA NotOvertaken ==
  ASSUME TypeOK, NEW may, Overtaken(may), ~overtaken'
  PROVE  ~overtaken /\ may
  BY Zenon DEF Overtaken, TypeOK

(* Only commits, new memberships and expiries write. *)
LEMMA Writes ==
  ASSUME [Next]_vars
  PROVE  \/ UNCHANGED <<account, admins, owner, invites, initialized, admitted, registered, overtaken>>
         \/ \E r \in Requests : Commits(r)
         \/ \E u \in Users : EnsureMembership(u)
         \/ \E i \in Invites : Expire(i)
  <1>1. CASE UNCHANGED vars
    BY <1>1 DEF vars, tables, history
  <1>2. ASSUME NEW r \in Requests, Begins(r)
        PROVE  UNCHANGED <<account, admins, owner, invites, initialized, admitted, registered, overtaken>>
    BY <1>2, BeginsAre DEF Begin, tables, history
  <1>3. ASSUME NEW r \in Requests, Fail(r)
        PROVE  UNCHANGED <<account, admins, owner, invites, initialized, admitted, registered, overtaken>>
    BY <1>3 DEF Fail, tables, history
  <1> QED BY <1>1, <1>2, <1>3, Zenon DEF Next

LEMMA StaysOvertaken == TypeOK /\ [Next]_vars => (overtaken => overtaken')
  <1> SUFFICES ASSUME TypeOK, [Next]_vars, overtaken, ~overtaken' PROVE FALSE
    OBVIOUS
  <1>1. ~UNCHANGED overtaken
    OBVIOUS
  <1>2. PICK r \in Requests : Commits(r)
    BY <1>1, Writes DEF EnsureMembership, Expire, history
  <1>3. \E may : Overtaken(may)
    BY <1>1, <1>2, Zenon DEF Commits, SetUpCommits, RegisterCommits, InviteCommits, RevokeCommits, AcceptCommits, LeaveCommits,
                      RemoveCommits, CloseCommits, history
  <1> QED BY <1>3, NotOvertaken

(* Used once. *)
LEMMA OneUseInit == Init => OneUse
  BY FS_EmptySet DEF Init, OneUse

LEMMA OneUseStep == IInv /\ UseInv /\ OneUse /\ [Next]_vars => OneUse'
  <1> SUFFICES ASSUME IInv, UseInv, OneUse, [Next]_vars, ~overtaken' PROVE \A i \in Invites : Cardinality(admitted'[i]) <= 1
    BY DEF OneUse
  <1>1. \A i \in Invites : Cardinality(admitted[i]) <= 1
    BY StaysOvertaken DEF OneUse, IInv
  <1>2. CASE UNCHANGED admitted
    BY <1>1, <1>2
  <1>3. ASSUME NEW r \in Requests, AcceptCommits(r) PROVE \A i \in Invites : Cardinality(admitted'[i]) <= 1
    <2> DEFINE j == requests[r].invite
    <2>1. j \in Invites
      BY <1>3 DEF AcceptCommits, Asked, IInv, AboutInv, About
    <2>2. MayAccept(j)
      BY <1>3, NotOvertaken DEF AcceptCommits, IInv
    <2>3. admitted[j] = {}
      BY <2>1, <2>2, UnsentIs DEF MayAccept, Pending, UseInv, UsedInv
    <2>4. admitted'[j] = {New(r)} /\ \A i \in Invites \ {j} : admitted'[i] = admitted[i]
      BY <1>3, <2>1, <2>3 DEF AcceptCommits, IInv, TypeOK
    <2>5. Cardinality(admitted'[j]) = 1
      BY <2>4, FS_Singleton
    <2> QED BY <1>1, <2>4, <2>5
  <1>4. UNCHANGED admitted \/ \E r \in Requests : AcceptCommits(r)
    <2>1. \A r \in Requests : Commits(r) => UNCHANGED admitted \/ AcceptCommits(r)
      BY DEF Commits, SetUpCommits, RegisterCommits, InviteCommits, RevokeCommits, LeaveCommits, RemoveCommits, CloseCommits,
             Departs, history
    <2> QED BY <2>1, Writes DEF EnsureMembership, Expire, history
  <1> QED BY <1>2, <1>3, <1>4

(* Administered. *)
LEMMA AdministeredInit == Init => Administered
  BY DEF Init, Administered, Open

(* What Administered says while nobody was overtaken. *)
Guarded ==
  /\ initialized <=> admins # {}
  /\ \A u, v \in admins : u = v
  /\ Open # {} => initialized \/ registered

LEMMA AdministeredStep == IInv /\ Administered /\ [Next]_vars => Administered'
  <1> SUFFICES ASSUME IInv, Administered, [Next]_vars, ~overtaken' PROVE Guarded'
    BY DEF Administered, Guarded
  <1>1. Guarded /\ ~overtaken
    BY StaysOvertaken DEF Administered, Guarded, IInv
  <1>2. CASE UNCHANGED <<account, admins, initialized, registered>>
    BY <1>1, <1>2 DEF Guarded, Open
  (* The claim finds no administrator. *)
  <1>3. ASSUME NEW r \in Requests, SetUpCommits(r) PROVE Guarded'
    <2>1. admins = {}
      BY <1>1, <1>3 DEF Guarded, SetUpCommits, SetUpClaims
    <2>2. admins' = {New(r)} /\ initialized' = TRUE
      BY <1>3, <2>1 DEF SetUpCommits
    <2> QED BY <2>2 DEF Guarded
  <1>4. ASSUME NEW r \in Requests, RegisterCommits(r) PROVE Guarded'
    <2>1. UNCHANGED <<admins, initialized>> /\ registered' = TRUE
      BY <1>4 DEF RegisterCommits
    <2> QED BY <1>1, <2>1 DEF Guarded
  (* Whoever sent the invitation has an account. *)
  <1>5. ASSUME NEW r \in Requests, AcceptCommits(r) PROVE Guarded'
    <2>1. requests[r].invite \in Invites
      BY <1>5 DEF AcceptCommits, Asked, IInv, AboutInv, About
    <2>2. Open # {}
      BY <1>5, <2>1 DEF AcceptCommits, IInv, InvitesLead
    <2>3. UNCHANGED <<admins, initialized, registered>>
      BY <1>5 DEF AcceptCommits
    <2> QED BY <1>1, <2>2, <2>3 DEF Guarded
  (* The administrator leaves only as the last user, and then setup is      *)
  (* offered again; the last user who is none leaves it offered.            *)
  <1>6. ASSUME NEW r \in Requests, CloseCommits(r) PROVE Guarded'
    <2> DEFINE u == requests[r].user
    <2>1. MayClose(u) /\ (requests[r].alone <=> Open = {u})
      BY <1>6, NotOvertaken DEF CloseCommits, IInv
    <2>2. Open' = Open \ {u} /\ admins' = admins \ {u} /\ u \in Open /\ registered' = registered
      BY <1>6 DEF CloseCommits, RemainingAdmins, Open, IInv, TypeOK
    <2>3. initialized' <=> initialized /\ ~requests[r].alone
      BY <1>6, Zenon DEF CloseCommits
    <2>4. admins \subseteq Open
      BY DEF IInv, TypeOK
    <2>5. CASE Open = {u}
      BY <1>1, <2>1, <2>2, <2>3, <2>4, <2>5 DEF Guarded
    <2>6. CASE Open # {u}
      <3>1. u \notin admins
        BY <1>1, <2>1, <2>6 DEF Guarded, MayClose, LastAdmin
      <3> QED BY <1>1, <2>1, <2>2, <2>3, <2>6, <3>1 DEF Guarded
    <2> QED BY <2>5, <2>6
  <1>7. \/ UNCHANGED <<account, admins, initialized, registered>>
        \/ \E r \in Requests : SetUpCommits(r) \/ RegisterCommits(r) \/ AcceptCommits(r) \/ CloseCommits(r)
    <2>1. \A r \in Requests : Commits(r) =>
            \/ UNCHANGED <<account, admins, initialized, registered>>
            \/ SetUpCommits(r) \/ RegisterCommits(r) \/ AcceptCommits(r) \/ CloseCommits(r)
      BY DEF Commits, InviteCommits, RevokeCommits, LeaveCommits, RemoveCommits, Departs
    <2> QED BY <2>1, Writes DEF EnsureMembership, Expire, history
  <1> QED BY <1>2, <1>3, <1>4, <1>5, <1>6, <1>7

(* Only members invite.  Whoever departs is out of the budget they asked   *)
(* about, and every invitation they have open there is revoked with it.    *)
LEMMA BelongInit == Init => InvitersBelong
  BY UnsentIs DEF Init, InvitersBelong, Pending

LEMMA BelongDeparts ==
  ASSUME IInv, InvitersBelong, ~overtaken, NEW r \in Requests, NEW u \in Users, owner[u] # NoUser, Departs(r, u, owner[u])
  PROVE  \A i \in Invites : Pending(i)' /\ invites'[i].owner # NoUser => owner'[invites'[i].by] = invites'[i].owner
  <1>1. owner'[u] = u /\ \A v \in Users \ {u} : owner'[v] = owner[v]
    BY DEF Departs, IInv, TypeOK
  <1> SUFFICES ASSUME NEW i \in Invites, Pending(i)', invites'[i].owner # NoUser
               PROVE  owner'[invites'[i].by] = invites'[i].owner
    OBVIOUS
  <1>2. CASE Pending(i) /\ invites[i].by = u /\ invites[i].owner = owner[u]
    <2>1. invites'[i] = [invites[i] EXCEPT !.revoked = TRUE]
      BY <1>2 DEF Departs, Revoked
    <2>2. invites'[i].revoked
      BY <2>1 DEF IInv, TypeOK
    <2> QED BY <2>2 DEF Pending
  <1>3. CASE ~(Pending(i) /\ invites[i].by = u /\ invites[i].owner = owner[u])
    <2>1. invites'[i] = invites[i]
      BY <1>3 DEF Departs, Revoked
    <2>2. Pending(i) /\ invites[i].owner # NoUser /\ invites[i].by \in Users
      BY <2>1 DEF Pending, IInv, InvitesLead, Open
    <2>3. owner[invites[i].by] = invites[i].owner
      BY <2>2 DEF InvitersBelong
    <2> QED BY <1>1, <1>3, <2>1, <2>2, <2>3
  <1> QED BY <1>2, <1>3

LEMMA BelongStep == IInv /\ UseInv /\ InvitersBelong /\ [Next]_vars => InvitersBelong'
  <1> SUFFICES ASSUME IInv, UseInv, InvitersBelong, [Next]_vars, ~overtaken'
               PROVE  \A i \in Invites : Pending(i)' /\ invites'[i].owner # NoUser =>
                        owner'[invites'[i].by] = invites'[i].owner
    BY DEF InvitersBelong
  <1> DEFINE Belongs(i) == Pending(i)' /\ invites'[i].owner # NoUser => owner'[invites'[i].by] = invites'[i].owner
  <1>0. /\ ~overtaken
        /\ \A i \in Invites : Pending(i) /\ invites[i].owner # NoUser => owner[invites[i].by] = invites[i].owner
    BY StaysOvertaken DEF InvitersBelong, IInv
  (* Whose invitations stay pending, and who stays where they are. *)
  <1>t. ASSUME NEW i \in Invites, Pending(i)' => Pending(i),
               invites'[i].by = invites[i].by, invites'[i].owner = invites[i].owner,
               invites[i].sent /\ owner[invites[i].by] # NoUser => owner'[invites[i].by] = owner[invites[i].by]
        PROVE  Belongs(i)
    BY <1>0, <1>t DEF Pending
  <1>1. CASE UNCHANGED <<account, admins, owner, invites, initialized, admitted, registered, overtaken>>
    BY <1>0, <1>1 DEF Pending
  <1>2. ASSUME NEW r \in Requests, SetUpCommits(r) \/ RegisterCommits(r) \/ AcceptCommits(r), NEW i \in Invites
        PROVE  Belongs(i)
    <2>1. New(r) \in Users /\ account[New(r)] = "none"
      BY <1>2, Created DEF SetUpCommits, RegisterCommits, AcceptCommits, Asked
    <2>2. \A v \in Users : v # New(r) => owner'[v] = owner[v]
      BY <1>2, <2>1 DEF SetUpCommits, RegisterCommits, AcceptCommits, IInv, TypeOK
    <2>3. invites[i].sent => invites[i].by \in Users /\ invites[i].by # New(r)
      BY <2>1 DEF IInv, InvitesLead, Open
    <2>4. /\ Pending(i)' => Pending(i)
          /\ invites'[i].by = invites[i].by /\ invites'[i].owner = invites[i].owner
      BY <1>2 DEF SetUpCommits, RegisterCommits, AcceptCommits, Used, Pending, IInv, TypeOK
    <2> QED BY <1>t, <2>2, <2>3, <2>4
  <1>3. ASSUME NEW r \in Requests, InviteCommits(r), NEW i \in Invites PROVE Belongs(i)
    <2> DEFINE u == requests[r].user
               o == IF Asked(r, "share") THEN requests[r].budget ELSE NoUser
               j == requests[r].invite
    <2>1. o \in {owner[u], NoUser} /\ owner' = owner
      BY <1>3, NotOvertaken DEF InviteCommits, IInv
    <2>2. CASE i # j
      <3>1. invites'[i] = invites[i]
        BY <1>3, <2>2 DEF InviteCommits, IInv, TypeOK
      <3> QED BY <1>0, <2>1, <3>1 DEF Pending
    <2>3. CASE i = j
      <3>1. invites'[i].by = u /\ invites'[i].owner = o
        BY <1>3, <2>3 DEF InviteCommits, IInv, TypeOK, Unsent
      <3> QED BY <2>1, <3>1
    <2> QED BY <2>2, <2>3
  <1>4. ASSUME NEW r \in Requests, RevokeCommits(r), NEW i \in Invites PROVE Belongs(i)
    <2>1. /\ Pending(i)' => Pending(i)
          /\ invites'[i].by = invites[i].by /\ invites'[i].owner = invites[i].owner /\ owner' = owner
      BY <1>4 DEF RevokeCommits, Pending, IInv, TypeOK
    <2> QED BY <1>t, <2>1
  <1>5. ASSUME NEW r \in Requests, LeaveCommits(r), NEW i \in Invites PROVE Belongs(i)
    <2> DEFINE u == requests[r].user
    <2>1. MayLeave(u)
      BY <1>5, NotOvertaken DEF LeaveCommits, IInv
    <2>2. u \in Users /\ owner[u] # NoUser /\ requests[r].budget = owner[u]
      BY <1>5, <2>1 DEF LeaveCommits, Asked, MayLeave, UseInv, LeaveInv
    <2> QED BY <1>0, <1>5, <2>2, BelongDeparts DEF LeaveCommits
  <1>6. ASSUME NEW r \in Requests, RemoveCommits(r), NEW i \in Invites PROVE Belongs(i)
    <2>1. MayRemove(requests[r].user, requests[r].other)
      BY <1>6, NotOvertaken DEF RemoveCommits, IInv
    <2>2. requests[r].other \in Users /\ owner[requests[r].other] = requests[r].user /\ requests[r].user # NoUser
      BY <2>1, HouseholdAssumption DEF MayRemove, Members, Open
    <2> QED BY <1>0, <1>6, <2>2, BelongDeparts DEF RemoveCommits
  <1>7. ASSUME NEW r \in Requests, CloseCommits(r), NEW i \in Invites PROVE Belongs(i)
    <2> DEFINE u == requests[r].user
    <2>1. invites'[i] = IF i \in Concerning(u) THEN Deleted ELSE invites[i]
      BY <1>7 DEF CloseCommits
    <2>2. \A v \in Users : v # u /\ owner[v] # u => owner'[v] = owner[v]
      BY <1>7 DEF CloseCommits, WithoutOwner
    <2>3. CASE i \in Concerning(u)
      BY <2>1, <2>3, UnsentIs DEF Pending
    <2>4. CASE i \notin Concerning(u)
      <3>1. invites'[i] = invites[i] /\ invites[i].by # u /\ invites[i].owner # u
        BY <2>1, <2>4 DEF Concerning
      <3>2. invites[i].sent => invites[i].by \in Users
        BY DEF IInv, InvitesLead, Open
      <3> QED BY <1>0, <2>2, <3>1, <3>2 DEF Pending
    <2> QED BY <2>3, <2>4
  <1>8. ASSUME NEW u \in Users, EnsureMembership(u), NEW i \in Invites PROVE Belongs(i)
    <2>1. /\ invites' = invites /\ owner[u] = NoUser
          /\ \A v \in Users : v # u => owner'[v] = owner[v]
      BY <1>8 DEF EnsureMembership, IInv, TypeOK
    <2>2. invites[i].sent => invites[i].by \in Users
      BY DEF IInv, InvitesLead, Open
    <2> QED BY <1>t, <2>1, <2>2 DEF Pending
  <1>9. ASSUME NEW k \in Invites, Expire(k), NEW i \in Invites PROVE Belongs(i)
    <2>1. /\ Pending(i)' => Pending(i)
          /\ invites'[i].by = invites[i].by /\ invites'[i].owner = invites[i].owner /\ owner' = owner
      BY <1>9 DEF Expire, Pending, IInv, TypeOK
    <2> QED BY <1>t, <2>1
  <1> HIDE DEF Belongs
  <1>10. \A i \in Invites : Belongs(i)
    BY <1>1, <1>2, <1>3, <1>4, <1>5, <1>6, <1>7, <1>8, <1>9, Writes, Zenon DEF Commits, Belongs
  <1> QED BY <1>10 DEF Belongs

-----------------------------------------------------------------------------
LEMMA UseInvariant == Spec => []UseInv
  BY Invariant, UseInit, UseStep, PTL DEF Spec

(* As long as no request is overtaken, an invitation creates one account   *)
(* and an open one into a shared budget is in the name of a member         *)
(* (identity.py:270-320, family.py:118-156).                               *)
THEOREM InvitationsAlwaysHold == Spec => []InvitationsHold
  <1>1. OneUse /\ InvitersBelong => InvitationsHold
    BY DEF InvitationsHold
  <1> QED
    BY <1>1, Invariant, UseInvariant, OneUseInit, OneUseStep, BelongInit, BelongStep, PTL DEF Spec

(* As long as no request is overtaken there is one administrator or setup  *)
(* is offered, never both, and while setup is offered there are accounts   *)
(* only if somebody registered without an invitation (setup.py:67, the     *)
(* claim; identity.py:323 register_password_account, 993 can_delete_admin; *)
(* api/security.py:799 delete_account).                                    *)
THEOREM AlwaysAdministered == Spec => []Administered
  BY Invariant, AdministeredInit, AdministeredStep, PTL DEF Spec

(* No step but an overtaken deletion takes an account's budget away: the   *)
(* owner of a budget with members may not close the account                *)
(* (api/security.py:800 delete_account).                                   *)
THEOREM NobodyLosesABudget == Spec => BudgetsStayUnlessOvertaken
  <1>1. ASSUME IInv, [Next]_vars, ~overtaken', NEW v \in Open, owner[v] # NoUser, account'[v] = "open"
        PROVE  owner'[v] # NoUser
    <2>0. v \in Users /\ v # NoUser
      BY HouseholdAssumption DEF Open
    <2>1. CASE owner'[v] \in {owner[v], v}
      BY <1>1, <2>0, <2>1
    <2>2. ASSUME NEW r \in Requests, CloseCommits(r) PROVE owner'[v] # NoUser
      <3> DEFINE u == requests[r].user
      <3>1. MayClose(u) /\ u \in Users
        BY <1>1, <2>2, NotOvertaken DEF CloseCommits, IInv, Open
      <3>2. v # u
        BY <1>1, <2>2, <3>1 DEF CloseCommits, IInv, TypeOK
      <3>3. owner[v] # u
        BY <2>0, <3>1, <3>2, <1>1 DEF MayClose, Members, IInv, OneLevel
      <3> QED BY <1>1, <2>0, <2>2, <3>2, <3>3 DEF CloseCommits, WithoutOwner
    <2>3. ASSUME NEW r \in Requests, SetUpCommits(r) \/ RegisterCommits(r) \/ AcceptCommits(r)
          PROVE  owner'[v] = owner[v]
      <3>1. New(r) # v
        BY <1>1, <2>3, Created DEF SetUpCommits, RegisterCommits, AcceptCommits, Asked, Open
      <3> QED BY <1>1, <2>0, <2>3, <3>1 DEF SetUpCommits, RegisterCommits, AcceptCommits, IInv, TypeOK
    <2>4. ASSUME NEW r \in Requests, LeaveCommits(r) \/ RemoveCommits(r) PROVE owner'[v] \in {owner[v], v}
      BY <2>0, <2>4, <1>1 DEF LeaveCommits, RemoveCommits, Departs, IInv, TypeOK
    <2>5. ASSUME NEW r \in Requests, InviteCommits(r) \/ RevokeCommits(r) PROVE owner' = owner
      BY <2>5 DEF InviteCommits, RevokeCommits
    <2>6. ASSUME NEW u \in Users, EnsureMembership(u) PROVE owner'[v] \in {owner[v], v}
      BY <2>0, <2>6, <1>1 DEF EnsureMembership, IInv, TypeOK
    <2>7. ASSUME NEW i \in Invites, Expire(i) PROVE owner' = owner
      BY <2>7 DEF Expire
    <2> QED
      BY <2>1, <2>2, <2>3, <2>4, <2>5, <2>6, <2>7, <1>1, Writes DEF Commits
  <1>2. IInv /\ [Next]_vars
          => [~overtaken' => \A u \in Open : owner[u] # NoUser /\ account'[u] = "open" => owner'[u] # NoUser]_vars
    BY <1>1
  <1> QED
    BY <1>2, Invariant, PTL DEF Spec, BudgetsStayUnlessOvertaken
=============================================================================
