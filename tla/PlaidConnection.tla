------------------------- MODULE PlaidConnection -------------------------
(* Bank connections as the provider and the installation know them        *)
(* (services/plaid.py:259-400, :574-604, the exchange and disconnect       *)
(* handlers and the synchronization timer's loop over the items).  A call  *)
(* to the provider takes effect at once, the installation's rows only when *)
(* the request commits; either can fail alone.  PlaidItem models what      *)
(* happens inside one connection.                                          *)
EXTENDS Naturals, FiniteSets

CONSTANTS
  Items,        \* logins at a bank, each completed at most once
  Bank,         \* [Items -> banks]
  Accounts,     \* names with the last digits of the number
  Browsers,     \* requests of the owner's browser
  Production    \* whether the server may be moved from the sandbox to production

VARIABLES
  environment,  \* of the server: "sandbox" or "production"
  live,         \* items the provider keeps: item -> its environment
  rows,         \* plaid_items that are committed: item -> its environment
  accounts,     \* rows of accounts: item -> those it was last seen to show
  institutions, \* banks with a row of their own; it outlives its connections
  request,      \* requests in flight: step, item, whether they found its bank's row
  orphaned,     \* items whose exchange was not undone although it failed
  stranded,     \* items removed at the provider whose row was not deleted
  overlapped,   \* items whose exchange began while another of their bank was open
  named         \* history: item -> accounts Link named and the bank showed ever since

connectionVars ==
  <<environment, live, rows, accounts, institutions, request, orphaned, stranded, overlapped, named>>

ConnectionInit ==
  /\ environment = "sandbox" /\ institutions = {}
  /\ live = [i \in {} |-> "sandbox"] /\ rows = [i \in {} |-> "sandbox"]
  /\ request = [q \in {} |-> 0]
  /\ accounts = [i \in Items |-> {}] /\ named = [i \in Items |-> {}]
  /\ orphaned = {} /\ stranded = {} /\ overlapped = {}

Begun(q, step, i) ==
  [r \in DOMAIN request \cup {q} |->
     IF r = q THEN [step |-> step, item |-> i, known |-> Bank[i] \in institutions]
     ELSE request[r]]
Without(f, x) == [y \in DOMAIN f \ {x} |-> f[y]]
Closed(q) == Without(request, q)
At(q, step) == q \in DOMAIN request /\ request[q].step = step
Exchanging == {request[q].item : q \in {r \in DOMAIN request : request[r].step # "removed"}}

-----------------------------------------------------------------------------
(* exchange_and_import.                                                    *)

(* _reject_duplicate_item: an account that Link named is one of a           *)
(* connection of this bank and environment, by name and last digits.  Link *)
(* names as many of the accounts as it likes: none, for instance, when it  *)
(* leaves out the bank, and those without a name do not count. *)
Duplicate(i, told) ==
  \E j \in DOMAIN rows : Bank[j] = Bank[i] /\ rows[j] = environment /\ told \cap accounts[j] # {}

Exchange(q, i, told) ==
  /\ q \notin DOMAIN request /\ i \notin DOMAIN live \cup DOMAIN rows \cup orphaned \cup stranded
  /\ ~Duplicate(i, told)
  /\ live' = [j \in DOMAIN live \cup {i} |-> IF j = i THEN environment ELSE live[j]]
  /\ request' = Begun(q, "exchanged", i)
  /\ overlapped' = overlapped \cup
       {j \in {i} \cup Exchanging : \E k \in Exchanging : Bank[k] = Bank[i] /\ Bank[j] = Bank[i]}
  /\ named' = [named EXCEPT ![i] = told]
  /\ UNCHANGED <<environment, rows, accounts, institutions, orphaned, stranded>>

(* Accounts, bank and item are read and flushed.  A bank that had no row   *)
(* gets one: a second insertion waits for the first and is refused if that *)
(* commits. *)
Import(q) ==
  /\ At(q, "exchanged")
  /\ LET bank == Bank[request[q].item]
     IN  request[q].known \/
           /\ bank \notin institutions
           /\ \A r \in DOMAIN request :
                At(r, "imported") /\ ~request[r].known => Bank[request[r].item] # bank
  /\ request' = [request EXCEPT ![q].step = "imported"]
  /\ UNCHANGED <<environment, live, institutions, rows, accounts, orphaned, stranded, overlapped, named>>

(* Mutant: the item of an exchange that failed is left at the provider. *)
ImportGivesUp(q, removed) ==
  /\ At(q, "exchanged")
  /\ orphaned' = IF removed THEN orphaned ELSE orphaned \cup {request[q].item}
  /\ request' = Closed(q)
  /\ UNCHANGED <<environment, live, rows, accounts, institutions, stranded, overlapped, named>>

(* Whatever fails before the function returns: the new item is removed at  *)
(* the provider, unless the provider does not answer or the process dies.  *)
ImportFails(q, removed) ==
  /\ At(q, "exchanged")
  /\ LET i == request[q].item
     IN  /\ live' = IF removed THEN Without(live, i) ELSE live
         /\ orphaned' = IF removed THEN orphaned ELSE orphaned \cup {i}
  /\ request' = Closed(q)
  /\ UNCHANGED <<environment, rows, accounts, institutions, stranded, overlapped, named>>

(* The accounts the bank showed, whatever it showed before. *)
Stored(i, shown) ==
  /\ accounts' = [accounts EXCEPT ![i] = shown]
  /\ named' = [named EXCEPT ![i] = @ \cap shown]

(* The handler's audit entry and commit come after the handler of failures. *)
CommitExchange(q, shown) ==
  /\ At(q, "imported")
  /\ Stored(request[q].item, shown)
  /\ rows' = [i \in DOMAIN rows \cup {request[q].item} |->
                IF i = request[q].item THEN environment ELSE rows[i]]
  /\ institutions' = institutions \cup {Bank[request[q].item]}
  /\ request' = Closed(q)
  /\ UNCHANGED <<environment, live, orphaned, stranded, overlapped>>

CommitExchangeFails(q) ==
  /\ At(q, "imported")
  /\ orphaned' = orphaned \cup {request[q].item}
  /\ request' = Closed(q)
  /\ UNCHANGED <<environment, live, rows, accounts, institutions, stranded, overlapped, named>>

(* refresh_connection: the owner has chosen other accounts, or the bank    *)
(* has renamed some; a synchronization stores new and renamed ones too     *)
(* (plaid_transactions.py:205-258). *)
Refresh(i, shown) ==
  /\ i \in DOMAIN rows /\ rows[i] = environment
  /\ Stored(i, shown)
  /\ UNCHANGED <<environment, live, rows, institutions, request, orphaned, stranded, overlapped>>

-----------------------------------------------------------------------------
(* disconnect.                                                             *)

(* The accounts go with their item. *)
Deleted(i) == rows' = Without(rows, i) /\ accounts' = [accounts EXCEPT ![i] = {}]

(* The provider removes the item, or refuses one it no longer has; the     *)
(* row is left then. *)
Disconnect(q, i) ==
  /\ q \notin DOMAIN request /\ i \in DOMAIN rows /\ rows[i] = environment
  /\ i \in DOMAIN live
  /\ live' = Without(live, i)
  /\ request' = Begun(q, "removed", i)
  /\ UNCHANGED <<environment, rows, accounts, institutions, orphaned, stranded, overlapped, named>>

CommitDisconnect(q) ==
  /\ At(q, "removed")
  /\ Deleted(request[q].item)
  /\ request' = Closed(q)
  /\ UNCHANGED <<environment, live, institutions, orphaned, stranded, overlapped, named>>

CommitDisconnectFails(q) ==
  /\ At(q, "removed")
  /\ stranded' = stranded \cup {request[q].item}
  /\ request' = Closed(q)
  /\ UNCHANGED <<environment, live, rows, accounts, institutions, orphaned, overlapped, named>>

(* The server is moved to production: a sandbox row is deleted without a   *)
(* word to the provider, any other row of another environment stays. *)
Promote ==
  /\ Production /\ environment = "sandbox" /\ request = [q \in {} |-> 0]
  /\ environment' = "production"
  /\ UNCHANGED <<live, rows, accounts, institutions, request, orphaned, stranded, overlapped, named>>

ForgetSandbox(i) ==
  /\ i \in DOMAIN rows /\ rows[i] = "sandbox" /\ environment = "production"
  /\ Deleted(i)
  /\ UNCHANGED <<environment, live, institutions, request, orphaned, stranded, overlapped, named>>

ConnectionNext ==
  \/ Promote
  \/ \E q \in Browsers, i \in Items :
       Disconnect(q, i) \/ \E told \in SUBSET Accounts : Exchange(q, i, told)
  \/ \E q \in Browsers, removed \in BOOLEAN : ImportFails(q, removed)
  \/ \E q \in Browsers, shown \in SUBSET Accounts : CommitExchange(q, shown)
  \/ \E q \in Browsers : Import(q) \/ CommitExchangeFails(q) \/ CommitDisconnect(q) \/ CommitDisconnectFails(q)
  \/ \E i \in Items : ForgetSandbox(i) \/ \E shown \in SUBSET Accounts : Refresh(i, shown)

ConnectionSpec == ConnectionInit /\ [][ConnectionNext]_connectionVars

-----------------------------------------------------------------------------
(* Between requests the installation has a row for exactly the items the   *)
(* provider keeps.  The exceptions are an exchange whose commit failed or  *)
(* whose undoing the provider did not answer, a removal whose commit       *)
(* failed, and sandbox items of a server that is in production             *)
(* (plaid.py:321-400, :574-604).                                           *)
ConnectionsOwned ==
  LET busy == {request[q].item : q \in DOMAIN request}
  IN  \A i \in Items \ busy :
        /\ i \in DOMAIN live =>
             \/ i \in DOMAIN rows /\ rows[i] = live[i]
             \/ i \in orphaned
             \/ live[i] = "sandbox" /\ environment = "production"
        /\ i \in DOMAIN rows => i \in DOMAIN live \cup stranded

(* What Link names is connected once: two connections of a bank in one     *)
(* environment hold the same account only by exchanges that were open at   *)
(* the same time, or if one of them did not name it in Link or did not     *)
(* show it all the time since (plaid.py:259-299, :450-508).                *)
NamedOnceUnlessOverlapped ==
  \A i, j \in DOMAIN rows :
    i # j /\ Bank[i] = Bank[j] /\ rows[i] = rows[j] /\ named[i] \cap named[j] # {} => {i, j} \subseteq overlapped

(* The provider and the installation agree on which banks are connected,   *)
(* and on an account that Link names once, but for the failures and        *)
(* overlaps the two parts name (plaid.py:259-400, :574-604).               *)
ConnectionsAgree == ConnectionsOwned /\ NamedOnceUnlessOverlapped
=============================================================================
