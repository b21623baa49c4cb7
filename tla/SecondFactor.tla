-------------------------- MODULE SecondFactor --------------------------
(* The second step of a login of one account (services/identity.py:512-    *)
(* 725, api/security.py:104-265): challenges, authenticator codes and      *)
(* recovery codes.  The handler that answers a challenge locks its row,    *)
(* reads the authenticator's row and commits later, other requests of the  *)
(* account in between; setting up, confirming and turning off are short    *)
(* requests in one step.  A code of the authenticator is its counter, and  *)
(* any counter may be the current one.                                     *)
EXTENDS Naturals, FiniteSets

CONSTANTS
  Requests,      \* answers to challenges in flight
  MaxCounter,    \* bound: steps of the authenticator's clock
  Recovery,      \* recovery codes of one confirmation
  Attempts,      \* 5
  MaxLogins,     \* bound: challenges
  MaxSetups      \* bound: setups and confirmations

FactorAssumption == MaxCounter \in Nat /\ Attempts \in Nat /\ MaxLogins \in Nat /\ MaxSetups \in Nat
ASSUME FactorAssumption

Counter(s, n) == <<"counter", s, n>>
RecoveryCode(g, r) == <<"recovery", g, r>>
Wrong == <<"wrong", 0, 0>>
Codes == {Counter(s, n) : s \in 1..MaxSetups, n \in 1..MaxCounter}
           \cup {RecoveryCode(g, r) : g \in 1..MaxSetups, r \in Recovery}

VARIABLES
  totp,         \* user_totp: is there, secret, enabled, last counter used, codes left
  setups,       \* secrets and sets of recovery codes handed out
  challenges,   \* two_factor_challenges by number: attempts, open
  logins,       \* passwords accepted
  answer,       \* the answers in flight: challenge, code, the row as it was read
  opened,       \* how often a code opened a session
  tried,        \* wrong codes answered for a challenge
  revived       \* codes that were made usable again by confirming once more

factorVars == <<totp, setups, challenges, logins, answer, opened, tried, revived>>

NoTotp == [there |-> FALSE, secret |-> 0, enabled |-> FALSE, last |-> 0, codes |-> {}]

FactorInit ==
  /\ totp = NoTotp /\ setups = 0 /\ logins = 0
  /\ challenges = [c \in {} |-> 0] /\ answer = [q \in {} |-> 0]
  /\ opened = [x \in Codes |-> 0]
  /\ tried = [c \in 1..MaxLogins |-> 0]
  /\ revived = {}

(* Mutant: the challenge is read without locking its row. *)
LockedNothing == {}

Locked == {answer[q].challenge : q \in DOMAIN answer}

(* The login handler once the password is right.  Deleting the earlier     *)
(* challenges waits for the answers that hold them.                        *)
PasswordAccepted ==
  /\ totp.enabled /\ logins < MaxLogins
  /\ Locked \cap DOMAIN challenges = {}
  /\ logins' = logins + 1
  /\ challenges' = [c \in {logins + 1} |-> [attempts |-> 0, open |-> TRUE]]
  /\ UNCHANGED <<totp, setups, answer, opened, tried, revived>>

ChallengeExpires(c) ==
  /\ c \in DOMAIN challenges /\ challenges[c].open /\ c \notin Locked
  /\ challenges' = [challenges EXCEPT ![c].open = FALSE]
  /\ UNCHANGED <<totp, setups, logins, answer, opened, tried, revived>>

-----------------------------------------------------------------------------
(* consume_two_factor_challenge.                                           *)

Acceptable(c) ==
  c \in DOMAIN challenges /\ challenges[c].open /\ challenges[c].attempts < Attempts

ReadChallenge(q, c, code) ==
  /\ q \notin DOMAIN answer /\ c \notin Locked /\ Acceptable(c)
  /\ answer' = [r \in DOMAIN answer \cup {q} |->
                  IF r = q THEN [challenge |-> c, code |-> code, row |-> totp] ELSE answer[r]]
  /\ UNCHANGED <<totp, setups, challenges, logins, opened, tried, revived>>

(* verify_second_factor against the row that was read: a counter of its    *)
(* secret is used up by a conditional update of the row as it is by now, a *)
(* recovery code is taken from the list that was read.                     *)
IsCounter(a) == a.row.enabled /\ a.code[1] = "counter" /\ a.code[2] = a.row.secret
CounterTaken(a) == IsCounter(a) /\ totp.enabled /\ totp.last < a.code[3]
RecoveryTaken(a) == a.row.enabled /\ a.code \in a.row.codes
Verified(a) == CounterTaken(a) \/ RecoveryTaken(a)

Used(a) == IF CounterTaken(a) THEN [totp EXCEPT !.last = a.code[3]]
           ELSE [totp EXCEPT !.codes = a.row.codes \ {a.code}]

Answered(q) == answer' = [r \in DOMAIN answer \ {q} |-> answer[r]]

CodeAccepted(q) ==
  /\ q \in DOMAIN answer
  /\ LET a == answer[q] IN
       /\ Verified(a)
       /\ totp.there   \* the update of a row that is gone fails, see AnswerUndone
       /\ totp' = Used(a)
       /\ challenges' = [challenges EXCEPT ![a.challenge].open = FALSE]
       /\ opened' = [opened EXCEPT ![a.code] = @ + 1]
  /\ Answered(q)
  /\ UNCHANGED <<setups, logins, tried, revived>>

(* The handler commits the count before it answers. *)
CountAttempt(c) == [attempts |-> challenges[c].attempts + 1,
                    open |-> challenges[c].attempts + 1 < Attempts]

CodeRefused(q) ==
  /\ q \in DOMAIN answer
  /\ LET a == answer[q] IN
       /\ ~Verified(a)
       /\ challenges' = [challenges EXCEPT ![a.challenge] = CountAttempt(a.challenge)]
       /\ tried' = [tried EXCEPT ![a.challenge] = @ + 1]
  /\ Answered(q)
  /\ UNCHANGED <<totp, setups, logins, opened, revived>>

(* The transaction is undone and the code's fate is not told. *)
AnswerUndone(q) ==
  /\ q \in DOMAIN answer
  /\ Answered(q)
  /\ UNCHANGED <<totp, setups, challenges, logins, opened, tried, revived>>

-----------------------------------------------------------------------------
(* begin_totp_setup: a new secret, not enabled yet. *)
BeginSetup ==
  /\ setups < MaxSetups
  /\ setups' = setups + 1
  /\ totp' = [there |-> TRUE, secret |-> setups + 1, enabled |-> FALSE, last |-> 0, codes |-> {}]
  /\ revived' = revived \cup {answer[q].code : q \in {r \in DOMAIN answer : IsCounter(answer[r])}}
  /\ UNCHANGED <<challenges, logins, answer, opened, tried>>

(* confirm_totp with the code of counter n, a second time too: the counter *)
(* of the confirming code becomes the last one used and the recovery codes *)
(* are new.                                                                *)
Confirm(n) ==
  /\ totp.there /\ (totp.enabled => setups < MaxSetups)
  /\ setups' = IF totp.enabled THEN setups + 1 ELSE setups
  /\ totp' = [totp EXCEPT !.enabled = TRUE, !.last = n,
                          !.codes = {RecoveryCode(setups', r) : r \in Recovery}]
  /\ revived' = revived \cup {Counter(totp.secret, m) : m \in (n + 1)..totp.last}
  /\ UNCHANGED <<challenges, logins, answer, opened, tried>>

(* disable_totp with a code that is good. *)
Disable(code) ==
  /\ totp.enabled
  /\ \/ code[1] = "counter" /\ code[2] = totp.secret /\ code[3] > totp.last
     \/ code \in totp.codes
  /\ totp' = NoTotp
  /\ UNCHANGED <<setups, challenges, logins, answer, opened, tried, revived>>

FactorNext ==
  \/ PasswordAccepted \/ BeginSetup
  \/ \E c \in 1..MaxLogins : ChallengeExpires(c)
  \/ \E q \in Requests, c \in 1..MaxLogins, code \in Codes \cup {Wrong} : ReadChallenge(q, c, code)
  \/ \E q \in Requests : CodeAccepted(q) \/ CodeRefused(q) \/ AnswerUndone(q)
  \/ \E n \in 1..MaxCounter : Confirm(n)
  \/ \E code \in Codes : Disable(code)

FactorSpec == FactorInit /\ [][FactorNext]_factorVars

-----------------------------------------------------------------------------
(* However answers, setups and removals overlap, a code opens at most one  *)
(* session, unless the authenticator is confirmed once more with an older  *)
(* counter than the code's, or set up anew while the counter is on its     *)
(* way; a recovery code is never an exception (identity.py:551-660).       *)
CodesOpenOnce == \A x \in Codes \ revived : opened[x] <= 1

(* A challenge is answered with at most the allowed number of wrong codes, *)
(* counted across requests that fail (identity.py:690-725).                *)
AttemptsAreFew == \A c \in 1..MaxLogins : tried[c] <= Attempts
=============================================================================
