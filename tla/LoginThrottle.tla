------------------------- MODULE LoginThrottle -------------------------
(* The counters that slow down wrong passwords (services/auth.py:76-134,  *)
(* the login handler and the nightly pruning of their throttles).  A process-  *)
(* wide lock serializes the handler from its check to its commit, so a    *)
(* login is one step here.  Time is counted in units of a few minutes.    *)
EXTENDS Naturals, FiniteSets, FiniteSetsExt

CONSTANTS
  Identities,      \* user names and addresses of email that are tried
  Addresses,       \* clients they are tried from
  IdentityLimit,   \* 5
  AddressLimit,    \* 20
  Window, Block,   \* THROTTLE_WINDOW and THROTTLE_BLOCK, both 15 minutes
  Retention        \* maintenance_auth_retention_days

ThrottleAssumption ==
  /\ IdentityLimit \in Nat \ {0, 1} /\ AddressLimit \in Nat \ {0, 1}
  /\ Window \in Nat \ {0} /\ Block \in Nat /\ Block >= Window
  /\ Retention \in Nat /\ Retention >= Window
ASSUME ThrottleAssumption

Keys == Identities \cup Addresses
Limit(k) == IF k \in Identities THEN IdentityLimit ELSE AddressLimit

(* Instants are kept as ages, and an age only as far as the code looks. *)
VARIABLES
  throttles,      \* login_throttles: failed attempts, age of the window, block left, last write
  guesses    \* the wrong passwords by age (of an identity, since it was last let in)

throttleVars == <<throttles, guesses>>

Ages == 0..(Window - 1)
NoGuess == [t \in Ages |-> 0]
Least(a, b) == IF a < b THEN a ELSE b
Older(n) == IF n = 0 THEN 0 ELSE n - 1

ThrottleInit == throttles = [k \in {} |-> 0] /\ guesses = [k \in Keys |-> NoGuess]

Throttled(keys) == \E k \in keys \cap DOMAIN throttles : throttles[k].block > 0

(* Mutant: the attempt after the limit is the one that blocks. *)
FailedPastLimit(k) ==
  LET old == IF k \in DOMAIN throttles /\ throttles[k].window < Window
             THEN throttles[k] ELSE [failed |-> 0, window |-> 0, block |-> 0, written |-> 0]
      failed == old.failed + 1
  IN  [failed |-> failed, window |-> old.window, written |-> 0,
       block |-> IF failed > Limit(k) THEN Block ELSE old.block]

(* record_login_failure for one key: a row is created or starts a new      *)
(* window when its own has run out, counts one more and, at the limit, is  *)
(* blocked from now on.                                                    *)
Failed(k) ==
  LET old == IF k \in DOMAIN throttles /\ throttles[k].window < Window
             THEN throttles[k] ELSE [failed |-> 0, window |-> 0, block |-> 0, written |-> 0]
      failed == old.failed + 1
  IN  [failed |-> failed, window |-> old.window, written |-> 0,
       block |-> IF failed >= Limit(k) THEN Block ELSE old.block]

WrongPassword(i, a) ==
  /\ ~Throttled({i, a})
  /\ throttles' = [k \in DOMAIN throttles \cup {i, a} |-> IF k \in {i, a} THEN Failed(k) ELSE throttles[k]]
  /\ guesses' = [k \in Keys |-> IF k \in {i, a} THEN [guesses[k] EXCEPT ![0] = @ + 1]
                                ELSE guesses[k]]

(* The right password forgets the failures of the identity only. *)
RightPassword(i, a) ==
  /\ ~Throttled({i, a})
  /\ throttles' = [k \in DOMAIN throttles \ {i} |-> throttles[k]]
  /\ guesses' = [guesses EXCEPT ![i] = NoGuess]

(* run_maintenance. *)
PruneThrottles ==
  /\ throttles' = [k \in {j \in DOMAIN throttles : ~(throttles[j].written > Retention /\ throttles[j].block = 0)}
                 |-> throttles[k]]
  /\ UNCHANGED guesses

TimePasses ==
  /\ throttles' = [k \in DOMAIN throttles |->
                [failed |-> throttles[k].failed, window |-> Least(throttles[k].window + 1, Window),
                 block |-> Older(throttles[k].block),
                 written |-> Least(throttles[k].written + 1, Retention + 1)]]
  /\ guesses' = [k \in Keys |-> [t \in Ages |-> IF t = 0 THEN 0 ELSE guesses[k][t - 1]]]

ThrottleNext ==
  \/ \E i \in Identities, a \in Addresses : WrongPassword(i, a) \/ RightPassword(i, a)
  \/ PruneThrottles \/ TimePasses

----------------------------------------------------------------------------
(* Wherever windows begin and end and whatever is pruned, fewer than twice *)
(* its limit of wrong passwords are answered for one identity, or for one  *)
(* client, within any stretch as long as a window: the counting window is  *)
(* not a sliding one, so the limit itself is not such a bound              *)
(* (auth.py:103-125).                                                      *)
GuessesAreFew ==
  \A k \in Keys :
    SumFunctionOnSet(guesses[k], Ages) <= 2 * Limit(k) - 2
=============================================================================
