-------------------------------- MODULE SignIn --------------------------------
(* The two steps of a login together: passwords and codes.  What the first *)
(* one hands to the second is that a password was right, which SecondFactor *)
(* lets happen at any time; the tables of one are never read by the other. *)
EXTENDS LoginThrottle, SecondFactor

SignInSpec ==
  /\ ThrottleInit /\ [][ThrottleNext]_throttleVars
  /\ FactorSpec

signInVars == <<throttleVars, factorVars>>

(* Wrong passwords and wrong codes are bounded (auth.py:103, identity.py:690). *)
GuessesAreBounded == GuessesAreFew /\ AttemptsAreFew
===============================================================================
