----------------------------- MODULE MCHousehold -----------------------------
(* Small instances of Household. *)
EXTENDS Household, TLC

CONSTANTS alma, ben, cleo,       \* users
          first, second,         \* invitations
          tabOne, tabTwo         \* requests

Symmetry == Permutations(Users) \cup Permutations(Invites) \cup Permutations(Requests)
==============================================================================
