---------------------------- MODULE MCPlaidItem ----------------------------
(* Small instances of PlaidItem. *)
EXTENDS PlaidItem, TLC

CONSTANTS pending, posted, coffee,  \* transactions
          small, large,             \* contents
          cli, tabOne, tabTwo,      \* syncers
          rent                      \* a stream group

(* posted replaces pending; coffee is on its own. *)
MCPendingOf == [t \in Txns |-> IF t = posted THEN pending ELSE NoTxn]
MCGroupOf == [t \in Txns |-> rent]

MCBound(change, fault, hooks, requests) ==
  [kind \in Kinds |-> CASE kind = "change"  -> change
                        [] kind = "fault"   -> fault
                        [] kind = "hook"    -> hooks
                        [] kind = "request" -> requests]

BoundTimer == MCBound(4, 1, 1, 0)
BoundTabs  == MCBound(2, 0, 1, 1)

(* What a transaction says is never looked into. *)
SymmetricContents == Permutations(Contents)
============================================================================
