---------------------------- MODULE LedgerReplica ----------------------------
(***************************************************************************)
(* What transaction synchronization promises: Budget's transactions table  *)
(* is, at every moment, an exact copy of the provider's ledger as it stood *)
(* at the stored cursor.  The provider publishes new versions whenever it  *)
(* likes; the copy jumps forward to some published version in one step.    *)
(***************************************************************************)
EXTENDS Naturals, Sequences

CONSTANTS
  Txns,      \* provider transaction identifiers
  Contents,  \* what a transaction may say (amount, date, merchant, ...)
  Absent     \* the transaction does not exist

VARIABLES
  ledger,    \* the versions the provider has published, oldest first
  cursor,    \* the version the copy is at
  rows       \* the copy

vars == <<ledger, cursor, rows>>

Views == [Txns -> Contents \cup {Absent}]

Init ==
  /\ ledger = << [t \in Txns |-> Absent] >>
  /\ cursor = 1
  /\ rows = [t \in Txns |-> Absent]

Publish ==
  /\ \E view \in Views : ledger' = Append(ledger, view)
  /\ UNCHANGED <<cursor, rows>>

CatchUp ==
  \E version \in cursor .. Len(ledger) :
    /\ cursor' = version
    /\ rows' = ledger[version]
    /\ UNCHANGED ledger

Next == Publish \/ CatchUp

Spec == Init /\ [][Next]_vars
==============================================================================
