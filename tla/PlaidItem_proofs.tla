--------------------------- MODULE PlaidItem_proofs ---------------------------
(***************************************************************************)
(* What PlaidItem's synchronization guarantees for any transactions, any   *)
(* number of concurrent synchronizations, webhooks and refreshes.          *)
(***************************************************************************)
EXTENDS PlaidItem, SequenceTheorems, TLAPS

(* The row lock belongs to the one transaction between locking read and end. *)
LockInv == \A p \in Syncers : tx[p].pc \in {"fetching", "complete"} <=> lock = p

(* A pagination aims at a version no older than the cursor and than any    *)
(* news handled so far: both stand still while the row is locked.          *)
TargetInv ==
  \A p \in Syncers :
    /\ tx[p].pc \in {"idle", "waiting"} => tx[p].target = 0
    /\ tx[p].pc = "complete" => tx[p].target # 0
    /\ tx[p].target # 0 => cursor <= tx[p].target /\ announced <= tx[p].target

Pcs == {"idle", "waiting", "fetching", "complete"}

IInv == TypeOK /\ LockInv /\ TargetInv

-----------------------------------------------------------------------------
LEMMA InitIInv == Init => IInv
  <1> SUFFICES ASSUME Init PROVE IInv
    OBVIOUS
  <1> USE ModelAssumption
  <1>1. NoRows \in Views
    BY DEF NoRows, Views, Values
  <1>2. ledger \in Seq(Views) /\ ledger # <<>> /\ Len(ledger) = 1
    BY <1>1 DEF Init
  <1>3. Healthy \in Health
    BY DEF Healthy, Health, Reasons
  <1>4. NoTx \in Transactions
    BY <1>1, <1>2 DEF NoTx, Transactions, NoPatch, Patches, Values, NoStreams, StreamStates
  <1>5. NoHook \in [code : HookCodes \cup {"none"}, seen : Health, version : 0 .. Len(ledger)]
    BY <1>2, <1>3 DEF NoHook
  <1>6. NoRefresh \in [open : BOOLEAN, seen : Health]
    BY <1>3 DEF NoRefresh
  <1>7. tx \in [Syncers -> Transactions]
    BY <1>4 DEF Init
  <1>8. streams \in [Groups -> StreamStates] /\ used \in [Kinds -> Nat]
    BY DEF Init, NoStreams, StreamStates
  <1>9. cursor \in 1 .. Len(ledger) /\ announced \in 1 .. Len(ledger)
    BY <1>2 DEF Init
  <1>a. requested \in BOOLEAN /\ fresh \in BOOLEAN /\ stale \in BOOLEAN /\ raced \in BOOLEAN
    BY Zenon DEF Init
  <1>b. retune \in [open : BOOLEAN, rows : Views, streams : [Groups -> StreamStates]]
    BY <1>1, <1>8 DEF Init, NoRetune
  <1>10. rows \in Views /\ health \in Health /\ lock \in Syncers \cup {NoOne}
    BY <1>1, <1>3 DEF Init
  <1>11. /\ hook \in [code : HookCodes \cup {"none"}, seen : Health, version : 0 .. Len(ledger)]
         /\ refresh \in [open : BOOLEAN, seen : Health]
    BY <1>5, <1>6 DEF Init
  <1>12. TypeOK
    BY <1>2, <1>7, <1>8, <1>9, <1>a, <1>b, <1>10, <1>11, Zenon DEF TypeOK
  <1>13. \A p \in Syncers : tx[p].pc = "idle" /\ tx[p].target = 0
    <2>1. NoTx.pc = "idle" /\ NoTx.target = 0
      BY DEF NoTx
    <2> QED
      BY <2>1 DEF Init
  <1>14. LockInv /\ TargetInv
    BY <1>13 DEF Init, LockInv, TargetInv
  <1> QED
    BY <1>12, <1>14 DEF IInv

-----------------------------------------------------------------------------
(* Publishing keeps every version and adds one. *)
LEMMA LedgerGrows ==
  ASSUME TypeOK, NEW t \in Txns, NEW value \in Values, ProviderChanges(t, value)
  PROVE  /\ ledger' \in Seq(Views) /\ ledger' # <<>>
         /\ Len(ledger) \in Nat /\ Len(ledger') = Len(ledger) + 1
         /\ \A v \in 1 .. Len(ledger) : ledger'[v] = ledger[v]
         /\ Len(ledger) >= 1 /\ Latest \in Views
         /\ ledger'[Len(ledger) + 1] =
              [u \in Txns |-> IF u = t THEN value
                              ELSE IF value # Absent /\ PendingOf[t] = u THEN Absent
                              ELSE Latest[u]]
  <1>1. ledger \in Seq(Views) /\ Len(ledger) \in Nat /\ Len(ledger) >= 1
    BY EmptySeq, LenProperties DEF TypeOK
  <1>2. Latest \in Views
    BY <1>1, ElementOfSeq DEF Latest
  <1> DEFINE view == [u \in Txns |-> IF u = t THEN value
                              ELSE IF value # Absent /\ PendingOf[t] = u THEN Absent
                              ELSE Latest[u]]
  <1>3. view \in Views
    BY <1>2 DEF Views, Values
  <1>4. ledger' = Append(ledger, view)
    BY DEF ProviderChanges
  <1> HIDE DEF view
  <1>5. /\ ledger' \in Seq(Views) /\ ledger' # <<>>
        /\ Len(ledger') = Len(ledger) + 1
        /\ \A v \in 1 .. Len(ledger) : ledger'[v] = ledger[v]
        /\ ledger'[Len(ledger) + 1] = view
    BY <1>1, <1>3, <1>4, AppendProperties
  <1> QED
    BY <1>1, <1>2, <1>5 DEF view

LEMMA LedgerFacts ==
  ASSUME TypeOK
  PROVE  /\ ledger \in Seq(Views) /\ Len(ledger) \in Nat /\ Len(ledger) >= 1
         /\ \A v \in 1 .. Len(ledger) : ledger[v] \in Views
  BY EmptySeq, LenProperties, ElementOfSeq DEF TypeOK

LEMMA TxFacts == TypeOK => tx \in [Syncers -> Transactions]
  BY DEF TypeOK

LEMMA SmallTypes ==
  /\ NoRows \in Views /\ NoPatch \in Patches /\ NoStreams \in [Groups -> StreamStates]
  /\ Healthy \in Health
  /\ \A code \in ErrorHooks : Broken(code) \in Health
  /\ \A n \in Nat : NoTx \in [pc : Pcs, rows : Views, streams : [Groups -> StreamStates],
                              target : 0 .. n, got : Patches, attempt : Nat]
  BY ModelAssumption DEF NoRows, Views, Values, NoPatch, Patches, NoStreams, StreamStates,
    Healthy, Health, Reasons, Broken, ErrorHooks, NoTx, Pcs

LEMMA FlushType ==
  ASSUME health \in Health, NEW seen \in Health, NEW new \in Health
  PROVE  Flush(seen, new) \in Health
  BY DEF Flush, Health

LEMMA HookEffectType ==
  ASSUME NEW code \in HookCodes \cup {"none"}, NEW seen \in Health
  PROVE  HookEffect(code, seen) \in Health
  BY DEF HookEffect, Broken, Healthy, Health, Reasons, HookCodes, ErrorHooks, WarningHooks,
    RepairCodes

LEMMA RefreshEffectType ==
  ASSUME NEW seen \in Health, NEW effect \in RefreshEffects(seen)
  PROVE  effect.health \in Health /\ effect.requests \in BOOLEAN
  <1>1. CASE \E h \in {Healthy, seen}, r \in BOOLEAN : effect = [health |-> h, requests |-> r]
    BY <1>1, SmallTypes
  <1>2. CASE \E code \in RepairCodes \cup OtherCodes :
               effect = [health |-> IF code = "ITEM_LOGIN_REQUIRED" THEN Broken(code)
                                    ELSE [seen EXCEPT !.status = "error"],
                         requests |-> FALSE]
    <2>1. Broken("ITEM_LOGIN_REQUIRED") \in Health /\ [seen EXCEPT !.status = "error"] \in Health
      BY DEF Broken, Health, Reasons, ErrorHooks, RepairCodes
    <2> QED
      BY <1>2, <2>1
  <1>3. CASE \E code \in RepairCodes : effect = [health |-> Broken(code), requests |-> FALSE]
    BY <1>3, SmallTypes DEF ErrorHooks
  <1> QED
    BY <1>1, <1>2, <1>3, Zenon DEF RefreshEffects

-----------------------------------------------------------------------------
(* What the building blocks of the actions do to the types.                *)
LEMMA SpendType ==
  ASSUME TypeOK, NEW kind \in Kinds, Spend(kind)
  PROVE  used' \in [Kinds -> Nat]
  BY DEF TypeOK, Spend

LEMMA NoTxType == TypeOK => NoTx \in Transactions
  BY LedgerFacts, SmallTypes DEF Transactions, NoTx

LEMMA EndType ==
  ASSUME TypeOK, NEW p \in Syncers, End(p)
  PROVE  tx' \in [Syncers -> Transactions] /\ lock' \in Syncers \cup {NoOne}
  BY NoTxType DEF TypeOK, End

LEMMA PatchedType ==
  ASSUME TypeOK, NEW p \in Syncers
  PROVE  Patched(p) \in Views
  BY DEF TypeOK, Patched, Written, Upserted, Views, Values

LEMMA RebuiltType ==
  ASSUME NEW view, NEW choices
  PROVE  Rebuilt(view, choices) \in [Groups -> StreamStates]
  BY DEF Rebuilt, StreamStates

LEMMA RepairedType == TypeOK => Repaired \in Health
  BY DEF TypeOK, Repaired, Healthy, Health, Reasons

(* Every action keeps the type invariant.                                  *)
LEMMA TypeStep == TypeOK /\ LockInv /\ TargetInv /\ [Next]_vars => TypeOK'
  <1> SUFFICES ASSUME TypeOK, LockInv, TargetInv, [Next]_vars PROVE TypeOK'
    OBVIOUS
  <1> USE LedgerFacts
  <1> DEFINE HookType == [code : HookCodes \cup {"none"}, seen : Health, version : 0 .. Len(ledger)]
  <1>1. ASSUME NEW t \in Txns, NEW value \in Values, ProviderChanges(t, value) PROVE TypeOK'
    <2>1. tx' \in [Syncers -> Transactions'] /\ 0 .. Len(ledger) \subseteq 0 .. Len(ledger')
      BY <1>1, LedgerGrows DEF TypeOK, Transactions, ProviderChanges
    <2>2. cursor' \in 1 .. Len(ledger') /\ announced' \in 1 .. Len(ledger')
      BY <1>1, LedgerGrows DEF TypeOK, ProviderChanges, itemVars, historyVars
    <2>3. hook' \in [code : HookCodes \cup {"none"}, seen : Health, version : 0 .. Len(ledger')]
      BY <1>1, <2>1 DEF TypeOK, ProviderChanges
    <2>4. used' \in [Kinds -> Nat]
      BY <1>1, SpendType DEF ProviderChanges, Kinds
    <2>5. /\ rows' = rows /\ streams' = streams /\ requested' = requested /\ fresh' = fresh
          /\ health' = health /\ lock' = lock /\ refresh' = refresh /\ retune' = retune
          /\ stale' = stale /\ raced' = raced
      BY <1>1, Zenon DEF ProviderChanges, itemVars, historyVars
    <2>6. ledger' \in Seq(Views) /\ ledger' # <<>>
      BY <1>1, LedgerGrows
    <2> QED
      BY <2>1, <2>2, <2>3, <2>4, <2>5, <2>6, Zenon DEF TypeOK
  <1>2. ASSUME NEW p \in Syncers, Begin(p) PROVE TypeOK'
    <2>1. tx' \in [Syncers -> Transactions]
      BY <1>2, SmallTypes DEF TypeOK, Begin, Transactions, NoTx
    <2> QED
      BY <1>2, <2>1, Zenon DEF TypeOK, Begin, itemVars, historyVars, Transactions
  <1>3. ASSUME NEW p \in Syncers, Acquire(p) PROVE TypeOK'
    <2>1. tx' \in [Syncers -> Transactions] /\ lock' \in Syncers \cup {NoOne}
      BY <1>3 DEF TypeOK, Acquire, Transactions
    <2> QED
      BY <1>3, <2>1, Zenon DEF TypeOK, Acquire, itemVars, historyVars, Transactions
  <1>4. ASSUME NEW p \in Syncers, Fetch(p) PROVE TypeOK'
    <2> DEFINE at == IF tx[p].target = 0 THEN Len(ledger) ELSE tx[p].target
               got(page) == [t \in Txns |-> IF t \in page THEN ledger[at][t] ELSE tx[p].got[t]]
    <2>1. PICK page \in SUBSET Txns, pc \in {"fetching", "complete"} :
            /\ at = Len(ledger)
            /\ tx' = [tx EXCEPT ![p].target = at, ![p].pc = pc, ![p].got = got(page)]
      <3>1. PICK page \in SUBSET {t \in Txns : ledger[cursor][t] # ledger[at][t] /\ tx[p].got[t] = Unsent},
                 pc \in {"fetching", "complete"} :
              /\ at = Len(ledger)
              /\ tx' = [tx EXCEPT ![p].target = at, ![p].pc = pc, ![p].got = got(page)]
        BY <1>4, Zenon DEF Fetch
      <3> QED
        BY <3>1, Zenon
    <2>2. got(page) \in Patches
      BY <2>1 DEF TypeOK, Transactions, Patches, Views
    <2>3. at \in 0 .. Len(ledger)
      BY <2>1
    <2>4. tx' \in [Syncers -> Transactions]
      <3> DEFINE after == [tx[p] EXCEPT !.target = at, !.pc = pc, !.got = got(page)]
      <3>1. tx \in [Syncers -> Transactions]
        BY DEF TypeOK
      <3>2. after \in Transactions
        <4> HIDE DEF at, got
        <4> QED BY <2>2, <2>3, <3>1 DEF Transactions
      <3>3. tx' = [tx EXCEPT ![p] = after]
        <4> HIDE DEF at, got
        <4> QED BY <2>1, <3>1
      <3> HIDE DEF after
      <3> QED BY <3>1, <3>2, <3>3
    <2> QED
      BY <1>4, <2>4, Zenon DEF TypeOK, Fetch, itemVars, historyVars, Transactions
  <1>5. ASSUME NEW p \in Syncers, Mutated(p) PROVE TypeOK'
    <2>1. tx' \in [Syncers -> Transactions] /\ lock' \in Syncers \cup {NoOne}
      <3>1. CASE End(p)
        BY <3>1, EndType
      <3>2. CASE /\ tx' = [tx EXCEPT ![p].target = 0, ![p].got = NoPatch, ![p].attempt = @ + 1]
                 /\ UNCHANGED lock
        <4> DEFINE next == [tx[p] EXCEPT !.target = 0, !.got = NoPatch,
                                         !.attempt = tx[p].attempt + 1]
        <4>1. next \in Transactions
          <5>1. tx[p] \in Transactions /\ 0 \in 0 .. Len(ledger) /\ NoPatch \in Patches
            BY SmallTypes, TxFacts
          <5>2. tx[p].attempt + 1 \in Nat
            BY <5>1 DEF Transactions
          <5> QED
            BY <5>1, <5>2 DEF Transactions
        <4>2. tx' = [tx EXCEPT ![p] = next]
          BY <3>2, TxFacts
        <4>3. lock' \in Syncers \cup {NoOne}
          BY <3>2 DEF TypeOK
        <4> QED
          BY <4>1, <4>2, <4>3, TxFacts
      <3> QED
        BY <1>5, <3>1, <3>2 DEF Mutated
    <2> QED
      BY <1>5, <2>1, Zenon DEF TypeOK, Mutated, itemVars, historyVars, Transactions
  <1>6. ASSUME NEW p \in Syncers, NEW code \in RepairCodes \cup OtherCodes,
               ProviderRefuses(p, code) PROVE TypeOK'
    <2>1. health' \in Health
      BY <1>6, SmallTypes DEF TypeOK, ProviderRefuses, ErrorHooks
    <2>2. used' \in [Kinds -> Nat]
      BY <1>6, SpendType DEF ProviderRefuses, Kinds
    <2>3. tx' \in [Syncers -> Transactions] /\ lock' \in Syncers \cup {NoOne}
      BY <1>6, EndType DEF ProviderRefuses
    <2> QED
      BY <1>6, <2>1, <2>2, <2>3, Zenon DEF TypeOK, ProviderRefuses, historyVars, Transactions
  <1>7. ASSUME NEW p \in Syncers, Abandon(p) PROVE TypeOK'
    <2>1. used' \in [Kinds -> Nat]
      BY <1>7, SpendType DEF Abandon, Kinds
    <2>2. tx' \in [Syncers -> Transactions] /\ lock' \in Syncers \cup {NoOne}
      BY <1>7, EndType DEF Abandon
    <2> QED
      BY <1>7, <2>1, <2>2, Zenon DEF TypeOK, Abandon, itemVars, historyVars, Transactions
  <1>8. ASSUME NEW p \in Syncers, Apply(p) PROVE TypeOK'
    <2>1. rows' \in Views /\ streams' \in [Groups -> StreamStates] /\ health' \in Health
      BY <1>8, PatchedType, RebuiltType, RepairedType DEF Apply
    <2>2. cursor' \in 1 .. Len(ledger)
      BY <1>8 DEF TypeOK, Apply, NextCursor, TargetInv, Transactions
    <2>3. tx' \in [Syncers -> Transactions] /\ lock' \in Syncers \cup {NoOne}
      BY <1>8, EndType DEF Apply
    <2>4. requested' \in BOOLEAN /\ fresh' \in BOOLEAN /\ stale' \in BOOLEAN
      BY <1>8, Zenon DEF TypeOK, Apply, ClearRequest
    <2> QED
      BY <1>8, <2>1, <2>2, <2>3, <2>4, Zenon DEF TypeOK, Apply, Transactions
  <1>9. ASSUME NEW p \in Syncers, ApplyFails(p) PROVE TypeOK'
    <2>1. tx' \in [Syncers -> Transactions] /\ lock' \in Syncers \cup {NoOne}
      BY <1>9, EndType DEF ApplyFails
    <2> QED
      BY <1>9, <2>1, Zenon DEF TypeOK, ApplyFails, itemVars, historyVars, Transactions
  <1>10. ASSUME NEW code \in HookCodes, HookArrives(code) PROVE TypeOK'
    <2>1. hook' \in HookType
      BY <1>10 DEF TypeOK, HookArrives
    <2>2. used' \in [Kinds -> Nat]
      BY <1>10, SpendType DEF HookArrives, Kinds
    <2> QED
      BY <1>10, <2>1, <2>2, Zenon DEF TypeOK, HookArrives, itemVars, historyVars, Transactions
  <1>11. NoHook \in HookType
    BY SmallTypes DEF NoHook
  <1>12. ASSUME HookCommits PROVE TypeOK'
    <2>1. health' \in Health
      <3>1. HookEffect(hook.code, hook.seen) \in Health /\ hook.seen \in Health
        BY HookEffectType DEF TypeOK
      <3> QED
        BY <1>12, <3>1, FlushType DEF TypeOK, HookCommits
    <2>2. announced' \in 1 .. Len(ledger)
      BY <1>12 DEF TypeOK, HookCommits
    <2>3. requested' \in BOOLEAN /\ raced' \in BOOLEAN
      BY <1>12, Zenon DEF TypeOK, HookCommits
    <2> QED
      BY <1>11, <1>12, <2>1, <2>2, <2>3, Zenon DEF TypeOK, HookCommits, Transactions
  <1>13. ASSUME HookFails PROVE TypeOK'
    <2>1. used' \in [Kinds -> Nat]
      BY <1>13, SpendType DEF HookFails, Kinds
    <2> QED
      BY <1>11, <1>13, <2>1, Zenon DEF TypeOK, HookFails, itemVars, historyVars, Transactions
  <1>14. ASSUME RefreshBegins PROVE TypeOK'
    <2>1. used' \in [Kinds -> Nat]
      BY <1>14, SpendType DEF RefreshBegins, Kinds
    <2>2. refresh' \in [open : BOOLEAN, seen : Health]
      BY <1>14 DEF TypeOK, RefreshBegins
    <2> QED
      BY <1>14, <2>1, <2>2, Zenon DEF TypeOK, RefreshBegins, itemVars, historyVars, Transactions
  <1>15. ASSUME RefreshCommits PROVE TypeOK'
    <2>1. PICK effect \in RefreshEffects(refresh.seen) :
            /\ health' = Flush(refresh.seen, effect.health)
            /\ requested' = (requested \/ effect.requests)
      BY <1>15 DEF RefreshCommits
    <2>2. refresh.seen \in Health
      BY DEF TypeOK
    <2>3. health' \in Health
      BY <2>1, <2>2, RefreshEffectType, FlushType DEF TypeOK
    <2>4. requested' \in BOOLEAN /\ raced' \in BOOLEAN
      BY <1>15, <2>1, Zenon DEF TypeOK, RefreshCommits
    <2>5. refresh' \in [open : BOOLEAN, seen : Health]
      BY <1>15, SmallTypes DEF RefreshCommits, NoRefresh
    <2> QED
      BY <1>15, <2>3, <2>4, <2>5, Zenon DEF TypeOK, RefreshCommits, Transactions
  <1>16. ASSUME NEW g \in Groups, ChooseSubscription(g) PROVE TypeOK'
    <2>1. streams' \in [Groups -> StreamStates]
      BY <1>16 DEF TypeOK, ChooseSubscription, StreamStates
    <2> QED
      BY <1>16, <2>1, Zenon DEF TypeOK, ChooseSubscription, itemVars, historyVars, Transactions
  <1>17. ASSUME RetuneBegins PROVE TypeOK'
    <2>1. used' \in [Kinds -> Nat]
      BY <1>17, SpendType DEF RetuneBegins, Kinds
    <2>2. retune' \in [open : BOOLEAN, rows : Views, streams : [Groups -> StreamStates]]
      BY <1>17 DEF TypeOK, RetuneBegins
    <2> QED
      BY <1>17, <2>1, <2>2, Zenon DEF TypeOK, RetuneBegins, itemVars, historyVars, Transactions
  <1>18. ASSUME RetuneCommits PROVE TypeOK'
    <2>1. streams' \in [Groups -> StreamStates]
      BY <1>18, RebuiltType DEF RetuneCommits
    <2>2. retune' \in [open : BOOLEAN, rows : Views, streams : [Groups -> StreamStates]]
      BY <1>18, SmallTypes DEF RetuneCommits, NoRetune
    <2> QED
      BY <1>18, <2>1, <2>2, Zenon DEF TypeOK, RetuneCommits, itemVars, historyVars, Transactions
  <1>19. ASSUME AgeOut PROVE TypeOK'
    BY <1>19, Zenon DEF TypeOK, AgeOut, historyVars, Transactions
  <1>20. ASSUME UNCHANGED vars PROVE TypeOK'
    BY <1>20, Zenon DEF TypeOK, vars, itemVars, historyVars, Transactions
  <1> QED
    BY <1>1, <1>2, <1>3, <1>4, <1>5, <1>6, <1>7, <1>8, <1>9, <1>10, <1>12, <1>13, <1>14, <1>15,
       <1>16, <1>17, <1>18, <1>19, <1>20, Zenon DEF Next, Sync, Step, Hook, Refresh, Retune

-----------------------------------------------------------------------------
(* How the actions of a synchronization move its program counter and aim.  *)
LEMMA FetchEffect ==
  ASSUME TypeOK, NEW p \in Syncers, Fetch(p)
  PROVE  /\ tx[p].pc = "fetching"
         /\ tx'[p].pc \in {"fetching", "complete"} /\ tx'[p].target = Len(ledger)
         /\ \A q \in Syncers \ {p} : tx'[q] = tx[q]
  <1> DEFINE at == IF tx[p].target = 0 THEN Len(ledger) ELSE tx[p].target
  <1>1. tx[p].pc = "fetching" /\ at = Len(ledger)
    BY Zenon DEF Fetch
  <1>2. \E pc \in {"fetching", "complete"} : \E got :
          tx' = [tx EXCEPT ![p].target = at, ![p].pc = pc, ![p].got = got]
    BY Zenon DEF Fetch
  <1> HIDE DEF at
  <1> QED
    BY <1>1, <1>2, TxFacts DEF Transactions

LEMMA EndEffect ==
  ASSUME TypeOK, LockInv, NEW p \in Syncers, End(p)
  PROVE  /\ tx'[p].pc = "idle" /\ tx'[p].target = 0
         /\ \A q \in Syncers \ {p} : tx'[q] = tx[q]
         /\ LockInv'
  BY TxFacts, ModelAssumption DEF End, NoTx, LockInv

(* Every action keeps the lock with its holder. *)
LEMMA LockStep == IInv /\ [Next]_vars => LockInv'
  <1> SUFFICES ASSUME IInv, [Next]_vars PROVE LockInv'
    OBVIOUS
  <1> USE TxFacts DEF IInv
  <1>1. ASSUME UNCHANGED <<lock, tx>> PROVE LockInv'
    BY <1>1 DEF LockInv
  <1>2. ASSUME NEW p \in Syncers, Begin(p) PROVE LockInv'
    BY <1>2 DEF LockInv, Begin, NoTx, Transactions
  <1>3. ASSUME NEW p \in Syncers, Acquire(p) PROVE LockInv'
    BY <1>3, ModelAssumption DEF LockInv, Acquire, Transactions
  <1>4. ASSUME NEW p \in Syncers, Fetch(p) PROVE LockInv'
    <2>1. lock' = lock
      BY <1>4, Zenon DEF Fetch
    <2> QED
      BY <1>4, <2>1, FetchEffect DEF LockInv
  <1>5. ASSUME NEW p \in Syncers, Mutated(p) PROVE LockInv'
    <2>1. CASE End(p)
      BY <2>1, EndEffect
    <2>2. CASE /\ tx' = [tx EXCEPT ![p].target = 0, ![p].got = NoPatch, ![p].attempt = @ + 1]
               /\ UNCHANGED lock
      BY <2>2 DEF LockInv, Transactions
    <2> QED
      BY <1>5, <2>1, <2>2 DEF Mutated
  <1>6. ASSUME NEW p \in Syncers, End(p) PROVE LockInv'
    BY <1>6, EndEffect
  <1>7. ASSUME NEW p \in Syncers, Sync(p) PROVE LockInv'
    BY <1>2, <1>3, <1>4, <1>5, <1>6, <1>7, Zenon
      DEF Sync, Step, Apply, ApplyFails, ProviderRefuses, Abandon
  <1>8. ASSUME [Next]_vars, \A p \in Syncers : ~Sync(p) PROVE UNCHANGED <<lock, tx>>
    BY <1>8, Zenon DEF Next, vars, ProviderChanges, Hook, HookArrives, HookCommits, HookFails,
      Refresh, RefreshBegins, RefreshCommits, Retune, RetuneBegins, RetuneCommits,
      ChooseSubscription, AgeOut
  <1> QED
    BY <1>1, <1>7, <1>8, Zenon

(* A transaction that aims at a version holds the row lock. *)
LEMMA AimHoldsLock ==
  ASSUME TypeOK, LockInv, TargetInv, NEW p \in Syncers, tx[p].target # 0
  PROVE  lock = p
  BY TxFacts DEF LockInv, TargetInv, Transactions

(* Every action keeps the aim ahead of the cursor and of the handled news. *)
LEMMA TargetStep == IInv /\ [Next]_vars => TargetInv'
  <1> SUFFICES ASSUME IInv, [Next]_vars PROVE TargetInv'
    OBVIOUS
  <1> USE TxFacts, LedgerFacts DEF IInv
  <1>1. ASSUME UNCHANGED <<cursor, announced, tx>> PROVE TargetInv'
    BY <1>1 DEF TargetInv
  <1>2. ASSUME NEW p \in Syncers, Begin(p) PROVE TargetInv'
    BY <1>2 DEF TargetInv, Begin, NoTx, itemVars, historyVars
  <1>3. ASSUME NEW p \in Syncers, Acquire(p) PROVE TargetInv'
    BY <1>3 DEF TargetInv, Acquire, itemVars, historyVars, Transactions
  <1>4. ASSUME NEW p \in Syncers, Fetch(p) PROVE TargetInv'
    <2>1. cursor' = cursor /\ announced' = announced
      BY <1>4, Zenon DEF Fetch, itemVars, historyVars
    <2>2. cursor <= Len(ledger) /\ announced <= Len(ledger)
      BY DEF TypeOK
    <2> QED
      BY <1>4, <2>1, <2>2, FetchEffect DEF TargetInv
  <1>5. ASSUME NEW p \in Syncers, End(p), UNCHANGED <<cursor, announced>> PROVE TargetInv'
    BY <1>5, EndEffect DEF TargetInv
  <1>6. ASSUME NEW p \in Syncers, Mutated(p) PROVE TargetInv'
    <2>1. UNCHANGED <<cursor, announced>>
      BY <1>6, Zenon DEF Mutated, itemVars, historyVars
    <2>2. CASE tx' = [tx EXCEPT ![p].target = 0, ![p].got = NoPatch, ![p].attempt = @ + 1]
      BY <1>6, <2>1, <2>2 DEF TargetInv, Mutated, Transactions
    <2> QED
      BY <1>5, <1>6, <2>1, <2>2 DEF Mutated
  <1>7. ASSUME NEW p \in Syncers, Apply(p) PROVE TargetInv'
    <2>1. \A q \in Syncers \ {p} : tx[q].target = 0
      BY <1>7, AimHoldsLock DEF Apply, TargetInv
    <2> QED
      BY <1>7, <2>1, EndEffect DEF TargetInv, Apply
  <1>8. ASSUME NEW p \in Syncers, Sync(p) PROVE TargetInv'
    BY <1>2, <1>3, <1>4, <1>5, <1>6, <1>7, <1>8, Zenon
      DEF Sync, Step, ApplyFails, ProviderRefuses, Abandon, itemVars, historyVars
  <1>9. ASSUME HookCommits PROVE TargetInv'
    <2>1. \A p \in Syncers : tx[p].target = 0
      BY <1>9, AimHoldsLock, ModelAssumption DEF HookCommits, Writable
    <2> QED
      BY <1>9, <2>1 DEF TargetInv, HookCommits
  <1>10. ASSUME [Next]_vars, ~HookCommits, \A p \in Syncers : ~Sync(p)
         PROVE UNCHANGED <<cursor, announced, tx>>
    BY <1>10, Zenon DEF Next, vars, ProviderChanges, Hook, HookArrives, HookFails,
      Refresh, RefreshBegins, RefreshCommits, Retune, RetuneBegins, RetuneCommits,
      ChooseSubscription, AgeOut, itemVars, historyVars
  <1> QED
    BY <1>1, <1>8, <1>9, <1>10, Zenon

LEMMA Inductive == Spec => []IInv
  <1>1. IInv /\ [Next]_vars => IInv'
    BY TypeStep, LockStep, TargetStep DEF IInv
  <1> QED
    BY InitIInv, <1>1, PTL DEF Spec

-----------------------------------------------------------------------------
(* The state of the item, of the requests and of the timer's process stays *)
(* well formed: cursor and news are published versions, flags are values   *)
(* the handlers write (models/entities.py PlaidItem).                      *)
THEOREM TypeCorrect == Spec => []TypeOK
  BY Inductive, PTL DEF IInv

(* For any number of tabs, webhooks and refreshes: a webhook's news that   *)
(* no applied synchronization covers leaves the item marked as             *)
(* sync-needed, because the handler's UPDATE waits for the row lock and so *)
(* cannot slip between the last page and the reset of sync_requested_at.   *)
THEOREM NewsKept == Spec => []NewsIsKept
  <1>1. Init => NewsIsKept
    BY DEF Init, NewsIsKept
  <1>2. IInv /\ NewsIsKept /\ [Next]_vars => NewsIsKept'
    <2> SUFFICES ASSUME IInv, NewsIsKept, [Next]_vars PROVE NewsIsKept'
      OBVIOUS
    <2> USE DEF IInv
    <2>1. ASSUME NEW p \in Syncers, Apply(p) PROVE NewsIsKept'
      <3>1. announced <= tx[p].target /\ announced \in Nat /\ tx[p].target \in Nat
        BY <2>1, TxFacts, LedgerFacts DEF Apply, TargetInv, TypeOK, Transactions
      <3> QED
        BY <2>1, <3>1 DEF Apply, NextCursor, NewsIsKept
    <2>2. ASSUME HookCommits PROVE NewsIsKept'
      BY <2>2 DEF HookCommits, NewsIsKept, RequestHooks
    <2>3. ASSUME RefreshCommits PROVE NewsIsKept'
      BY <2>3, Zenon DEF RefreshCommits, NewsIsKept
    <2>4. ASSUME ~HookCommits, ~RefreshCommits, \A p \in Syncers : ~Apply(p)
          PROVE UNCHANGED <<cursor, announced, requested>>
      BY <2>4, Zenon DEF Next, vars, ProviderChanges, Sync, Step, Begin, Acquire, Fetch, Mutated,
        ApplyFails, ProviderRefuses, Abandon, Hook, HookArrives, HookFails, Refresh,
        RefreshBegins, Retune, RetuneBegins, RetuneCommits, ChooseSubscription, AgeOut, itemVars, historyVars
    <2> QED
      BY <2>1, <2>2, <2>3, <2>4 DEF NewsIsKept
  <1> QED
    BY Inductive, <1>1, <1>2, PTL DEF Spec

-----------------------------------------------------------------------------
(* A pagination has collected nothing but what differs between the cursor  *)
(* and the version it aims at, and everything of it when it is complete.   *)
Difference(t, at) == ledger[cursor][t] # ledger[at][t]
GotInv ==
  \A p \in Syncers :
    /\ tx[p].target = 0 => tx[p].got = NoPatch
    /\ tx[p].target # 0 =>
         \A t \in Txns : tx[p].got[t] # Unsent =>
           tx[p].got[t] = ledger[tx[p].target][t]
    /\ tx[p].pc = "complete" =>
         \A t \in Txns : Difference(t, tx[p].target) => tx[p].got[t] # Unsent

(* No version of the ledger has a posted transaction beside its pending one. *)
PostedInv ==
  \A v \in 1 .. Len(ledger) : \A t \in Txns :
    ledger[v][t] # Absent /\ PendingOf[t] \in Txns => ledger[v][PendingOf[t]] = Absent

PatchInv == IInv /\ GotInv /\ PostedInv

LEMMA PatchInit == ASSUME Init PROVE PatchInv
<1>1. IInv
  BY InitIInv
<1>2. \A p \in Syncers : tx[p].target = 0 /\ tx[p].got = NoPatch /\ tx[p].pc = "idle"
  <2>1. NoTx.target = 0 /\ NoTx.got = NoPatch /\ NoTx.pc = "idle"
    BY DEF NoTx
  <2>. QED  BY <2>1 DEF Init
<1>3. GotInv
  BY <1>2 DEF GotInv
<1>4. PostedInv
  BY DEF Init, PostedInv, NoRows
<1>. QED  BY <1>1, <1>3, <1>4 DEF PatchInv

LEMMA GotEnds ==
  ASSUME PatchInv, NEW p \in Syncers, End(p), UNCHANGED <<ledger, cursor>>
  PROVE  GotInv'
<1>1. /\ tx' = [tx EXCEPT ![p] = NoTx] /\ tx \in [Syncers -> Transactions]
      /\ NoTx.target = 0 /\ NoTx.got = NoPatch /\ NoTx.pc = "idle"
  BY TxFacts DEF End, NoTx, PatchInv, IInv
<1>2. \A q \in Syncers : tx'[q] = IF q = p THEN NoTx ELSE tx[q]
  BY <1>1
<1>. QED  BY <1>1, <1>2 DEF PatchInv, GotInv, Difference

LEMMA GotFetches ==
  ASSUME PatchInv, NEW p \in Syncers, Fetch(p)
  PROVE  GotInv'
<1>. DEFINE at == IF tx[p].target = 0 THEN Len(ledger) ELSE tx[p].target
            rest == {t \in Txns : ledger[cursor][t] # ledger[at][t] /\ tx[p].got[t] = Unsent}
            got(page) == [t \in Txns |-> IF t \in page THEN ledger[at][t] ELSE tx[p].got[t]]
            done(page) == IF page = rest THEN "complete" ELSE "fetching"
<1>1. PICK page \in SUBSET rest :
        tx' = [tx EXCEPT ![p].target = at, ![p].pc = done(page), ![p].got = got(page)]
  BY Zenon DEF Fetch
<1>2. ledger' = ledger /\ cursor' = cursor /\ tx[p].pc = "fetching" /\ at = Len(ledger)
  BY Zenon DEF Fetch, itemVars
<1>3. /\ tx \in [Syncers -> Transactions] /\ Len(ledger) >= 1 /\ Len(ledger) \in Nat
      /\ tx[p].got \in Patches
  BY TxFacts, LedgerFacts DEF PatchInv, IInv, Transactions
<1>. HIDE DEF at, got, done, rest
<1>4. /\ tx'[p].target = at /\ tx'[p].pc = done(page) /\ tx'[p].got = got(page)
      /\ \A q \in Syncers \ {p} : tx'[q] = tx[q]
  BY <1>1, <1>3 DEF Transactions
<1>5. at # 0
  BY <1>2, <1>3
<1>6. \A t \in Txns : got(page)[t] = IF t \in page THEN ledger[at][t] ELSE tx[p].got[t]
  BY DEF got
<1>7. ASSUME NEW t \in Txns, got(page)[t] # Unsent PROVE got(page)[t] = ledger[at][t]
  <2>1. CASE t \in page
    BY <1>6, <2>1
  <2>2. CASE t \notin page
    <3>1. got(page)[t] = tx[p].got[t]
      BY <1>6, <2>2
    <3>2. tx[p].target # 0
      BY <1>7, <3>1 DEF PatchInv, GotInv, NoPatch
    <3>. QED  BY <1>7, <3>1, <3>2 DEF PatchInv, GotInv, at
  <2>. QED  BY <2>1, <2>2
<1>8. ASSUME done(page) = "complete", NEW t \in Txns, Difference(t, at)
      PROVE  got(page)[t] # Unsent
  <2>1. page = rest
    BY <1>8 DEF done
  <2>2. CASE t \in rest
    <3>1. got(page)[t] = ledger[at][t] /\ ledger[at] \in Views
      BY <1>2, <1>3, <1>6, <2>1, <2>2, LedgerFacts DEF PatchInv, IInv
    <3>. QED  BY <3>1, ModelAssumption DEF Views, Values
  <2>3. CASE t \notin rest
    BY <1>6, <1>8, <2>1, <2>3 DEF rest, Difference
  <2>. QED  BY <2>2, <2>3
<1>9. ASSUME NEW q \in Syncers
      PROVE  /\ tx'[q].target = 0 => tx'[q].got = NoPatch
             /\ tx'[q].target # 0 => \A t \in Txns : tx'[q].got[t] # Unsent =>
                  tx'[q].got[t] = ledger[tx'[q].target][t]
             /\ tx'[q].pc = "complete" => \A t \in Txns : Difference(t, tx'[q].target) =>
                  tx'[q].got[t] # Unsent
  <2>1. CASE q = p
    BY <1>4, <1>5, <1>7, <1>8, <2>1
  <2>2. CASE q # p
    BY <1>4, <2>2 DEF PatchInv, GotInv
  <2>. QED  BY <2>1, <2>2
<1>. QED  BY <1>2, <1>9 DEF GotInv, Difference

LEMMA GotStep == ASSUME PatchInv, [Next]_vars PROVE GotInv'
<1>. USE TxFacts, LedgerFacts DEF PatchInv, IInv
<1>1. ASSUME NEW t \in Txns, NEW value \in Values, ProviderChanges(t, value) PROVE GotInv'
  <2>1. /\ \A v \in 1 .. Len(ledger) : ledger'[v] = ledger[v]
        /\ tx' = tx /\ cursor' = cursor /\ cursor \in 1 .. Len(ledger)
        /\ \A p \in Syncers : tx[p].target \in 0 .. Len(ledger)
    BY <1>1, LedgerGrows DEF ProviderChanges, itemVars, TypeOK, Transactions
  <2>2. \A p \in Syncers : tx[p].target # 0 => ledger'[tx[p].target] = ledger[tx[p].target]
    BY <2>1
  <2>3. \A p \in Syncers : tx[p].pc = "complete" => tx[p].target # 0
    BY DEF TargetInv
  <2>. QED  BY <2>1, <2>2, <2>3 DEF GotInv, Difference
<1>2. ASSUME NEW p \in Syncers, Begin(p) PROVE GotInv'
  <2>1. /\ ledger' = ledger /\ cursor' = cursor
        /\ tx' = [tx EXCEPT ![p] = [NoTx EXCEPT !.pc = "waiting", !.rows = rows, !.streams = streams]]
    BY <1>2 DEF Begin, itemVars
  <2>2. tx'[p].target = 0 /\ tx'[p].got = NoPatch /\ tx'[p].pc = "waiting"
    BY <2>1 DEF NoTx
  <2>3. \A q \in Syncers \ {p} : tx'[q] = tx[q]
    BY <2>1
  <2>. QED  BY <2>1, <2>2, <2>3 DEF GotInv, Difference
<1>3. ASSUME NEW p \in Syncers, Acquire(p) PROVE GotInv'
  <2>1. /\ ledger' = ledger /\ cursor' = cursor /\ tx' = [tx EXCEPT ![p].pc = "fetching"]
    BY <1>3 DEF Acquire, itemVars
  <2>2. \A q \in Syncers : /\ tx'[q].target = tx[q].target /\ tx'[q].got = tx[q].got
                           /\ tx'[q].pc = "complete" => tx[q].pc = "complete"
    BY <2>1 DEF Transactions
  <2>. QED  BY <2>1, <2>2 DEF GotInv, Difference
<1>4. ASSUME NEW p \in Syncers, Mutated(p) PROVE GotInv'
  <2>1. ledger' = ledger /\ cursor' = cursor /\ tx[p].pc = "fetching"
    BY <1>4, Zenon DEF Mutated, itemVars
  <2>2. CASE tx' = [tx EXCEPT ![p].target = 0, ![p].got = NoPatch, ![p].attempt = @ + 1]
    <3>1. /\ tx'[p].target = 0 /\ tx'[p].got = NoPatch /\ tx'[p].pc = "fetching"
          /\ \A q \in Syncers \ {p} : tx'[q] = tx[q]
      BY <2>1, <2>2 DEF Transactions
    <3>. QED  BY <2>1, <3>1 DEF GotInv, Difference
  <2>. QED  BY <1>4, <2>1, <2>2, GotEnds DEF Mutated
<1>5. ASSUME NEW p \in Syncers, Apply(p) PROVE GotInv'
  <2>1. /\ tx' = [tx EXCEPT ![p] = NoTx] /\ ledger' = ledger
        /\ NoTx.target = 0 /\ NoTx.got = NoPatch /\ NoTx.pc = "idle"
    BY <1>5 DEF Apply, End, NoTx
  <2>2. \A q \in Syncers \ {p} : tx'[q] = tx[q] /\ tx[q].target = 0
    BY <1>5, <2>1, AimHoldsLock DEF Apply, TargetInv
  <2>3. \A q \in Syncers : tx'[q].target = 0 /\ tx'[q].got = NoPatch /\ tx'[q].pc # "complete"
    BY <2>1, <2>2 DEF GotInv, TargetInv
  <2>. QED  BY <2>3 DEF GotInv
<1>6. ASSUME NEW p \in Syncers, Sync(p) PROVE GotInv'
  BY <1>2, <1>3, <1>4, <1>5, <1>6, GotFetches, GotEnds, Zenon
    DEF Sync, Step, ApplyFails, ProviderRefuses, Abandon, itemVars
<1>7. ASSUME UNCHANGED <<ledger, cursor, tx>> PROVE GotInv'
  BY <1>7 DEF GotInv, Difference
<1>8. ASSUME [Next]_vars, \A p \in Syncers : ~Sync(p),
             \A t \in Txns, value \in Values : ~ProviderChanges(t, value)
      PROVE UNCHANGED <<ledger, cursor, tx>>
  BY <1>8, Zenon DEF Next, vars, Hook, HookArrives, HookCommits, HookFails,
    Refresh, RefreshBegins, RefreshCommits, Retune, RetuneBegins, RetuneCommits,
    ChooseSubscription, AgeOut, itemVars
<1>. QED  BY <1>1, <1>6, <1>7, <1>8, Zenon

LEMMA PostedStep == ASSUME PatchInv, [Next]_vars PROVE PostedInv'
<1>1. ASSUME NEW t \in Txns, NEW value \in Values, ProviderChanges(t, value) PROVE PostedInv'
  <2>1. /\ Len(ledger) \in Nat /\ Len(ledger') = Len(ledger) + 1 /\ Len(ledger) >= 1
        /\ \A v \in 1 .. Len(ledger) : ledger'[v] = ledger[v]
        /\ \A u \in Txns : ledger'[Len(ledger) + 1][u] =
              IF u = t THEN value ELSE IF value # Absent /\ PendingOf[t] = u THEN Absent ELSE Latest[u]
    <3>1. TypeOK
      BY DEF PatchInv, IInv
    <3>2. /\ Len(ledger) \in Nat /\ Len(ledger') = Len(ledger) + 1 /\ Len(ledger) >= 1
          /\ \A v \in 1 .. Len(ledger) : ledger'[v] = ledger[v]
          /\ ledger'[Len(ledger) + 1] =
              [u \in Txns |-> IF u = t THEN value
                              ELSE IF value # Absent /\ PendingOf[t] = u THEN Absent
                              ELSE Latest[u]]
      BY <1>1, <3>1, LedgerGrows, Zenon
    <3>. QED  BY <3>2
  <2>2. /\ value # Absent => \A u \in Txns : PendingOf[u] = t => Latest[u] = Absent
        /\ \A u \in Txns : Latest[u] # Absent /\ PendingOf[u] \in Txns => Latest[PendingOf[u]] = Absent
    BY <1>1, <2>1 DEF ProviderChanges, PatchInv, PostedInv, Latest
  <2>3. ASSUME NEW u \in Txns, ledger'[Len(ledger) + 1][u] # Absent, PendingOf[u] \in Txns
        PROVE  ledger'[Len(ledger) + 1][PendingOf[u]] = Absent
    <3>1. CASE u = t
      BY <2>1, <2>3, <3>1, ModelAssumption
    <3>2. CASE u # t
      BY <2>1, <2>2, <2>3, <3>2
    <3>. QED  BY <3>1, <3>2
  <2>. QED  BY <2>1, <2>3 DEF PatchInv, PostedInv
<1>2. ASSUME ledger' = ledger PROVE PostedInv'
  BY <1>2 DEF PatchInv, PostedInv
<1>3. ASSUME [Next]_vars, \A t \in Txns, value \in Values : ~ProviderChanges(t, value)
      PROVE  ledger' = ledger
  BY <1>3, Zenon DEF Next, vars, Sync, Step, Begin, Acquire, Fetch, Mutated, Apply, ApplyFails,
    ProviderRefuses, Abandon, Hook, HookArrives, HookCommits, HookFails,
    Refresh, RefreshBegins, RefreshCommits, Retune, RetuneBegins, RetuneCommits,
    ChooseSubscription, AgeOut
<1>. QED  BY <1>1, <1>2, <1>3, Zenon

LEMMA PatchStep == PatchInv /\ [Next]_vars => PatchInv'
BY TypeStep, LockStep, TargetStep, GotStep, PostedStep DEF PatchInv, IInv

(* Who writes the transactions and the cursor, and what the ledger keeps.  *)
LEMMA OnlyApplyWrites ==
  ASSUME [Next]_vars, \A p \in Syncers : ~Apply(p)
  PROVE  UNCHANGED <<rows, cursor, stale>>
BY Zenon DEF Next, vars, ProviderChanges, Sync, Step, Begin, Acquire, Fetch, Mutated, ApplyFails,
  ProviderRefuses, Abandon, Hook, HookArrives, HookCommits, HookFails, Refresh, RefreshBegins,
  RefreshCommits, Retune, RetuneBegins, RetuneCommits, ChooseSubscription, AgeOut, itemVars, historyVars

LEMMA LedgerKept ==
  ASSUME TypeOK, [Next]_vars
  PROVE  /\ \A v \in 1 .. Len(ledger) : ledger'[v] = ledger[v]
         /\ Len(ledger) \in Nat /\ Len(ledger') \in Nat /\ Len(ledger) <= Len(ledger')
<1>1. ASSUME NEW t \in Txns, NEW value \in Values, ProviderChanges(t, value)
      PROVE  /\ \A v \in 1 .. Len(ledger) : ledger'[v] = ledger[v]
             /\ Len(ledger) \in Nat /\ Len(ledger') \in Nat /\ Len(ledger) <= Len(ledger')
  <2>1. /\ Len(ledger) \in Nat /\ Len(ledger') = Len(ledger) + 1
        /\ \A v \in 1 .. Len(ledger) : ledger'[v] = ledger[v]
    BY <1>1, LedgerGrows, Zenon
  <2>. QED  BY <2>1
<1>2. ASSUME \A t \in Txns, value \in Values : ~ProviderChanges(t, value)
      PROVE  ledger' = ledger
  BY <1>2, Zenon DEF Next, vars, Sync, Step, Begin, Acquire, Fetch, Mutated, Apply, ApplyFails,
    ProviderRefuses, Abandon, Hook, HookArrives, HookCommits, HookFails,
    Refresh, RefreshBegins, RefreshCommits, Retune, RetuneBegins, RetuneCommits,
    ChooseSubscription, AgeOut
<1>. QED  BY <1>1, <1>2, LedgerFacts

(* Every row is what the provider said in a version up to the cursor: a    *)
(* late patch may bring back nothing that was never there                  *)
(* (plaid_transactions.py:318-470).                                        *)
THEOREM NoRowInvented == Spec => []NoInventedRow
<1>1. Init => NoInventedRow
  BY DEF Init, NoInventedRow, NoRows
<1>2. ASSUME PatchInv, NoInventedRow, [Next]_vars PROVE NoInventedRow'
  <2>1. /\ TypeOK /\ cursor \in 1 .. Len(ledger)
        /\ \A v \in 1 .. Len(ledger) : ledger'[v] = ledger[v]
    BY <1>2, LedgerKept DEF PatchInv, IInv, TypeOK
  <2>2. ASSUME UNCHANGED <<rows, cursor>> PROVE NoInventedRow'
    BY <1>2, <2>1, <2>2, LedgerFacts DEF NoInventedRow
  <2>3. ASSUME NEW p \in Syncers, Apply(p) PROVE NoInventedRow'
    <3>1. /\ ledger' = ledger /\ cursor' = tx[p].target /\ rows' = Patched(p)
          /\ tx[p].target # 0 /\ cursor <= tx[p].target
          /\ tx[p].target \in 1 .. Len(ledger) /\ Len(ledger) \in Nat
          /\ \A t \in Txns : tx[p].got[t] # Unsent => tx[p].got[t] = ledger[tx[p].target][t]
      BY <1>2, <2>3, TxFacts, LedgerFacts
        DEF Apply, NextCursor, PatchInv, IInv, TargetInv, GotInv, Transactions
    <3>2. ASSUME NEW t \in Txns, rows'[t] # Absent
          PROVE  \E v \in 1 .. cursor' : ledger'[v][t] = rows'[t]
      <4>1. CASE t \in Written(p)
        <5>1. rows'[t] = tx[p].got[t] /\ tx[p].got[t] # Unsent
          BY <3>1, <3>2, <4>1, ModelAssumption DEF Patched, Written, Upserted
        <5>. QED  BY <3>1, <5>1
      <4>2. CASE t \notin Written(p)
        <5>1. rows'[t] = rows[t]
          BY <3>1, <3>2, <4>2 DEF Patched
        <5>2. PICK v \in 1 .. cursor : ledger[v][t] = rows[t]
          BY <1>2, <3>2, <5>1 DEF NoInventedRow
        <5>. QED  BY <2>1, <3>1, <5>1, <5>2
      <4>. QED  BY <4>1, <4>2
    <3>. QED  BY <3>2 DEF NoInventedRow
  <2>. QED  BY <1>2, <2>2, <2>3, OnlyApplyWrites
<1>. QED  BY <1>1, <1>2, PatchInit, PatchStep, PTL DEF Spec

(* Applied to the rows it was computed from, a patch gives the version it  *)
(* aimed at.                                                               *)
LEMMA PatchIsExact ==
  ASSUME PatchInv, NEW p \in Syncers, tx[p].pc = "complete",
         tx[p].rows = rows, rows = ledger[cursor]
  PROVE  Patched(p) = ledger[tx[p].target]
<1>. DEFINE at == tx[p].target
            got == tx[p].got
<1>1. /\ at # 0 /\ at \in 1 .. Len(ledger) /\ ledger[at] \in Views /\ rows \in Views
      /\ got \in Patches
  BY TxFacts, LedgerFacts DEF PatchInv, IInv, TargetInv, Transactions, TypeOK
<1>2. /\ \A t \in Txns : got[t] # Unsent => got[t] = ledger[at][t]
      /\ \A t \in Txns : rows[t] # ledger[at][t] => got[t] # Unsent
      /\ \A t \in Txns : ledger[at][t] # Absent /\ PendingOf[t] \in Txns =>
           ledger[at][PendingOf[t]] = Absent
  BY <1>1 DEF PatchInv, GotInv, PostedInv, Difference
<1>3. /\ Upserted(p) = {t \in Txns : got[t] \in Contents}
      /\ Removed(p) = {t \in Txns : rows[t] # Absent /\
                        (got[t] = Absent \/ \E u \in Upserted(p) : PendingOf[u] = t)}
      /\ Written(p) = {t \in Upserted(p) : got[t] # rows[t]}
  BY DEF Upserted, Removed, Written
<1>. HIDE DEF at, got
<1>4. ASSUME NEW t \in Txns
      PROVE  (IF t \in Removed(p) THEN Absent ELSE IF t \in Written(p) THEN got[t] ELSE rows[t])
               = ledger[at][t]
  <2>1. CASE t \in Removed(p)
    <3>1. CASE got[t] = Absent
      BY <1>2, <2>1, <3>1, ModelAssumption
    <3>2. CASE \E u \in Upserted(p) : PendingOf[u] = t
      <4>1. PICK u \in Txns : got[u] \in Contents /\ PendingOf[u] = t
        BY <1>3, <3>2
      <4>2. ledger[at][u] # Absent
        BY <1>2, <4>1, ModelAssumption
      <4>. QED  BY <1>2, <2>1, <4>1, <4>2
    <3>. QED  BY <1>3, <2>1, <3>1, <3>2
  <2>2. CASE t \notin Removed(p) /\ t \in Written(p)
    BY <1>2, <1>3, <2>2, ModelAssumption
  <2>3. CASE t \notin Removed(p) /\ t \notin Written(p)
    <3>1. SUFFICES ASSUME rows[t] # ledger[at][t] PROVE FALSE
      BY <2>3
    <3>2. got[t] = ledger[at][t] /\ got[t] \in Contents \cup {Absent}
      BY <1>1, <1>2, <3>1 DEF Views, Values
    <3>. QED  BY <1>3, <2>3, <3>1, <3>2
  <2>. QED  BY <2>1, <2>2, <2>3
<1>5. Patched(p) = [t \in Txns |-> IF t \in Removed(p) THEN Absent
                                  ELSE IF t \in Written(p) THEN got[t] ELSE rows[t]]
  BY DEF Patched, got
<1>6. ledger[at] = [t \in Txns |-> ledger[at][t]]
  BY <1>1 DEF Views
<1>7. Patched(p) = ledger[at]
  BY <1>4, <1>5, <1>6
<1>. QED  BY <1>7 DEF at

(* The transactions are the provider's ledger at the cursor as long as no  *)
(* patch was applied to rows other than those it was computed from, for    *)
(* any page sizes, restarts, crashes and number of synchronizations        *)
(* (plaid_transactions.py:392-473).                                        *)
THEOREM AlwaysExactUnlessStale == Spec => []ExactUnlessStale
<1>1. ASSUME Init PROVE ExactUnlessStale
  <2>1. ledger[1] = NoRows /\ cursor = 1 /\ rows = NoRows
    BY <1>1 DEF Init
  <2>. QED  BY <2>1 DEF ExactUnlessStale
<1>2. ASSUME PatchInv, ExactUnlessStale, [Next]_vars PROVE ExactUnlessStale'
  <2>1. ASSUME UNCHANGED <<rows, cursor, stale>> PROVE ExactUnlessStale'
    <3>1. ledger'[cursor] = ledger[cursor]
      BY <1>2, LedgerKept DEF PatchInv, IInv, TypeOK
    <3>. QED  BY <1>2, <2>1, <3>1 DEF ExactUnlessStale
  <2>2. ASSUME NEW p \in Syncers, Apply(p), ~stale' PROVE rows' = ledger'[cursor']
    <3>1. /\ tx[p].pc = "complete" /\ rows' = Patched(p) /\ cursor' = tx[p].target
          /\ ledger' = ledger
      BY <2>2 DEF Apply, NextCursor
    <3>2. ~stale /\ tx[p].rows = rows
      BY <2>2, Zenon DEF Apply
    <3>. QED  BY <1>2, <3>1, <3>2, PatchIsExact DEF ExactUnlessStale
  <2>. QED  BY <1>2, <2>1, <2>2, OnlyApplyWrites DEF ExactUnlessStale
<1>. QED  BY <1>1, <1>2, PatchInit, PatchStep, PTL DEF Spec

-----------------------------------------------------------------------------
(* One synchronizer: what it read is what it patches.                      *)
Undisturbed == \A p \in Syncers : tx[p].pc # "idle" => tx[p].rows = rows
ReplicaInv == PatchInv /\ Undisturbed /\ rows = ledger[cursor]

LEMMA ReplicaInit == ASSUME Init PROVE ReplicaInv /\ Replica!Init
<1>1. /\ ledger[1] = NoRows /\ cursor = 1 /\ rows = NoRows /\ ledger = <<NoRows>>
      /\ \A p \in Syncers : tx[p] = NoTx /\ NoTx.pc = "idle"
  BY DEF Init, NoTx
<1>2. Undisturbed
  BY <1>1 DEF Undisturbed
<1>3. Replica!Init
  BY <1>1 DEF Replica!Init, NoRows
<1>. QED  BY <1>1, <1>2, <1>3, PatchInit DEF ReplicaInv

LEMMA ReplicaPublishes ==
  ASSUME ReplicaInv, NEW t \in Txns, NEW value \in Values, ProviderChanges(t, value)
  PROVE  Replica!Publish
<1>. DEFINE view == [u \in Txns |-> IF u = t THEN value
                                   ELSE IF value # Absent /\ PendingOf[t] = u THEN Absent
                                   ELSE Latest[u]]
<1>1. TypeOK
  BY DEF ReplicaInv, PatchInv, IInv
<1>2. view \in [Txns -> Contents \cup {Absent}]
  BY <1>1, LedgerGrows DEF Views, Values
<1>3. ledger' = Append(ledger, view) /\ cursor' = cursor /\ rows' = rows
  BY DEF ProviderChanges, itemVars
<1>. HIDE DEF view
<1>. QED  BY <1>2, <1>3 DEF Replica!Publish, Replica!Views

LEMMA ReplicaCatchesUp ==
  ASSUME ReplicaInv, NEW p \in Syncers, Apply(p)
  PROVE  Replica!CatchUp /\ rows' = ledger[cursor'] /\ ledger' = ledger
<1>1. /\ tx[p].pc = "complete" /\ rows' = Patched(p) /\ cursor' = tx[p].target
      /\ ledger' = ledger
  BY DEF Apply, NextCursor
<1>2. rows' = ledger[tx[p].target]
  BY <1>1, PatchIsExact DEF ReplicaInv, Undisturbed
<1>3. tx[p].target \in cursor .. Len(ledger)
  BY <1>1, TxFacts, LedgerFacts DEF ReplicaInv, PatchInv, IInv, TargetInv, Transactions, TypeOK
<1>. QED  BY <1>1, <1>2, <1>3 DEF Replica!CatchUp

LEMMA OpenedOnRows ==
  ASSUME ReplicaInv, [Next]_vars, \A p \in Syncers : ~Apply(p)
  PROVE  Undisturbed'
<1>. USE TxFacts DEF ReplicaInv, PatchInv, IInv
<1>1. rows' = rows
  BY OnlyApplyWrites
<1>2. ASSUME NEW p \in Syncers, Begin(p) PROVE Undisturbed'
  <2>1. tx' = [tx EXCEPT ![p] = [NoTx EXCEPT !.pc = "waiting", !.rows = rows, !.streams = streams]]
    BY <1>2 DEF Begin
  <2>2. tx'[p].rows = rows /\ \A q \in Syncers \ {p} : tx'[q] = tx[q]
    BY <2>1 DEF NoTx
  <2>. QED  BY <1>1, <2>2 DEF Undisturbed
<1>3. ASSUME NEW p \in Syncers, \A q \in Syncers \ {p} : tx'[q] = tx[q],
             tx'[p].pc = "idle" \/ (tx[p].pc # "idle" /\ tx'[p].rows = tx[p].rows)
      PROVE  Undisturbed'
  BY <1>1, <1>3 DEF Undisturbed
<1>4. ASSUME NEW p \in Syncers, End(p) PROVE Undisturbed'
  <2>1. tx'[p].pc = "idle" /\ \A q \in Syncers \ {p} : tx'[q] = tx[q]
    BY <1>4, EndEffect
  <2>. QED  BY <1>1, <2>1 DEF Undisturbed
<1>5. ASSUME NEW p \in Syncers, Acquire(p) PROVE Undisturbed'
  BY <1>3, <1>5 DEF Acquire, Transactions
<1>6. ASSUME NEW p \in Syncers, Fetch(p) PROVE Undisturbed'
  <2>1. tx[p].pc = "fetching"
    BY <1>6, FetchEffect
  <2>2. \E pc \in {"fetching", "complete"} : \E got, at :
          tx' = [tx EXCEPT ![p].target = at, ![p].pc = pc, ![p].got = got]
    BY <1>6, Zenon DEF Fetch
  <2>3. tx'[p].rows = tx[p].rows /\ \A q \in Syncers \ {p} : tx'[q] = tx[q]
    BY <2>2 DEF Transactions
  <2>. QED  BY <1>3, <2>1, <2>3
<1>7. ASSUME NEW p \in Syncers, Mutated(p) PROVE Undisturbed'
  <2>1. tx[p].pc = "fetching"
    BY <1>7 DEF Mutated
  <2>2. CASE tx' = [tx EXCEPT ![p].target = 0, ![p].got = NoPatch, ![p].attempt = @ + 1]
    <3>1. tx'[p].rows = tx[p].rows /\ \A q \in Syncers \ {p} : tx'[q] = tx[q]
      BY <2>2 DEF Transactions
    <3>. QED  BY <1>3, <2>1, <3>1
  <2>. QED  BY <1>4, <1>7, <2>2 DEF Mutated
<1>8. ASSUME NEW p \in Syncers, Sync(p) PROVE Undisturbed'
  BY <1>2, <1>4, <1>5, <1>6, <1>7, <1>8, Zenon
    DEF Sync, Step, ApplyFails, ProviderRefuses, Abandon
<1>9. ASSUME UNCHANGED tx PROVE Undisturbed'
  BY <1>1, <1>9 DEF Undisturbed
<1>10. ASSUME [Next]_vars, \A p \in Syncers : ~Sync(p) PROVE UNCHANGED tx
  BY <1>10, Zenon DEF Next, vars, ProviderChanges, Hook, HookArrives, HookCommits, HookFails,
    Refresh, RefreshBegins, RefreshCommits, Retune, RetuneBegins, RetuneCommits,
    ChooseSubscription, AgeOut
<1>. QED  BY <1>8, <1>9, <1>10, Zenon

LEMMA ReplicaStep ==
  ASSUME \A p, q \in Syncers : p = q, ReplicaInv, [Next]_vars
  PROVE  ReplicaInv' /\ [Replica!Next]_(Replica!vars)
<1>1. PatchInv'
  BY PatchStep DEF ReplicaInv
<1>2. CASE \E p \in Syncers : Apply(p)
  <2>1. PICK p \in Syncers : Apply(p)
    BY <1>2
  <2>2. tx' = [tx EXCEPT ![p] = NoTx] /\ NoTx.pc = "idle"
    BY <2>1 DEF Apply, End, NoTx
  <2>3. Undisturbed'
    BY <2>2, TxFacts DEF Undisturbed, ReplicaInv, PatchInv, IInv
  <2>. QED  BY <1>1, <2>1, <2>3, ReplicaCatchesUp DEF ReplicaInv, Replica!Next
<1>3. CASE \A p \in Syncers : ~Apply(p)
  <2>1. rows' = rows /\ cursor' = cursor
    BY <1>3, OnlyApplyWrites
  <2>2. ledger'[cursor] = ledger[cursor]
    BY LedgerKept DEF ReplicaInv, PatchInv, IInv, TypeOK
  <2>3. ReplicaInv'
    BY <1>1, <1>3, <2>1, <2>2, OpenedOnRows DEF ReplicaInv
  <2>4. ledger' = ledger \/ \E t \in Txns, value \in Values : ProviderChanges(t, value)
    BY Zenon DEF Next, vars, Sync, Step, Begin, Acquire, Fetch, Mutated, Apply, ApplyFails,
      ProviderRefuses, Abandon, Hook, HookArrives, HookCommits, HookFails,
      Refresh, RefreshBegins, RefreshCommits, Retune, RetuneBegins, RetuneCommits,
      ChooseSubscription, AgeOut
  <2>. QED  BY <2>1, <2>3, <2>4, ReplicaPublishes DEF Replica!Next, Replica!vars
<1>. QED  BY <1>2, <1>3

(* The timer alone keeps an atomic copy of the ledger: whatever pages,     *)
(* page restarts, refusals, deaths and webhooks do, cursor and patch move  *)
(* together (plaid_transactions.py:392-473).                               *)
THEOREM TimerKeepsReplica ==
  ASSUME \A p, q \in Syncers : p = q
  PROVE  Spec => ImplementsReplica
<1>1. ReplicaInv /\ [Next]_vars => ReplicaInv' /\ [Replica!Next]_(Replica!vars)
  BY ReplicaStep
<1>. QED  BY <1>1, ReplicaInit, PTL DEF Spec, ImplementsReplica, Replica!Spec

-----------------------------------------------------------------------------
(* The repair flag and its reason.                                         *)
Agree(h) == h.required <=> h.reason # "none"

LEMMA WrittenHealthAgrees ==
  /\ Agree(Healthy)
  /\ \A code \in ErrorHooks : Agree(Broken(code))
BY DEF Agree, Healthy, Broken, ErrorHooks, RepairCodes

LEMMA StatusKeepsAgreement ==
  ASSUME NEW h \in Health, Agree(h), NEW status
  PROVE  Agree([h EXCEPT !.status = status])
<1>1. /\ [h EXCEPT !.status = status].required = h.required
      /\ [h EXCEPT !.status = status].reason = h.reason
  BY DEF Health
<1>. HIDE DEF Health
<1>. QED  BY <1>1, Zenon DEF Agree

LEMMA WarningAgrees ==
  ASSUME NEW h \in Health, NEW code \in WarningHooks
  PROVE  Agree([h EXCEPT !.required = TRUE, !.reason = code])
<1>1. /\ [h EXCEPT !.required = TRUE, !.reason = code].required = TRUE
      /\ [h EXCEPT !.required = TRUE, !.reason = code].reason = code
  BY DEF Health
<1>2. code # "none"
  BY DEF WarningHooks
<1>. QED  BY <1>1, <1>2, Zenon DEF Agree

(* Columns flushed over the row they were loaded from are the new ones.    *)
LEMMA FlushOfLatest ==
  ASSUME health \in Health, NEW new \in Health, Agree(new)
  PROVE  Agree(Flush(health, new))
<1>1. /\ Flush(health, new).required = IF new.required # health.required THEN new.required ELSE health.required
      /\ Flush(health, new).reason = IF new.reason # health.reason THEN new.reason ELSE health.reason
  BY Zenon DEF Flush
<1>2. Flush(health, new).required = new.required /\ Flush(health, new).reason = new.reason
  BY <1>1, Zenon
<1>. QED  BY <1>2, Zenon DEF Agree

LEMMA HookAgrees ==
  ASSUME NEW seen \in Health, Agree(seen), NEW code \in HookCodes
  PROVE  Agree(HookEffect(code, seen))
<1>1. CASE code \in ErrorHooks
  <2>1. HookEffect(code, seen) = Broken(code)
    <3>1. code \notin WarningHooks /\ code # "LOGIN_REPAIRED"
      BY <1>1 DEF WarningHooks, ErrorHooks, RepairCodes
    <3>. QED  BY <1>1, <3>1 DEF HookEffect
  <2>. QED  BY <1>1, <2>1, WrittenHealthAgrees
<1>2. CASE code \in WarningHooks
  <2>1. code \notin ErrorHooks
    BY <1>2 DEF WarningHooks, ErrorHooks, RepairCodes
  <2>2. HookEffect(code, seen) = [seen EXCEPT !.required = TRUE, !.reason = code]
    BY <1>2, <2>1 DEF HookEffect, WarningHooks
  <2>. QED  BY <1>2, <2>2, WarningAgrees
<1>3. CASE code = "LOGIN_REPAIRED"
  <2>1. HookEffect(code, seen) = Healthy
    BY <1>3 DEF HookEffect, WarningHooks, ErrorHooks, RepairCodes
  <2>. QED  BY <2>1, WrittenHealthAgrees
<1>4. CASE code = "SYNC_UPDATES_AVAILABLE"
  <2>1. HookEffect(code, seen) = seen
    BY <1>4 DEF HookEffect, WarningHooks, ErrorHooks, RepairCodes
  <2>. QED  BY <2>1
<1>. QED  BY <1>1, <1>2, <1>3, <1>4 DEF HookCodes, RequestHooks

LEMMA RefreshAgrees ==
  ASSUME NEW seen \in Health, Agree(seen), NEW effect \in RefreshEffects(seen)
  PROVE  Agree(effect.health)
<1>1. \/ effect.health = Healthy \/ effect.health = seen
      \/ effect.health = [seen EXCEPT !.status = "error"]
      \/ \E code \in ErrorHooks : effect.health = Broken(code)
  <2>1. \A code \in RepairCodes \cup OtherCodes :
          code = "ITEM_LOGIN_REQUIRED" => code \in ErrorHooks
    BY DEF ErrorHooks, RepairCodes
  <2>2. RepairCodes \subseteq ErrorHooks
    BY DEF ErrorHooks
  <2>. QED  BY <2>1, <2>2 DEF RefreshEffects
<1>. QED  BY <1>1, WrittenHealthAgrees, StatusKeepsAgreement

LEMMA RepairedAgrees ==
  ASSUME health \in Health, Agree(health)
  PROVE  Agree(Repaired)
BY WrittenHealthAgrees, StatusKeepsAgreement DEF Repaired

LEMMA FlagsStep ==
  ASSUME TypeOK, TypeOK', [Next]_vars, ~raced => Agree(health), ~raced'
  PROVE  Agree(health')
<1>. USE DEF TypeOK
<1>1. ~raced
  BY Zenon DEF Next, vars, ProviderChanges, Sync, Step, Begin, Acquire, Fetch, Mutated, Apply,
    ApplyFails, ProviderRefuses, Abandon, Hook, HookArrives, HookCommits, HookFails, Refresh,
    RefreshBegins, RefreshCommits, Retune, RetuneBegins, RetuneCommits, ChooseSubscription, AgeOut,
    historyVars
<1>2. health \in Health /\ Agree(health)
  BY <1>1
<1>3. ASSUME HookCommits PROVE Agree(health')
  <2>1. hook.seen = health /\ health' = Flush(hook.seen, HookEffect(hook.code, hook.seen))
    BY <1>3, Zenon DEF HookCommits
  <2>2. CASE hook.code = "none"
    <3>1. HookEffect(hook.code, hook.seen) = health
      BY <2>1, <2>2 DEF HookEffect, WarningHooks, ErrorHooks, RepairCodes
    <3>. QED  BY <1>2, <2>1, <3>1, FlushOfLatest
  <2>3. CASE hook.code \in HookCodes
    <3>1. HookEffect(hook.code, health) \in Health /\ Agree(HookEffect(hook.code, health))
      BY <1>2, <2>3, HookAgrees, HookEffectType
    <3>. QED  BY <1>2, <2>1, <3>1, FlushOfLatest
  <2>. QED  BY <2>2, <2>3
<1>4. ASSUME RefreshCommits PROVE Agree(health')
  <2>1. refresh.seen = health
    BY <1>4, Zenon DEF RefreshCommits
  <2>2. PICK effect \in RefreshEffects(refresh.seen) : health' = Flush(refresh.seen, effect.health)
    BY <1>4, Zenon DEF RefreshCommits
  <2>3. effect.health \in Health /\ Agree(effect.health)
    BY <1>2, <2>1, RefreshAgrees, RefreshEffectType
  <2>. QED  BY <1>2, <2>1, <2>2, <2>3, FlushOfLatest
<1>5. ASSUME NEW p \in Syncers, Apply(p) PROVE Agree(health')
  BY <1>2, <1>5, RepairedAgrees, Zenon DEF Apply
<1>6. ASSUME NEW p \in Syncers, NEW code \in RepairCodes \cup OtherCodes, ProviderRefuses(p, code)
      PROVE  Agree(health')
  <2>1. CASE code \in RepairCodes
    BY <1>6, <2>1, WrittenHealthAgrees, Zenon DEF ProviderRefuses, ErrorHooks
  <2>2. CASE code \notin RepairCodes
    BY <1>2, <1>6, <2>2, Zenon DEF ProviderRefuses
  <2>. QED  BY <2>1, <2>2
<1>7. ASSUME ~HookCommits, ~RefreshCommits, \A p \in Syncers : ~Apply(p),
             \A p \in Syncers, code \in RepairCodes \cup OtherCodes : ~ProviderRefuses(p, code)
      PROVE  health' = health
  BY <1>7, Zenon DEF Next, vars, ProviderChanges, Sync, Step, Begin, Acquire, Fetch, Mutated,
    ApplyFails, Abandon, Hook, HookArrives, HookFails, Refresh,
    RefreshBegins, Retune, RetuneBegins, RetuneCommits, ChooseSubscription, AgeOut, itemVars
<1>8. ASSUME health' = health PROVE Agree(health')
  BY <1>2, <1>8, Zenon
<1>. QED  BY <1>3, <1>4, <1>5, <1>6, <1>7, <1>8, Zenon

(* The repair flag is set exactly when there is a reason for it, unless a  *)
(* handler wrote columns it had loaded before another one changed them     *)
(* (api/plaid.py:111, plaid.py:450, plaid_transactions.py:392).            *)
THEOREM FlagsAlwaysAgree == Spec => []FlagsAgree
<1>1. ASSUME Init PROVE FlagsAgree
  <2>1. health = Healthy
    BY <1>1 DEF Init
  <2>2. Agree(health)
    BY <2>1, WrittenHealthAgrees, Zenon
  <2>. QED  BY <2>2, Zenon DEF Agree, FlagsAgree
<1>2. ASSUME TypeOK, TypeOK', FlagsAgree, [Next]_vars PROVE FlagsAgree'
  <2>1. ~raced => Agree(health)
    BY <1>2, Zenon DEF FlagsAgree, Agree
  <2>2. ~raced' => Agree(health')
    BY <1>2, <2>1, FlagsStep
  <2>. QED  BY <2>2, Zenon DEF FlagsAgree, Agree
<1>. QED  BY <1>1, <1>2, TypeCorrect, PTL DEF Spec
================================================================================
