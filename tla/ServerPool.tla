------------------------------ MODULE ServerPool ------------------------------
(***************************************************************************)
(* How requests share the one server process (core/database.py,            *)
(* api/dependencies.py, services/auth.py and the webhook handler of        *)
(* api/plaid.py).  A request to a synchronous endpoint alternates between  *)
(* the event loop, which starts its next part, and threads that work on    *)
(* it: its session is opened and its user is looked up, its handler runs,  *)
(* its session is closed.  The webhook works on the event loop itself, so  *)
(* nothing else is started while it waits.                                 *)
(*                                                                         *)
(* A session holds a connection of the pool from its first query to its    *)
(* commit or its end.  The row that a synchronization locks is one item's. *)
(***************************************************************************)
EXTENDS Naturals, FiniteSets

CONSTANTS
  Calls,     \* requests to synchronous endpoints; --limit-concurrency 8
  Syncs,     \* those that synchronize the item
  Hooks,     \* webhooks about the item
  PoolSize,  \* pool_size and max_overflow: 3
  Nobody,
  Minutely   \* the synchronization that the timer runs in another process

PoolAssumption ==
  /\ Syncs \subseteq Calls /\ Calls \cap Hooks = {} /\ PoolSize \in Nat \ {0}
  /\ Nobody \notin Calls /\ Minutely \notin Calls
ASSUME PoolAssumption

VARIABLES
  call,  \* where each request is
  webhook,  \* where each webhook is
  pool,  \* who holds a connection
  rowLock   \* who holds the item's row

poolVars == <<call, webhook, pool, rowLock>>

Full == Cardinality(pool) >= PoolSize
OnLoop == {h \in Hooks : webhook[h] \in {"verifying", "reading", "writing"}}
LoopFree == OnLoop = {}

(* Waiting for a connection ends after pool_timeout.                       *)
PoolWaits == FALSE
PoolTimeout == Full

Querying == {"signing in", "extended", "working", "committed"}

PoolInit ==
  /\ call = [c \in Calls |-> "idle"] /\ webhook = [h \in Hooks |-> "idle"]
  /\ pool = {} /\ rowLock = Nobody

Goes(c, from, to) == call[c] = from /\ call' = [call EXCEPT ![c] = to]
Turns(h, from, to) == webhook[h] = from /\ webhook' = [webhook EXCEPT ![h] = to]

(* Rolling back gives up the row and the connection.                       *)
Released(x) == rowLock' = IF rowLock = x THEN Nobody ELSE rowLock
Returned(x) == pool' = pool \ {x}

-----------------------------------------------------------------------------
(* A request.                                                              *)

Arrive(c) ==
  /\ Goes(c, "idle", "arrived")
  /\ UNCHANGED <<webhook, pool, rowLock>>

(* The loop hands the request's next part to a thread.                     *)
Dispatch(c) ==
  /\ LoopFree
  /\ \/ Goes(c, "arrived", "signing in")
     \/ Goes(c, "signed in", "working")
     \/ Goes(c, "answering", "closing")
  /\ UNCHANGED <<webhook, pool, rowLock>>

Waits(c) == call[c] \in Querying /\ c \notin pool

Connect(c) ==
  /\ Waits(c) /\ ~Full
  /\ pool' = pool \cup {c}
  /\ UNCHANGED <<call, webhook, rowLock>>

(* The request is answered with 503.                                       *)
TimesOut(c) ==
  /\ Waits(c) /\ PoolTimeout
  /\ call' = [call EXCEPT ![c] = "answering"]
  /\ UNCHANGED <<webhook, pool, rowLock>>

(* load_principal: a session that was last seen a while ago is extended,   *)
(* and committing it gives the connection back before the budget's owner   *)
(* is looked up with a connection again.                                   *)
Extend(c) ==
  /\ c \in pool /\ Goes(c, "signing in", "extended") /\ Returned(c)
  /\ UNCHANGED <<webhook, rowLock>>

SignIn(c) ==
  /\ c \in pool
  /\ \E next \in {"signed in", "answering"} : Goes(c, "signing in", next) \/ Goes(c, "extended", next)
  /\ UNCHANGED <<webhook, pool, rowLock>>

LockRow(c) ==
  /\ c \in Syncs \cap pool /\ call[c] = "working" /\ rowLock = Nobody
  /\ rowLock' = c
  /\ UNCHANGED <<call, webhook, pool>>

Commit(c) ==
  /\ c \in pool /\ Goes(c, "working", "committed")
  /\ Released(c) /\ Returned(c)
  /\ UNCHANGED webhook

(* The handler returns or fails, before its commit or after it, and keeps  *)
(* what it holds until its session is closed.                              *)
Answer(c) ==
  /\ Goes(c, "working", "answering") \/ Goes(c, "committed", "answering")
  /\ call[c] = "working" => c \in pool
  /\ UNCHANGED <<webhook, pool, rowLock>>

(* Database.session: the session is closed whatever happened.              *)
CloseSession(c) ==
  /\ Goes(c, "closing", "idle")
  /\ Released(c) /\ Returned(c)
  /\ UNCHANGED webhook

(* What threads and the database do for c.                                 *)
Thread(c) ==
  \/ Connect(c) \/ TimesOut(c) \/ Extend(c) \/ SignIn(c)
  \/ LockRow(c) \/ Commit(c) \/ Answer(c) \/ CloseSession(c)

-----------------------------------------------------------------------------
(* The webhook.                                                            *)

HookArrive(h) ==
  /\ Turns(h, "idle", "arrived")
  /\ UNCHANGED <<call, pool, rowLock>>

HookStart(h) ==
  /\ LoopFree /\ Turns(h, "arrived", "verifying")
  /\ UNCHANGED <<call, pool, rowLock>>

HookVerified(h) ==
  /\ Turns(h, "verifying", "idle") \/ Turns(h, "verifying", "reading")
  /\ UNCHANGED <<call, pool, rowLock>>

HookReads(h) ==
  /\ ~Full /\ Turns(h, "reading", "writing")
  /\ pool' = pool \cup {h}
  /\ UNCHANGED <<call, rowLock>>

HookTimesOut(h) ==
  /\ PoolTimeout /\ Turns(h, "reading", "idle")
  /\ UNCHANGED <<call, pool, rowLock>>

(* The UPDATE waits for the row and is committed at once.                  *)
HookWrites(h) ==
  /\ rowLock = Nobody /\ Turns(h, "writing", "idle")
  /\ Returned(h)
  /\ UNCHANGED <<call, rowLock>>

(* No such item; or the wait for the row ends in an error.                 *)
HookGivesUp(h) ==
  /\ Turns(h, "writing", "closing")
  /\ UNCHANGED <<call, pool, rowLock>>

HookCloses(h) ==
  /\ LoopFree /\ Turns(h, "closing", "idle") /\ Returned(h)
  /\ UNCHANGED <<call, rowLock>>

HookStep(h) ==
  HookVerified(h) \/ HookReads(h) \/ HookTimesOut(h) \/ HookWrites(h) \/ HookGivesUp(h)

-----------------------------------------------------------------------------
TimerLocks == rowLock = Nobody /\ rowLock' = Minutely /\ UNCHANGED <<call, webhook, pool>>
TimerEnds == rowLock = Minutely /\ rowLock' = Nobody /\ UNCHANGED <<call, webhook, pool>>

PoolNext ==
  \/ \E c \in Calls : Arrive(c) \/ Dispatch(c) \/ Thread(c)
  \/ \E h \in Hooks : HookArrive(h) \/ HookStart(h) \/ HookStep(h) \/ HookCloses(h)
  \/ TimerLocks \/ TimerEnds

(* Threads and the database go on and waits end.  Nothing is assumed of    *)
(* the timer, of new requests or of what the loop starts next.             *)
LoopWork == \E h \in Hooks : HookStep(h)

PoolFairness == WF_poolVars(LoopWork) /\ \A c \in Calls : WF_poolVars(Thread(c))

PoolSpec == PoolInit /\ [][PoolNext]_poolVars /\ PoolFairness

-----------------------------------------------------------------------------
(* No more connections are out than the pool has and whoever is done has   *)
(* none, and no row, wherever it failed or gave up; a request that holds   *)
(* the row holds a connection, and one webhook at a time is worked on.     *)
NothingLeaks ==
  /\ Cardinality(pool) <= PoolSize
  /\ \A c \in Calls : call[c] \in {"idle", "arrived"} => c \notin pool /\ rowLock # c
  /\ \A h \in Hooks : webhook[h] \in {"idle", "arrived"} => h \notin pool
  /\ rowLock \in Calls => rowLock \in Syncs \cap pool
  /\ \A g, h \in OnLoop : g = h

(* A webhook waits for a connection and for a row on the event loop, which *)
(* the holders of both need to let go of them; still the loop always comes *)
(* free again, no thread queries for ever and nothing leaks                *)
(* (plaid.py:110-137, database.py:104-143).                                *)
ServerGoesOn == []<>LoopFree /\ (\A c \in Calls : []<>(call[c] \notin Querying)) /\ []NothingLeaks
===============================================================================
