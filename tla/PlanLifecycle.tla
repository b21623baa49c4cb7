---------------------------- MODULE PlanLifecycle ----------------------------
(***************************************************************************)
(* What an Advisor action plan promises: it is proposed against the        *)
(* settings as they are, applied only while they still are so, and undone  *)
(* only while they are what it made of them.  Each of these is one step.   *)
(***************************************************************************)
CONSTANTS
  Settings,  \* what a plan may change
  Values,
  Missing,   \* the setting does not exist
  Plans,
  Wants      \* what each plan makes of the settings it reaches

VARIABLES
  settings,
  plans      \* status, and the settings reached as they were when proposed

vars == <<settings, plans>>

Reached(p, view) == [s \in DOMAIN Wants[p] |-> view[s]]
With(change) == [s \in Settings |-> IF s \in DOMAIN change THEN change[s] ELSE settings[s]]

NoDraft(p) == [status |-> "none", before |-> [s \in DOMAIN Wants[p] |-> Missing]]

Init ==
  /\ settings \in [Settings -> Values \cup {Missing}]
  /\ plans = [p \in Plans |-> NoDraft(p)]

UserChanges ==
  /\ \E s \in Settings, v \in Values \cup {Missing} : settings' = [settings EXCEPT ![s] = v]
  /\ UNCHANGED plans

Propose(p) ==
  /\ plans[p].status = "none"
  /\ plans' = [plans EXCEPT ![p] = [status |-> "draft", before |-> Reached(p, settings)]]
  /\ UNCHANGED settings

Becomes(p, from, to) ==
  /\ plans[p].status = from
  /\ plans' = [plans EXCEPT ![p].status = to]

Apply(p) ==
  /\ Becomes(p, "draft", "applied")
  /\ Reached(p, settings) = plans[p].before
  /\ settings' = With(Wants[p])

Undo(p) ==
  /\ Becomes(p, "applied", "undone")
  /\ Reached(p, settings) = Wants[p]
  /\ settings' = With(plans[p].before)

Reject(p) == Becomes(p, "draft", "rejected") /\ UNCHANGED settings

Forget(p) ==
  /\ plans' = [plans EXCEPT ![p] = [NoDraft(p) EXCEPT !.status = "deleted"]]
  /\ UNCHANGED settings

Next ==
  \/ UserChanges
  \/ \E p \in Plans : Propose(p) \/ Apply(p) \/ Undo(p) \/ Reject(p) \/ Forget(p)

Spec == Init /\ [][Next]_vars
==============================================================================
