------------------------- MODULE AdvisorPlans_proofs -------------------------
(***************************************************************************)
(* A plan is applied whole whatever overlaps, and with one person who      *)
(* waits for each answer AdvisorPlans implements PlanLifecycle, for any    *)
(* settings, plans, orders of writing and number of requests.              *)
(***************************************************************************)
EXTENDS AdvisorPlans, TLAPS

(* What an open transaction q was opened for.                              *)
Shape(q) ==
  /\ DOMAIN q = {"op", "plan", "seen", "new", "todo", "held"}
  /\ q.op \in Operations \cup {"idle"} /\ q.plan \in Plans \cup {NoPlan}
  /\ DOMAIN q.new \subseteq Settings
  /\ q.new \in [DOMAIN q.new -> Values \cup {Missing}]
  /\ q.seen \in [DOMAIN q.new -> Values \cup {Missing}]
  /\ q.held \subseteq DOMAIN q.new /\ q.todo \subseteq DOMAIN q.new
  /\ q.op \in DOMAIN Outcome \cup {"create"} => q.plan \in Plans
  /\ q.op \in {"create", "apply"} => q.new = Wants[q.plan]
  /\ q.op = "edit" => \E s \in Settings : DOMAIN q.new = {s}
  /\ q.op = "reject" => q.new = Empty

(* The draft that it works on is there, and an apply still writes, or has  *)
(* locked, every setting that its plan changes.                            *)
Planned(p, q) ==
  \A s \in Reach(p) :
    s \in Months \/ plans[p].before[s] # Wants[p][s] => s \in q.held \cup q.todo
Ground(q) ==
  /\ q.op = "create" => plans[q.plan].status = "none"
  /\ q.op \in DOMAIN Outcome => plans[q.plan].status # "none"
  /\ q.op = "apply" /\ plans[q.plan].status # "deleted" => Planned(q.plan, q)

Rows ==
  /\ settings \in Kept
  /\ DOMAIN plans = Plans
  /\ \A p \in Plans :
       /\ plans[p] = [status |-> plans[p].status, before |-> plans[p].before]
       /\ plans[p].status \in Statuses
       /\ plans[p].before \in [Reach(p) -> Values \cup {Missing}]
  /\ expired \subseteq Plans
  /\ executions \in [Plans -> [apply : Nat, undo : Nat]]

Running ==
  /\ DOMAIN requests = Requests
  /\ \A r \in Requests : Shape(requests[r]) /\ Ground(requests[r])
DraftedOnce ==
  \A q, r \in Requests :
    q # r /\ requests[q].op = "create" => requests[r].plan # requests[q].plan

Sound == Rows /\ Running /\ DraftedOnce

-----------------------------------------------------------------------------
LEMMA IdleShape == Shape(Idle) /\ Ground(Idle) /\ Idle.op = "idle" /\ Idle.plan = NoPlan
<1>1. Shape(Idle)
  BY DEF Shape, Idle, Empty, Operations, Outcome
<1>. QED  BY <1>1 DEF Ground, Idle, Outcome

LEMMA SoundInit == ASSUME Init PROVE Sound
<1>1. Rows
  BY PlansAssumption DEF Init, Rows, Kept, NoDraft, Statuses, PlansAssumption, Reach
<1>2. Running /\ DraftedOnce
  BY IdleShape DEF Init, Running, DraftedOnce, Idle
<1>. QED  BY <1>1, <1>2 DEF Sound

(* One request changes, to something proper; the tables stay.              *)
LEMMA OneRequest ==
  ASSUME Sound, NEW r \in Requests, NEW q,
         requests' = [requests EXCEPT ![r] = q],
         Shape(q), Ground(q), UNCHANGED plans, Rows',
         q.op = "create" => \A x \in Requests : x # r => requests[x].plan # q.plan,
         \A x \in Requests : x # r /\ requests[x].op = "create" => q.plan # requests[x].plan
  PROVE  Sound'
<1>1. /\ DOMAIN requests' = Requests
      /\ \A x \in Requests : requests'[x] = IF x = r THEN q ELSE requests[x]
  BY DEF Sound, Running
<1>2. \A x \in Requests : Shape(requests'[x]) /\ Ground(requests'[x])
  BY <1>1 DEF Sound, Running
<1>3. Running'
  <2>1. ASSUME NEW x \in Requests PROVE Shape(requests[x])' /\ Ground(requests[x])'
    BY <1>2 DEF Shape, Ground, Planned
  <2>. QED  BY <2>1, <1>1 DEF Running
<1>4. DraftedOnce'
  BY <1>1 DEF Sound, DraftedOnce
<1>. QED  BY <1>3, <1>4 DEF Sound

LEMMA RowsStay ==
  ASSUME Rows, UNCHANGED <<settings, plans, expired, executions>>
  PROVE  Rows'
BY DEF Rows

LEMMA SoundClose ==
  ASSUME Sound, NEW r \in Requests, Close(r), UNCHANGED plans, Rows'
  PROVE  Sound'
<1>1. /\ requests' = [requests EXCEPT ![r] = Idle]
      /\ \A x \in Requests : requests[x].op = "create" => requests[x].plan # NoPlan
  BY PlansAssumption DEF Close, Sound, Running, Shape, PlansAssumption
<1>. QED  BY <1>1, IdleShape, OneRequest

(* A request opens on the rows of its snapshot.                            *)
Opened(op, plan, new) ==
  [op |-> op, plan |-> plan, seen |-> [s \in DOMAIN new |-> settings[s]], new |-> new,
   todo |-> {s \in DOMAIN new : Sends(new, s)}, held |-> {}]

LEMMA SoundOpen ==
  ASSUME Sound, NEW r \in Requests, NEW op \in Operations, NEW plan \in Plans \cup {NoPlan}, NEW new,
         Open(r, op, plan, new), DOMAIN new \subseteq Settings,
         new \in [DOMAIN new -> Values \cup {Missing}],
         op \in DOMAIN Outcome \cup {"create"} => plan \in Plans,
         op \in {"create", "apply"} => new = Wants[plan],
         op = "edit" => plan = NoPlan /\ \E s \in Settings : DOMAIN new = {s},
         op = "reject" => new = Empty,
         op = "create" => /\ plans[plan].status = "none"
                          /\ \A x \in Requests : requests[x].plan # plan,
         op # "create" /\ op # "edit" => plans[plan].status # "none",
         op = "apply" => Expected(plan)
  PROVE  Sound'
<1>. DEFINE q == Opened(op, plan, new)
<1>1. /\ DOMAIN q = {"op", "plan", "seen", "new", "todo", "held"}
      /\ q.op = op /\ q.plan = plan /\ q.new = new /\ q.held = {}
      /\ q.seen = [s \in DOMAIN new |-> settings[s]]
      /\ q.todo = {s \in DOMAIN new : Sends(new, s)}
  BY DEF Opened
<1>2. requests' = [requests EXCEPT ![r] = q] /\ UNCHANGED <<settings, plans, expired, executions>>
  BY DEF Open, Opened
<1>. HIDE DEF q
<1>3. q.seen \in [DOMAIN q.new -> Values \cup {Missing}]
  BY <1>1 DEF Sound, Rows, Kept
<1>4. Shape(q)
  BY <1>1, <1>3 DEF Shape
<1>5. ASSUME op = "apply" PROVE Planned(plan, q)
  <2>1. plan \in Plans /\ new = Wants[plan] /\ DOMAIN new = Reach(plan)
    BY <1>5 DEF Reach, Outcome
  <2>2. \A s \in Reach(plan) : settings[s] = plans[plan].before[s]
    BY <1>5, <2>1 DEF Expected, Reached
  <2>. QED  BY <1>1, <2>1, <2>2 DEF Planned, Sends
<1>6. Ground(q)
  BY <1>1, <1>5 DEF Ground, Outcome
<1>7. Rows'
  BY <1>2, RowsStay DEF Sound
<1>8. \A x \in Requests : x # r /\ requests[x].op = "create" => q.plan # requests[x].plan
  <2>1. ASSUME NEW x \in Requests, x # r, requests[x].op = "create"
        PROVE  requests[x].plan \in Plans /\ plans[requests[x].plan].status = "none"
    BY <2>1 DEF Sound, Running, Shape, Ground
  <2>. QED  BY <2>1, <1>1, PlansAssumption DEF PlansAssumption, Operations
<1>. QED  BY <1>1, <1>2, <1>4, <1>6, <1>7, <1>8, OneRequest

LEMMA NothingEmpty ==
  DOMAIN Empty = {} /\ Empty \in [DOMAIN Empty -> Values \cup {Missing}]
BY DEF Empty

LEMMA SoundStarts ==
  ASSUME Sound, NEW r \in Requests, Starts(r)
  PROVE  Sound'
<1>1. ASSUME NEW p \in Plans, CreateBegins(r, p) PROVE Sound'
  BY <1>1, SoundOpen, PlansAssumption DEF CreateBegins, PlansAssumption, Reach, Operations, Outcome
<1>2. ASSUME NEW p \in Plans, ApplyBegins(r, p) PROVE Sound'
  BY <1>2, SoundOpen, PlansAssumption DEF ApplyBegins, PlansAssumption, Reach, Operations, Outcome
<1>3. ASSUME NEW p \in Plans, RejectBegins(r, p) PROVE Sound'
  BY <1>3, NothingEmpty, SoundOpen DEF RejectBegins, Operations, Outcome
<1>4. ASSUME NEW p \in Plans, UndoBegins(r, p) PROVE Sound'
  <2>1. /\ Restored(p) \in [Reach(p) -> Values \cup {Missing}] /\ Reach(p) \subseteq Settings
        /\ DOMAIN Restored(p) = Reach(p)
    BY PlansAssumption DEF Sound, Rows, Restored, PlansAssumption
  <2>. QED  BY <1>4, <2>1, SoundOpen DEF UndoBegins, Operations, Outcome
<1>5. ASSUME NEW s \in Settings, NEW value \in Values \cup {Missing}, EditBegins(r, s, value)
      PROVE  Sound'
  <2>1. DOMAIN [x \in {s} |-> value] = {s} /\ [x \in {s} |-> value] \in [{s} -> Values \cup {Missing}]
    OBVIOUS
  <2>2. NoPlan \in Plans \cup {NoPlan} /\ "edit" \in Operations
        /\ "edit" \notin DOMAIN Outcome \cup {"create", "apply", "reject"}
    BY DEF Operations, Outcome
  <2>. DEFINE new == [x \in {s} |-> value]
  <2>3. Open(r, "edit", NoPlan, new)
    BY <1>5 DEF EditBegins
  <2>. HIDE DEF new
  <2>4. DOMAIN new = {s} /\ new \in [DOMAIN new -> Values \cup {Missing}]
    BY <2>1 DEF new
  <2>. QED  BY <2>2, <2>3, <2>4, SoundOpen
<1>. QED  BY <1>1, <1>2, <1>3, <1>4, <1>5 DEF Starts

-----------------------------------------------------------------------------
LEMMA SoundWrite ==
  ASSUME Sound, NEW r \in Requests, NEW s \in Settings, Write(r, s)
  PROVE  Sound'
<1>. DEFINE q == [requests[r] EXCEPT !.todo = @ \ {s}, !.held = @ \cup {s}]
<1>1. /\ requests' = [requests EXCEPT ![r] = q]
      /\ UNCHANGED <<settings, plans, expired, executions>>
      /\ s \in requests[r].todo
  BY DEF Write, Row
<1>2. Shape(requests[r]) /\ Ground(requests[r])
  BY DEF Sound, Running
<1>3. /\ DOMAIN q = {"op", "plan", "seen", "new", "todo", "held"}
      /\ q.op = requests[r].op /\ q.plan = requests[r].plan
      /\ q.seen = requests[r].seen /\ q.new = requests[r].new
      /\ q.todo = requests[r].todo \ {s} /\ q.held = requests[r].held \cup {s}
  <2>1. DOMAIN requests[r] = {"op", "plan", "seen", "new", "todo", "held"}
    BY <1>2 DEF Shape
  <2>. QED  BY <2>1
<1>. HIDE DEF q
<1>6. Shape(q)
  BY <1>1, <1>2, <1>3 DEF Shape
<1>7. Ground(q)
  BY <1>2, <1>3 DEF Ground, Planned
<1>8. Rows'
  BY <1>1, RowsStay DEF Sound
<1>9. /\ q.op = "create" => \A x \in Requests : x # r => requests[x].plan # q.plan
      /\ \A x \in Requests : x # r /\ requests[x].op = "create" => q.plan # requests[x].plan
  BY <1>3 DEF Sound, DraftedOnce
<1>. QED  BY <1>1, <1>6, <1>7, <1>8, <1>9, OneRequest

(* What a request wrote is a state of the settings.                        *)
LEMMA WrittenKept ==
  ASSUME Sound, NEW r \in Requests
  PROVE  Written(r) \in Kept
BY DEF Sound, Rows, Kept, Running, Shape, Written

LEMMA SoundFails ==
  ASSUME Sound, NEW r \in Requests, Close(r), UNCHANGED <<settings, plans, expired, executions>>
  PROVE  Sound'
BY SoundClose, RowsStay DEF Sound

LEMMA SoundEdit ==
  ASSUME Sound, NEW r \in Requests, EditCommits(r)
  PROVE  Sound'
<1>1. Rows'
  BY WrittenKept DEF EditCommits, Sound, Rows
<1>. QED  BY <1>1, SoundClose DEF EditCommits

(* A plan changes while one request ends or none does.  The plan is in no  *)
(* other transaction that drafts it, and stays drafted.                    *)
LEMMA OnePlan ==
  ASSUME Sound, NEW p \in Plans, NEW d,
         d = [status |-> d.status, before |-> d.before],
         d.status \in Statuses \ {"none"}, d.before \in [Reach(p) -> Values \cup {Missing}],
         plans' = [plans EXCEPT ![p] = d],
         settings' \in Kept, expired' \subseteq Plans,
         executions' \in [Plans -> [apply : Nat, undo : Nat]],
         \/ requests' = requests
         \/ \E r \in Requests : requests' = [requests EXCEPT ![r] = Idle],
         \A x \in Requests : requests'[x].op = "create" => requests'[x].plan # p,
         \/ d.status = "deleted"
         \/ d.before = plans[p].before /\ plans[p].status # "deleted"
         \/ plans[p].status = "none"
  PROVE  Sound'
<1>1. \A x \in Plans : plans'[x] = IF x = p THEN d ELSE plans[x]
  BY DEF Sound, Rows
<1>2. Rows'
  BY <1>1 DEF Sound, Rows
<1>3. /\ DOMAIN requests' = Requests
      /\ \A x \in Requests : requests'[x] = requests[x] \/ requests'[x] = Idle
  BY DEF Sound, Running
<1>4. ASSUME NEW x \in Requests PROVE Shape(requests[x])' /\ Ground(requests[x])'
  <2>1. CASE requests'[x] = Idle
    <3>1. Idle.op = "idle" /\ "idle" \notin DOMAIN Outcome
      BY DEF Idle, Outcome
    <3>. QED  BY <2>1, <3>1, IdleShape DEF Shape, Ground
  <2>2. CASE requests'[x] = requests[x]
    <3>1. Shape(requests[x]) /\ Ground(requests[x]) /\ Shape(requests[x])'
      BY <2>2 DEF Sound, Running, Shape
    <3>2. requests[x].op = "create" => plans'[requests[x].plan].status = "none"
      BY <1>1, <2>2, <3>1 DEF Ground, Shape
    <3>3. requests[x].op \in DOMAIN Outcome => plans'[requests[x].plan].status # "none"
      BY <1>1, <3>1 DEF Ground, Shape
    <3>4. ASSUME requests[x].op = "apply", plans'[requests[x].plan].status # "deleted"
          PROVE  Planned(requests[x].plan, requests[x])'
      <4>1. /\ requests[x].plan \in Plans /\ plans[requests[x].plan].status # "none"
            /\ plans[requests[x].plan].status # "deleted" => Planned(requests[x].plan, requests[x])
        BY <3>1, <3>4 DEF Ground, Shape, Outcome
      <4>2. /\ plans[requests[x].plan].status # "deleted"
            /\ plans'[requests[x].plan].before = plans[requests[x].plan].before
        BY <1>1, <3>4, <4>1
      <4>. QED  BY <2>2, <4>1, <4>2 DEF Planned
    <3>. QED  BY <2>2, <3>1, <3>2, <3>3, <3>4 DEF Ground
  <2>. QED  BY <1>3, <2>1, <2>2
<1>5. DraftedOnce'
  <2>1. ASSUME NEW q \in Requests, NEW x \in Requests, q # x, requests'[q].op = "create"
        PROVE  requests'[x].plan # requests'[q].plan
    <3>1. requests'[q] = requests[q] /\ requests[q].plan \in Plans
      BY <1>3, <2>1, IdleShape DEF Sound, Running, Shape
    <3>2. requests[x].plan # requests[q].plan
      BY <2>1, <3>1 DEF Sound, DraftedOnce
    <3>. QED  BY <1>3, <3>1, <3>2, IdleShape, PlansAssumption DEF PlansAssumption
  <2>. QED  BY <2>1 DEF DraftedOnce
<1>. QED  BY <1>2, <1>3, <1>4, <1>5 DEF Sound, Running

LEMMA SoundCreate ==
  ASSUME Sound, NEW r \in Requests, CreateCommits(r)
  PROVE  Sound'
<1>. DEFINE p == requests[r].plan
            d == [status |-> "draft", before |-> requests[r].seen]
<1>1. /\ p \in Plans /\ plans[p].status = "none" /\ requests[r].new = Wants[p]
      /\ requests[r].seen \in [Reach(p) -> Values \cup {Missing}]
  BY DEF CreateCommits, Sound, Running, Shape, Ground, Reach
<1>2. /\ plans' = [plans EXCEPT ![p] = d] /\ requests' = [requests EXCEPT ![r] = Idle]
      /\ UNCHANGED <<settings, expired, executions>>
  BY DEF CreateCommits, Close
<1>3. /\ d = [status |-> d.status, before |-> d.before]
      /\ d.status \in Statuses \ {"none"} /\ d.before \in [Reach(p) -> Values \cup {Missing}]
  BY <1>1 DEF Statuses
<1>4. settings' \in Kept /\ expired' \subseteq Plans /\ executions' \in [Plans -> [apply : Nat, undo : Nat]]
  BY <1>2 DEF Sound, Rows
<1>5. ASSUME NEW x \in Requests, requests'[x].op = "create" PROVE requests'[x].plan # p
  <2>1. x # r /\ requests'[x] = requests[x]
    BY <1>2, <1>5, IdleShape DEF Sound, Running
  <2>. QED  BY <1>5, <2>1 DEF CreateCommits, Sound, DraftedOnce
<1>. HIDE DEF p, d
<1>. QED  BY <1>1, <1>2, <1>3, <1>4, <1>5, OnePlan

LEMMA SoundDecide ==
  ASSUME Sound, NEW r \in Requests, Decide(r)
  PROVE  Sound'
<1>. DEFINE p == requests[r].plan
            op == requests[r].op
            d == [plans[p] EXCEPT !.status = Outcome[op]]
<1>1. /\ p \in Plans /\ op \in DOMAIN Outcome /\ plans[p].status # "deleted"
      /\ plans[p].status # "none"
  BY DEF Decide, Sound, Running, Shape, Ground
<1>2. /\ plans' = [plans EXCEPT ![p] = d] /\ requests' = [requests EXCEPT ![r] = Idle]
      /\ settings' = Written(r) /\ executions' = Counted(p, op) /\ UNCHANGED expired
  BY DEF Decide, Close
<1>3. /\ d = [status |-> d.status, before |-> d.before]
      /\ d.status \in Statuses \ {"none"} /\ d.before \in [Reach(p) -> Values \cup {Missing}]
      /\ d.before = plans[p].before
  <2>1. plans[p] = [status |-> plans[p].status, before |-> plans[p].before]
        /\ plans[p].before \in [Reach(p) -> Values \cup {Missing}]
    BY <1>1 DEF Sound, Rows
  <2>2. d = [status |-> Outcome[op], before |-> plans[p].before]
    BY <2>1
  <2>3. Outcome[op] \in Statuses \ {"none"}
    BY <1>1 DEF Outcome, Statuses
  <2>. QED  BY <2>1, <2>2, <2>3
<1>4. executions' \in [Plans -> [apply : Nat, undo : Nat]]
  BY <1>1, <1>2 DEF Sound, Rows, Counted, Outcome
<1>5. settings' \in Kept /\ expired' \subseteq Plans
  BY <1>2, WrittenKept DEF Sound, Rows
<1>6. ASSUME NEW x \in Requests, requests'[x].op = "create" PROVE requests'[x].plan # p
  <2>1. x # r /\ requests'[x] = requests[x]
    BY <1>2, <1>6, IdleShape DEF Sound, Running
  <2>. QED  BY <1>1, <1>6, <2>1 DEF Sound, Running, Shape, Ground
<1>. HIDE DEF p, d, op
<1>. QED  BY <1>1, <1>2, <1>3, <1>4, <1>5, <1>6, OnePlan

LEMMA SoundDelete ==
  ASSUME Sound, NEW p \in Plans, DeleteConversation(p)
  PROVE  Sound'
<1>. DEFINE d == [NoDraft(p) EXCEPT !.status = "deleted"]
<1>1. /\ plans' = [plans EXCEPT ![p] = d] /\ UNCHANGED <<settings, requests>>
      /\ executions' = [executions EXCEPT ![p] = [apply |-> 0, undo |-> 0]]
      /\ expired' = expired \ {p} /\ plans[p].status # "none"
  BY DEF DeleteConversation
<1>2. /\ d = [status |-> d.status, before |-> d.before] /\ d.status = "deleted"
      /\ d.before \in [Reach(p) -> Values \cup {Missing}]
  BY DEF NoDraft
<1>3. /\ settings' \in Kept /\ expired' \subseteq Plans
      /\ executions' \in [Plans -> [apply : Nat, undo : Nat]]
  BY <1>1 DEF Sound, Rows
<1>4. \A x \in Requests : requests'[x].op = "create" => requests'[x].plan # p
  BY <1>1 DEF Sound, Running, Ground
<1>. HIDE DEF d
<1>. QED  BY <1>1, <1>2, <1>3, <1>4, OnePlan DEF Statuses

LEMMA SoundExpire ==
  ASSUME Sound, NEW p \in Plans, Expire(p)
  PROVE  Sound'
<1>1. Rows'
  BY DEF Expire, Sound, Rows
<1>2. Running' /\ DraftedOnce'
  BY DEF Expire, Sound, Running, DraftedOnce, Shape, Ground, Planned
<1>. QED  BY <1>1, <1>2 DEF Sound

LEMMA SoundNext == ASSUME Sound, [Next]_vars PROVE Sound'
<1>1. ASSUME NEW r \in Requests, Starts(r) PROVE Sound'
  BY <1>1, SoundStarts
<1>2. ASSUME NEW r \in Requests, Advances(r) PROVE Sound'
  <2>1. ASSUME NEW s \in Settings, Write(r, s) \/ WriteFails(r, s) \/ GiveUp(r, s) PROVE Sound'
    BY <2>1, SoundWrite, SoundFails DEF WriteFails, GiveUp
  <2>. QED  BY <1>2, <2>1, SoundCreate, SoundDecide, SoundFails, SoundEdit DEF Advances, DecideFails
<1>3. ASSUME NEW r \in Requests, Abandon(r) PROVE Sound'
  BY <1>3, SoundFails DEF Abandon
<1>4. ASSUME UNCHANGED vars PROVE Sound'
  BY <1>4 DEF vars, Sound, Rows, Running, DraftedOnce, Shape, Ground, Planned
<1>. QED  BY <1>1, <1>2, <1>3, <1>4, SoundExpire, SoundDelete DEF Next

LEMMA SoundTyped == ASSUME Sound PROVE TypeOK
BY DEF Sound, Rows, Running, Shape, TypeOK

(* The tables, the open transactions and the plans they work on keep their *)
(* types whatever overlaps.                                                *)
THEOREM TypeCorrect == Spec => []TypeOK
BY SoundInit, SoundNext, SoundTyped, PTL DEF Spec

(* Only Decide makes a plan applied, and it writes all it holds.           *)
LEMMA WholeStep ==
  ASSUME Sound, [Next]_vars, NEW p \in Plans,
         plans[p].status # "applied", plans'[p].status = "applied", NEW s \in Reach(p),
         s \in Months \/ plans[p].before[s] # Wants[p][s]
  PROVE  settings'[s] = Wants[p][s]
<1>1. ASSUME NEW r \in Requests, Decide(r) PROVE settings'[s] = Wants[p][s]
  <2>1. /\ requests[r].plan \in Plans /\ requests[r].op \in DOMAIN Outcome
        /\ plans[requests[r].plan].status # "deleted"
    BY <1>1 DEF Decide, Sound, Running, Shape
  <2>2. requests[r].plan = p /\ Outcome[requests[r].op] = "applied"
    <3>1. plans' = [plans EXCEPT ![requests[r].plan].status = Outcome[requests[r].op]]
      BY <1>1 DEF Decide
    <3>. QED  BY <2>1, <3>1 DEF Sound, Rows
  <2>3. requests[r].op = "apply"
    BY <2>1, <2>2 DEF Outcome
  <2>4. requests[r].new = Wants[p] /\ s \in requests[r].held
    BY <1>1, <2>1, <2>2, <2>3 DEF Sound, Running, Shape, Ground, Planned, Decide, Waiting
  <2>5. s \in Settings
    BY PlansAssumption DEF PlansAssumption
  <2>. QED  BY <1>1, <2>4, <2>5 DEF Decide, Written
<1>2. ASSUME NEW r \in Requests, CreateCommits(r) PROVE FALSE
  <2>1. plans' = [plans EXCEPT ![requests[r].plan] = [status |-> "draft", before |-> requests[r].seen]]
    BY <1>2 DEF CreateCommits
  <2>. QED  BY <2>1 DEF Sound, Rows
<1>3. ASSUME NEW q \in Plans, DeleteConversation(q) PROVE FALSE
  <2>1. plans' = [plans EXCEPT ![q] = [NoDraft(q) EXCEPT !.status = "deleted"]]
    BY <1>3 DEF DeleteConversation
  <2>. QED  BY <2>1 DEF Sound, Rows, NoDraft
<1>4. plans' # plans
  OBVIOUS
<1>. QED
  BY <1>1, <1>2, <1>3, <1>4 DEF Next, Starts, Advances, CreateBegins, ApplyBegins, RejectBegins,
     UndoBegins, EditBegins, Open, Write, WriteFails, GiveUp, Abandon, DecideFails, EditCommits,
     Expire, vars

(* A plan is applied whole or not at all: when its status becomes applied, *)
(* every setting it changes has the wanted value, however requests         *)
(* overlap, fail and die (advisor_actions.py:659-692).                     *)
THEOREM PlansAreWhole == Spec => NoPartOfAPlan
<1>1. ASSUME Sound, [Next]_vars
      PROVE  [\A p \in Plans :
                plans[p].status # "applied" /\ plans'[p].status = "applied"
                  => \A s \in Reach(p) : s \in Months \/ plans[p].before[s] # Wants[p][s]
                                           => settings'[s] = Wants[p][s]]_vars
  BY <1>1, WholeStep
<1>. QED  BY <1>1, SoundInit, SoundNext, PTL DEF Spec, NoPartOfAPlan

-----------------------------------------------------------------------------
(* Polite requests.  What a request saw stays true until it commits: the   *)
(* status of its plan, unless the plan is deleted, and the settings it     *)
(* reaches; what it does not have to write already is as it wants it.      *)
Faithful(q, view, drafts) ==
  /\ q.op = "create" => q.seen = Reached(q.plan, view)
  /\ q.op \in {"apply", "reject"} => drafts[q.plan].status \in {"draft", "deleted"}
  /\ q.op = "undo" => drafts[q.plan].status \in {"applied", "deleted"}
  /\ q.op = "apply" /\ drafts[q.plan].status = "draft" =>
       Reached(q.plan, view) = drafts[q.plan].before
  /\ q.op = "undo" /\ drafts[q.plan].status = "applied" =>
       /\ Reached(q.plan, view) = Wants[q.plan]
       /\ q.new = drafts[q.plan].before
  /\ \A s \in DOMAIN q.new : s \in q.held \cup q.todo \/ view[s] = q.new[s]
Trusted == \A r \in Requests : Faithful(requests[r], settings, plans)

Steady == Sound /\ Polite /\ Trusted /\ HistoryAgrees

LEMMA IdleFaithful == ASSUME NEW view, NEW drafts PROVE Faithful(Idle, view, drafts)
<1>1. /\ DOMAIN Idle.new = {} /\ Idle.op = "idle"
  BY DEF Idle, Empty
<1>. QED  BY <1>1 DEF Faithful

LEMMA SteadyInit == ASSUME Init PROVE Steady
<1>1. /\ DOMAIN Idle.new = {} /\ Idle.plan = NoPlan
  BY DEF Idle, Empty
<1>2. Polite
  BY <1>1 DEF Init, Polite, Touched
<1>3. Trusted
  BY IdleFaithful DEF Init, Trusted
<1>4. HistoryAgrees
  BY DEF Init, HistoryAgrees, NoDraft
<1>. QED  BY <1>2, <1>3, <1>4, SoundInit DEF Steady

(* A request that has nothing to do with a step stays faithful.            *)
LEMMA Bystander ==
  ASSUME NEW q, NEW view, NEW view2, NEW drafts, NEW drafts2, Shape(q), Faithful(q, view, drafts),
         \A s \in DOMAIN q.new : view2[s] = view[s],
         \A p \in Plans : DOMAIN drafts[p].before = Reach(p),
         q.plan # NoPlan =>
           \/ drafts2[q.plan] = drafts[q.plan]
           \/ q.op # "create" /\ drafts2[q.plan].status = "deleted"
  PROVE  Faithful(q, view2, drafts2)
<1>1. q.op \in {"create", "apply", "reject", "undo"} => q.plan \in Plans /\ q.plan # NoPlan
  BY PlansAssumption DEF Shape, Outcome, PlansAssumption
<1>2. q.op \in {"create", "apply"} => Reach(q.plan) = DOMAIN q.new
  BY DEF Shape, Reach
<1>3. q.op \in {"create", "apply"} => Reached(q.plan, view2) = Reached(q.plan, view)
  BY <1>2 DEF Reached
<1>4. q.op = "create" => q.seen = Reached(q.plan, view2)
  BY <1>3 DEF Faithful
<1>5. /\ q.op \in {"apply", "reject"} => drafts2[q.plan].status \in {"draft", "deleted"}
      /\ q.op = "undo" => drafts2[q.plan].status \in {"applied", "deleted"}
  BY <1>1 DEF Faithful
<1>6. q.op = "apply" /\ drafts2[q.plan].status = "draft" =>
        Reached(q.plan, view2) = drafts2[q.plan].before
  BY <1>1, <1>3 DEF Faithful
<1>7. ASSUME q.op = "undo", drafts2[q.plan].status = "applied"
      PROVE  Reached(q.plan, view2) = Wants[q.plan] /\ q.new = drafts2[q.plan].before
  <2>1. drafts2[q.plan] = drafts[q.plan] /\ drafts[q.plan].status = "applied" /\ q.plan \in Plans
    BY <1>1, <1>7
  <2>2. Reached(q.plan, view) = Wants[q.plan] /\ q.new = drafts[q.plan].before
    BY <1>7, <2>1 DEF Faithful
  <2>3. DOMAIN q.new = Reach(q.plan)
    BY <2>1, <2>2
  <2>4. Reached(q.plan, view2) = Reached(q.plan, view)
    BY <2>3 DEF Reached
  <2>. QED  BY <2>1, <2>2, <2>4
<1>8. \A s \in DOMAIN q.new : s \in q.held \cup q.todo \/ view2[s] = q.new[s]
  BY DEF Faithful
<1>. QED  BY <1>4, <1>5, <1>6, <1>7, <1>8 DEF Faithful

(* One request changes, the tables stay or change where only it may.       *)
LEMMA TrustedStep ==
  ASSUME Sound, Polite, Trusted, NEW r \in Requests, NEW q,
         requests' = [requests EXCEPT ![r] = q], Faithful(q, settings', plans'),
         \A s \in Settings \ Touched(r) : settings'[s] = settings[s],
         \A p \in Plans \ {requests[r].plan} : plans'[p] = plans[p]
  PROVE  Trusted'
<1>1. ASSUME NEW x \in Requests, x # r PROVE Faithful(requests'[x], settings', plans')
  <2>1. requests'[x] = requests[x] /\ Shape(requests[x]) /\ Faithful(requests[x], settings, plans)
    BY <1>1 DEF Sound, Running, Trusted
  <2>2. \A s \in DOMAIN requests[x].new : settings'[s] = settings[s]
    BY <1>1, <2>1 DEF Polite, Touched, Shape
  <2>3. requests[x].plan # NoPlan => plans'[requests[x].plan] = plans[requests[x].plan]
    BY <1>1, <2>1 DEF Polite, Shape
  <2>4. \A p \in Plans : DOMAIN plans[p].before = Reach(p)
    BY DEF Sound, Rows
  <2>. QED  BY <2>1, <2>2, <2>3, <2>4, Bystander
<1>2. requests'[r] = q
  BY DEF Sound, Running
<1>. QED  BY <1>1, <1>2 DEF Trusted

LEMMA TrustedClose ==
  ASSUME Sound, Polite, Trusted, NEW r \in Requests, Close(r),
         \A s \in Settings \ Touched(r) : settings'[s] = settings[s],
         \A p \in Plans \ {requests[r].plan} : plans'[p] = plans[p]
  PROVE  Trusted'
BY IdleFaithful, TrustedStep DEF Close

LEMMA TrustedOpen ==
  ASSUME Sound, Polite, Trusted, NEW r \in Requests, NEW op, NEW plan, NEW new,
         Open(r, op, plan, new),
         op = "create" => DOMAIN new = Reach(plan),
         op \in {"apply", "reject"} => plans[plan].status = "draft",
         op = "apply" => Expected(plan),
         op = "undo" => /\ plans[plan].status = "applied"
                        /\ Reached(plan, settings) = Wants[plan]
                        /\ new = plans[plan].before
  PROVE  Trusted'
<1>. DEFINE q == Opened(op, plan, new)
<1>1. /\ q.op = op /\ q.plan = plan /\ q.new = new
      /\ q.seen = [s \in DOMAIN new |-> settings[s]]
      /\ q.todo = {s \in DOMAIN new : Sends(new, s)}
  BY DEF Opened
<1>2. requests' = [requests EXCEPT ![r] = q] /\ settings' = settings /\ plans' = plans
  BY DEF Open, Opened
<1>. HIDE DEF q
<1>3. \A s \in DOMAIN q.new : s \in q.held \cup q.todo \/ settings[s] = q.new[s]
  BY <1>1 DEF Sends
<1>4. Faithful(q, settings, plans)
  BY <1>1, <1>3 DEF Faithful, Reached, Expected
<1>. QED  BY <1>2, <1>4, TrustedStep

LEMMA TrustedWrite ==
  ASSUME Sound, Polite, Trusted, NEW r \in Requests, NEW s \in Settings, Write(r, s)
  PROVE  Trusted'
<1>. DEFINE q == [requests[r] EXCEPT !.todo = @ \ {s}, !.held = @ \cup {s}]
<1>1. /\ requests' = [requests EXCEPT ![r] = q] /\ settings' = settings /\ plans' = plans
  BY DEF Write
<1>2. /\ q.op = requests[r].op /\ q.plan = requests[r].plan
      /\ q.seen = requests[r].seen /\ q.new = requests[r].new
      /\ q.todo = requests[r].todo \ {s} /\ q.held = requests[r].held \cup {s}
  BY DEF Sound, Running, Shape
<1>. HIDE DEF q
<1>3. Faithful(requests[r], settings, plans)
  BY DEF Trusted
<1>4. Faithful(q, settings, plans)
  BY <1>2, <1>3 DEF Faithful
<1>. QED  BY <1>1, <1>4, TrustedStep

(* What a request writes, and the status it leaves.                        *)
LEMMA WritesOnlyTouched ==
  ASSUME Sound, NEW r \in Requests, settings' = Written(r)
  PROVE  \A s \in Settings \ Touched(r) : settings'[s] = settings[s]
BY DEF Sound, Running, Shape, Written, Touched

LEMMA SteadyStarts ==
  ASSUME Steady, NEW r \in Requests, Starts(r)
  PROVE  Trusted' /\ HistoryAgrees'
<1>. USE DEF Steady
<1>1. ASSUME NEW p \in Plans, CreateBegins(r, p) PROVE Trusted'
  BY <1>1, TrustedOpen DEF CreateBegins, Reach
<1>2. ASSUME NEW p \in Plans, ApplyBegins(r, p) PROVE Trusted'
  BY <1>2, TrustedOpen DEF ApplyBegins
<1>3. ASSUME NEW p \in Plans, RejectBegins(r, p) PROVE Trusted'
  BY <1>3, TrustedOpen DEF RejectBegins
<1>4. ASSUME NEW p \in Plans, UndoBegins(r, p) PROVE Trusted'
  BY <1>4, TrustedOpen DEF UndoBegins, Restored
<1>5. ASSUME NEW s \in Settings, NEW value \in Values \cup {Missing}, EditBegins(r, s, value)
      PROVE  Trusted'
  BY <1>5, TrustedOpen DEF EditBegins
<1>6. HistoryAgrees'
  BY DEF Starts, CreateBegins, ApplyBegins, RejectBegins, UndoBegins, EditBegins, Open, HistoryAgrees
<1>. QED  BY <1>1, <1>2, <1>3, <1>4, <1>5, <1>6 DEF Starts

LEMMA SteadyFails ==
  ASSUME Steady, NEW r \in Requests, Close(r), UNCHANGED <<settings, plans, expired, executions>>
  PROVE  Trusted' /\ HistoryAgrees'
BY TrustedClose DEF Steady, HistoryAgrees

LEMMA SteadyEdit ==
  ASSUME Steady, NEW r \in Requests, EditCommits(r)
  PROVE  Trusted' /\ HistoryAgrees'
BY TrustedClose, WritesOnlyTouched DEF Steady, HistoryAgrees, EditCommits

LEMMA SteadyCreate ==
  ASSUME Steady, NEW r \in Requests, CreateCommits(r)
  PROVE  Trusted' /\ HistoryAgrees'
<1>. DEFINE p == requests[r].plan
<1>1. /\ p \in Plans /\ plans[p].status = "none"
      /\ plans' = [plans EXCEPT ![p] = [status |-> "draft", before |-> requests[r].seen]]
      /\ settings' = settings /\ executions' = executions /\ Close(r)
  BY DEF CreateCommits, Steady, Sound, Running, Shape, Ground
<1>2. \A x \in Plans : plans'[x] = IF x = p THEN [status |-> "draft", before |-> requests[r].seen]
                                             ELSE plans[x]
  BY <1>1 DEF Steady, Sound, Rows
<1>3. Trusted'
  BY <1>1, <1>2, TrustedClose DEF Steady
<1>4. HistoryAgrees'
  BY <1>1, <1>2 DEF Steady, HistoryAgrees
<1>. QED  BY <1>3, <1>4

(* A decision is made on the plan as it was when the request began.        *)
LEMMA DecidedInTime ==
  ASSUME Steady, NEW r \in Requests, Decide(r)
  PROVE  /\ requests[r].plan \in Plans
         /\ \/ /\ requests[r].op = "apply" /\ plans[requests[r].plan].status = "draft"
               /\ plans' = [plans EXCEPT ![requests[r].plan].status = "applied"]
            \/ /\ requests[r].op = "reject" /\ plans[requests[r].plan].status = "draft"
               /\ plans' = [plans EXCEPT ![requests[r].plan].status = "rejected"]
            \/ /\ requests[r].op = "undo" /\ plans[requests[r].plan].status = "applied"
               /\ plans' = [plans EXCEPT ![requests[r].plan].status = "undone"]
<1>1. /\ requests[r].op \in {"apply", "reject", "undo"} /\ requests[r].plan \in Plans
      /\ plans[requests[r].plan].status # "deleted"
  BY DEF Decide, Steady, Sound, Running, Shape, Outcome
<1>2. Faithful(requests[r], settings, plans)
  BY DEF Steady, Trusted
<1>3. /\ requests[r].op \in {"apply", "reject"} => plans[requests[r].plan].status = "draft"
      /\ requests[r].op = "undo" => plans[requests[r].plan].status = "applied"
  BY <1>1, <1>2 DEF Faithful
<1>4. plans' = [plans EXCEPT ![requests[r].plan].status = Outcome[requests[r].op]]
  BY DEF Decide
<1>5. Outcome["apply"] = "applied" /\ Outcome["reject"] = "rejected" /\ Outcome["undo"] = "undone"
  BY DEF Outcome
<1>. QED  BY <1>1, <1>3, <1>4, <1>5

LEMMA SteadyDecide ==
  ASSUME Steady, NEW r \in Requests, Decide(r)
  PROVE  Trusted' /\ HistoryAgrees'
<1>. DEFINE p == requests[r].plan
            op == requests[r].op
<1>1. /\ p \in Plans /\ settings' = Written(r) /\ executions' = Counted(p, op) /\ Close(r)
      /\ plans' = [plans EXCEPT ![p].status = Outcome[op]]
  BY DecidedInTime DEF Decide
<1>2. \A x \in Plans \ {p} : plans'[x] = plans[x]
  BY <1>1 DEF Steady, Sound, Rows
<1>3. Trusted'
  BY <1>1, <1>2, TrustedClose, WritesOnlyTouched DEF Steady
<1>4. \/ op = "apply" /\ plans[p].status = "draft" /\ plans'[p].status = "applied"
      \/ op = "reject" /\ plans[p].status = "draft" /\ plans'[p].status = "rejected"
      \/ op = "undo" /\ plans[p].status = "applied" /\ plans'[p].status = "undone"
  <2>1. /\ p \in Plans /\ DOMAIN plans = Plans
        /\ plans[p] = [status |-> plans[p].status, before |-> plans[p].before]
    BY <1>1 DEF Steady, Sound, Rows
  <2>2. \A status : plans' = [plans EXCEPT ![p].status = status] => plans'[p].status = status
    BY <2>1
  <2>. QED  BY <2>2, DecidedInTime
<1>5. /\ executions \in [Plans -> [apply : Nat, undo : Nat]]
      /\ \A x \in Plans :
           /\ executions[x].apply = IF plans[x].status \in {"applied", "undone"} THEN 1 ELSE 0
           /\ executions[x].undo = IF plans[x].status = "undone" THEN 1 ELSE 0
  BY DEF Steady, Sound, Rows, HistoryAgrees
<1>. HIDE DEF p, op
<1>6. /\ \A x \in Plans \ {p} : executions'[x] = executions[x]
      /\ op = "apply" => executions'[p].apply = executions[p].apply + 1
                         /\ executions'[p].undo = executions[p].undo
      /\ op = "undo" => executions'[p].undo = executions[p].undo + 1
                        /\ executions'[p].apply = executions[p].apply
      /\ op = "reject" => executions'[p] = executions[p]
  BY <1>1, <1>5 DEF Counted
<1>7. HistoryAgrees'
  <2>1. ASSUME NEW x \in Plans \ {p}
        PROVE  /\ executions'[x].apply = IF plans'[x].status \in {"applied", "undone"} THEN 1 ELSE 0
               /\ executions'[x].undo = IF plans'[x].status = "undone" THEN 1 ELSE 0
    BY <1>2, <1>5, <1>6
  <2>2. /\ executions'[p].apply = IF plans'[p].status \in {"applied", "undone"} THEN 1 ELSE 0
        /\ executions'[p].undo = IF plans'[p].status = "undone" THEN 1 ELSE 0
    BY <1>1, <1>4, <1>5, <1>6
  <2>. QED  BY <2>1, <2>2 DEF HistoryAgrees
<1>. QED  BY <1>3, <1>7

LEMMA SteadyDelete ==
  ASSUME Steady, NEW p \in Plans, DeleteConversation(p)
  PROVE  Trusted' /\ HistoryAgrees'
<1>1. /\ plans' = [plans EXCEPT ![p] = [NoDraft(p) EXCEPT !.status = "deleted"]]
      /\ executions' = [executions EXCEPT ![p] = [apply |-> 0, undo |-> 0]]
      /\ settings' = settings /\ requests' = requests /\ plans[p].status # "none"
  BY DEF DeleteConversation
<1>2. /\ \A x \in Plans \ {p} : plans'[x] = plans[x]
      /\ plans'[p].status = "deleted"
  BY <1>1 DEF Steady, Sound, Rows, NoDraft
<1>3. ASSUME NEW x \in Requests PROVE Faithful(requests'[x], settings', plans')
  <2>1. /\ Shape(requests[x]) /\ Ground(requests[x]) /\ Faithful(requests[x], settings, plans)
        /\ \A q \in Plans : DOMAIN plans[q].before = Reach(q)
    BY DEF Steady, Sound, Rows, Running, Trusted
  <2>2. requests[x].plan = p => requests[x].op # "create"
    BY <1>1, <2>1 DEF Ground
  <2>3. requests[x].plan # NoPlan =>
          \/ plans'[requests[x].plan] = plans[requests[x].plan]
          \/ requests[x].op # "create" /\ plans'[requests[x].plan].status = "deleted"
    BY <1>2, <2>1, <2>2 DEF Shape
  <2>4. \A s \in DOMAIN requests[x].new : settings'[s] = settings[s]
    BY <1>1
  <2>5. Faithful(requests[x], settings', plans')
    BY <2>1, <2>3, <2>4, Bystander
  <2>. QED  BY <1>1, <2>5
<1>4. HistoryAgrees'
  <2>1. \A x \in Plans : executions'[x] = IF x = p THEN [apply |-> 0, undo |-> 0] ELSE executions[x]
    BY <1>1 DEF Steady, Sound, Rows
  <2>. QED  BY <1>2, <2>1 DEF Steady, HistoryAgrees
<1>. QED  BY <1>3, <1>4 DEF Trusted

LEMMA SteadyNext == ASSUME Steady, [Next /\ Polite']_vars PROVE Steady'
<1>1. Sound'
  BY SoundNext DEF Steady
<1>2. ASSUME UNCHANGED vars PROVE Steady'
  BY <1>1, <1>2 DEF vars, Steady, Polite, Touched, Trusted, HistoryAgrees
<1>3. ASSUME Next PROVE Trusted' /\ HistoryAgrees'
  <2>1. ASSUME NEW r \in Requests, Advances(r) PROVE Trusted' /\ HistoryAgrees'
    <3>1. ASSUME NEW s \in Settings, Write(r, s) PROVE Trusted' /\ HistoryAgrees'
      BY <3>1, TrustedWrite DEF Steady, Write, HistoryAgrees
    <3>2. ASSUME NEW s \in Settings, WriteFails(r, s) \/ GiveUp(r, s) PROVE Trusted' /\ HistoryAgrees'
      BY <3>2, SteadyFails DEF WriteFails, GiveUp
    <3>3. ASSUME DecideFails(r) PROVE Trusted' /\ HistoryAgrees'
      BY <3>3, SteadyFails DEF DecideFails
    <3>. QED  BY <2>1, <3>1, <3>2, <3>3, SteadyCreate, SteadyDecide, SteadyEdit DEF Advances
  <2>2. ASSUME NEW r \in Requests, Abandon(r) PROVE Trusted' /\ HistoryAgrees'
    BY <2>2, SteadyFails DEF Abandon
  <2>3. ASSUME NEW p \in Plans, Expire(p) PROVE Trusted' /\ HistoryAgrees'
    BY <2>3 DEF Expire, Steady, Trusted, HistoryAgrees
  <2>. QED  BY <1>3, <2>1, <2>2, <2>3, SteadyStarts, SteadyDelete DEF Next
<1>. QED  BY <1>1, <1>2, <1>3 DEF Steady

(* With one person who waits for the answers the execution history says    *)
(* what the status of each plan says (advisor_actions.py:677-735).         *)
THEOREM HistoryAlwaysAgrees == PoliteSpec => []HistoryAgrees
<1>1. Steady => HistoryAgrees
  BY DEF Steady
<1>. QED  BY <1>1, SteadyInit, SteadyNext, PTL DEF PoliteSpec

-----------------------------------------------------------------------------
(* Every step is one of the lifecycle or leaves plans and settings alone.  *)
LEMMA DecideMaps ==
  ASSUME Steady, NEW r \in Requests, Decide(r)
  PROVE  Lifecycle!Next
<1>. DEFINE p == requests[r].plan
            q == requests[r]
<1>1. /\ p \in Plans /\ settings' = Written(r) /\ q.todo = {}
      /\ settings \in Kept /\ DOMAIN settings = Settings
  BY DecidedInTime DEF Decide, Waiting, Steady, Sound, Rows, Kept
<1>2. Shape(q) /\ Faithful(q, settings, plans)
  BY DEF Steady, Sound, Running, Trusted
<1>3. settings' = Lifecycle!With(q.new)
  <2>1. ASSUME NEW s \in Settings
        PROVE  (IF s \in q.held THEN q.new[s] ELSE settings[s])
                 = (IF s \in DOMAIN q.new THEN q.new[s] ELSE settings[s])
    BY <1>1, <1>2 DEF Shape, Faithful
  <2>. QED  BY <1>1, <2>1 DEF Written, Lifecycle!With
<1>4. CASE q.op = "apply"
  <2>1. /\ plans[p].status = "draft" /\ plans' = [plans EXCEPT ![p].status = "applied"]
        /\ q.new = Wants[p] /\ Reached(p, settings) = plans[p].before
    BY <1>2, <1>4, DecidedInTime DEF Shape, Faithful
  <2>. QED  BY <1>1, <1>3, <2>1
            DEF Lifecycle!Next, Lifecycle!Apply, Lifecycle!Becomes, Lifecycle!Reached, Reached, Reach
<1>5. CASE q.op = "undo"
  <2>1. /\ plans[p].status = "applied" /\ plans' = [plans EXCEPT ![p].status = "undone"]
        /\ q.new = plans[p].before /\ Reached(p, settings) = Wants[p]
    BY <1>2, <1>5, DecidedInTime DEF Faithful
  <2>. QED  BY <1>1, <1>3, <2>1
            DEF Lifecycle!Next, Lifecycle!Undo, Lifecycle!Becomes, Lifecycle!Reached, Reached, Reach
<1>6. CASE q.op = "reject"
  <2>1. /\ plans[p].status = "draft" /\ plans' = [plans EXCEPT ![p].status = "rejected"]
        /\ DOMAIN q.new = {}
    BY <1>2, <1>6, NothingEmpty, DecidedInTime DEF Shape
  <2>2. settings' = settings
    BY <1>1, <1>3, <2>1 DEF Lifecycle!With, Kept
  <2>. QED  BY <1>1, <2>1, <2>2 DEF Lifecycle!Next, Lifecycle!Reject, Lifecycle!Becomes
<1>. QED  BY <1>4, <1>5, <1>6, DecidedInTime

LEMMA EditMaps ==
  ASSUME Steady, NEW r \in Requests, EditCommits(r)
  PROVE  Lifecycle!Next
<1>1. /\ Shape(requests[r]) /\ Faithful(requests[r], settings, plans)
      /\ requests[r].op = "edit" /\ requests[r].todo = {}
      /\ settings' = Written(r) /\ plans' = plans /\ settings \in Kept
  BY DEF Steady, Sound, Rows, Running, Trusted, EditCommits, Waiting
<1>2. PICK s \in Settings : DOMAIN requests[r].new = {s}
  BY <1>1 DEF Shape
<1>3. /\ requests[r].new[s] \in Values \cup {Missing}
      /\ settings' = [settings EXCEPT ![s] = requests[r].new[s]]
  <2>1. /\ requests[r].new[s] \in Values \cup {Missing}
        /\ requests[r].held \subseteq {s}
        /\ s \in requests[r].held \/ settings[s] = requests[r].new[s]
    BY <1>1, <1>2 DEF Shape, Faithful
  <2>. QED  BY <1>1, <2>1 DEF Written, Kept
<1>. QED  BY <1>1, <1>3 DEF Lifecycle!Next, Lifecycle!UserChanges

LEMMA CreateMaps ==
  ASSUME Steady, NEW r \in Requests, CreateCommits(r)
  PROVE  Lifecycle!Next
<1>1. /\ Shape(requests[r]) /\ Ground(requests[r]) /\ Faithful(requests[r], settings, plans)
      /\ requests[r].op = "create" /\ settings' = settings
      /\ plans' = [plans EXCEPT ![requests[r].plan] = [status |-> "draft", before |-> requests[r].seen]]
  BY DEF Steady, Sound, Running, Trusted, CreateCommits
<1>2. /\ requests[r].plan \in Plans /\ plans[requests[r].plan].status = "none"
      /\ requests[r].seen = Reached(requests[r].plan, settings)
  BY <1>1 DEF Shape, Ground, Faithful
<1>. QED  BY <1>1, <1>2 DEF Lifecycle!Next, Lifecycle!Propose, Lifecycle!Reached, Reached, Reach

LEMMA StepMaps ==
  ASSUME Steady, [Next /\ Polite']_vars
  PROVE  [Lifecycle!Next]_(Lifecycle!vars)
<1>1. ASSUME UNCHANGED <<settings, plans>> PROVE UNCHANGED Lifecycle!vars
  BY <1>1 DEF Lifecycle!vars
<1>2. ASSUME NEW p \in Plans, DeleteConversation(p) PROVE Lifecycle!Next
  BY <1>2 DEF DeleteConversation, NoDraft, Reach, Lifecycle!Next, Lifecycle!Forget, Lifecycle!NoDraft
<1>3. ASSUME NEW r \in Requests, Starts(r) \/ Abandon(r) PROVE UNCHANGED <<settings, plans>>
  BY <1>3 DEF Starts, CreateBegins, ApplyBegins, RejectBegins, UndoBegins, EditBegins, Open, Abandon
<1>4. ASSUME NEW r \in Requests, Advances(r)
      PROVE  Lifecycle!Next \/ UNCHANGED <<settings, plans>>
  BY <1>4, DecideMaps, EditMaps, CreateMaps DEF Advances, Write, WriteFails, GiveUp, DecideFails
<1>5. ASSUME NEW p \in Plans, Expire(p) PROVE UNCHANGED <<settings, plans>>
  BY <1>5 DEF Expire
<1>6. ASSUME UNCHANGED vars PROVE UNCHANGED <<settings, plans>>
  BY <1>6 DEF vars
<1>. QED  BY <1>1, <1>2, <1>3, <1>4, <1>5, <1>6 DEF Next

(* With one person who waits for the answers, row-by-row writes, refused   *)
(* and failing requests, deadlocks and restarts amount to a plan applied   *)
(* and undone in one step each, on the settings it was drafted for         *)
(* (advisor_actions.py:553-735).                                           *)
THEOREM PlansKeepTheirPromise == PoliteSpec => ImplementsLifecycle
<1>1. ASSUME Init PROVE Lifecycle!Init
  BY <1>1 DEF Init, Kept, NoDraft, Reach, Lifecycle!Init, Lifecycle!NoDraft
<1>. QED
  BY <1>1, SteadyInit, SteadyNext, StepMaps, PTL DEF PoliteSpec, ImplementsLifecycle, Lifecycle!Spec
=============================================================================
