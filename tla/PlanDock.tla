----------------------------- MODULE PlanDock ------------------------------
(***************************************************************************)
(* The dock that shows the plans under a conversation                      *)
(* (internal/tui/plan.go, with rememberWork of streams.go).  It is fed by  *)
(* the ledger's events, in their order, and by the copies of works that    *)
(* messages carry, which come early or late.  What it draws is cached.     *)
(***************************************************************************)
EXTENDS Integers, Sequences, FiniteSets, SequencesExt

CONSTANTS Plans,        \* Plans of the manager.
          Todos,        \* Lists of todos, each an agent's own plan.
          StepIds,
          Works,        \* Works, each assigned for one step.
          Reports,      \* What a work may report of its step.
          Lengths,      \* Lengths of a list of todos.
          Capacity,     \* Rows of steps the dock has room for.
          MaxChanges,   \* Bound: changes of the ledger.
          MaxMessages,  \* Bound: messages with a work on their way.
          MaxKeys       \* Bound: what the person does once the dock is focused.

None == "none"
Ids == Plans \cup Todos
Unseen == [rev |-> 0, steps |-> <<>>]
NoView == [plan |-> Unseen, expanded |-> TRUE, scroll |-> -1, selected |-> None, detail |-> None]

VARIABLES
  plans,       \* The ledger's plans and the agents' lists: [rev, steps].
  ledger,      \* The ledger's works: [rev, plan, step, open].
  events,      \* Its events on their way to the screen, in order.
  messages,    \* The copies of works on their way in messages.
  changes,     \* Bound.
  legacy,      \* The recording names only the steps that changed.
  views,       \* m.plans.views.
  order,       \* m.plans.order.
  active,      \* m.plans.active.
  generation,  \* m.plans.generation.
  cache,       \* m.plans.cacheKey, and what cache was drawn from.
  focused,     \* m.plans.focused: the dock has the keyboard.
  works,       \* m.streamUI.works.
  workOrder,   \* m.streamUI.workOrder.
  keys,        \* Bound.
  chosen       \* History: the plan the person has before them.

vars == <<plans, ledger, events, messages, changes, legacy, views, order, active, generation, cache,
          focused, works, workOrder, keys, chosen>>
ledgerVars == <<plans, ledger, events, changes, legacy>>
dockVars == <<views, order, active, generation, works, workOrder, chosen>>

NoWork == [rev |-> 0, plan |-> None, step |-> None, open |-> FALSE]
NoCache == [key |-> None, rows |-> None]

Init ==
  /\ plans = [p \in Ids |-> Unseen] /\ ledger = [w \in Works |-> NoWork] /\ events = <<>> /\ messages = {}
  /\ changes = 0 /\ legacy \in BOOLEAN
  /\ views = [p \in Ids |-> NoView] /\ order = <<>> /\ active = None /\ generation = 0 /\ cache = {}
  /\ focused = FALSE /\ works = [w \in Works |-> NoWork] /\ workOrder = <<>> /\ keys = 0 /\ chosen = None

-----------------------------------------------------------------------------
(* The plans as the dock reads them.                                       *)

Statuses == <<"blocked", "in_progress", "pending">>
Finished(p) == p.steps # <<>> /\ \A i \in DOMAIN p.steps : p.steps[i].status \in {"completed", "cancelled"}

\* planCursor: the step that was chosen, or the one the work is at.
Cursor(plan, selected) ==
  LET at(ok(_)) == {i \in DOMAIN plan.steps : ok(plan.steps[i])}
      first(S) == CHOOSE i \in S : \A j \in S : i <= j
      chosenRow == at(LAMBDA s : s.id = selected)
      live == {k \in DOMAIN Statuses : at(LAMBDA s : s.status = Statuses[k]) # {}}
  IN IF chosenRow # {} THEN first(chosenRow)
     ELSE IF live = {} THEN 1
     ELSE first(at(LAMBDA s : s.status = Statuses[first(live)]))

CursorStep(plan, selected) == IF plan.steps = <<>> THEN None ELSE plan.steps[Cursor(plan, selected)].id

\* planStepWork: the newest work for the step that is not finished, else the newest.
StepWork(ws, seen, p, s) ==
  LET its == {i \in DOMAIN seen : ws[seen[i]].plan = p /\ ws[seen[i]].step = s}
      live == {i \in its : ws[seen[i]].open}
      newest(S) == seen[CHOOSE i \in S : \A j \in S : j <= i]
  IN IF live # {} THEN newest(live) ELSE IF its # {} THEN newest(its) ELSE None

\* planLines: the row it starts at, and all that the rows are drawn from.
Start(v) ==
  LET n == IF v.detail = None THEN Len(v.plan.steps) ELSE 1
      row == IF v.detail = None THEN Cursor(v.plan, v.selected) - 1 ELSE 0
      last == IF n > Capacity THEN n - Capacity ELSE 0
      low == row - Capacity + 1
  IN IF v.scroll < 0 THEN IF low > 0 THEN low ELSE 0
     ELSE IF v.scroll < last THEN v.scroll ELSE last

Shown(v) == v.expanded /\ v.plan.steps # <<>>
Key(v, start) ==
  [scroll |-> start, generation |-> generation, active |-> active, selected |-> v.selected,
   detail |-> v.detail, expanded |-> v.expanded, focused |-> focused]
Rows(v, start) ==
  [plan |-> v.plan, count |-> Len(order), expanded |-> v.expanded, focused |-> focused, start |-> start,
   cursor |-> CursorStep(v.plan, v.selected), detail |-> v.detail,
   owners |-> [s \in StepIds |-> StepWork(works, workOrder, active, s)]]

-----------------------------------------------------------------------------
(* The ledger and the agents.  A report changes the status of a step and   *)
(* leaves the plan's revision alone; a list of todos replaces the last.    *)

StepSeqs == {q \in UNION {[1..n -> StepIds] : n \in 1..Cardinality(StepIds)} : IsInjective(q)}
Changing == changes < MaxChanges /\ changes' = changes + 1
Emit(e) == events' = Append(events, e) /\ UNCHANGED <<legacy, messages, cache, focused, keys, dockVars>>

IdsOf(plan) == {plan.steps[i].id : i \in DOMAIN plan.steps}
StepOf(plan, s) == plan.steps[CHOOSE i \in DOMAIN plan.steps : plan.steps[i].id = s]
Reserved(s) == \E w \in Works : ledger[w].open /\ ledger[w].step = s
Editable(p, s) == StepOf(plans[p], s).status # "completed" /\ ~Reserved(s)

\* UpdatePlan: new steps, cancelled ones, an order; none is ever removed.
Edit(p, q, cancel) ==
  LET old == IdsOf(plans[p])
      step(s) == IF s \notin old THEN [id |-> s, status |-> "pending"]
                 ELSE IF s \in cancel THEN [id |-> s, status |-> "cancelled"] ELSE StepOf(plans[p], s)
      new == [rev |-> plans[p].rev + 1, steps |-> [i \in DOMAIN q |-> step(q[i])]]
  IN /\ Changing /\ old \subseteq ToSet(q)
     /\ cancel \subseteq {s \in old : Editable(p, s)} /\ new.steps # plans[p].steps
     /\ plans' = [plans EXCEPT ![p] = new]
     /\ Emit([kind |-> "plan", id |-> p, plan |-> new, work |-> None])
     /\ UNCHANGED ledger

Assign(w, p, s) ==
  /\ Changing /\ ledger[w] = NoWork /\ s \in IdsOf(plans[p]) /\ Editable(p, s)
  /\ StepOf(plans[p], s).status # "cancelled"
  /\ ledger' = [ledger EXCEPT ![w] = [rev |-> 1, plan |-> p, step |-> s, open |-> TRUE]]
  /\ Emit([kind |-> "work", id |-> p, plan |-> Unseen, work |-> w, as |-> ledger'[w]])
  /\ UNCHANGED plans

\* ReportWorkProgress, or the verdict that completes the step.
Report(w, status) ==
  LET p == ledger[w].plan IN
  /\ Changing /\ ledger[w].open
  /\ \E i \in DOMAIN plans[p].steps :
       /\ plans[p].steps[i].id = ledger[w].step /\ plans[p].steps[i].status # status
       /\ plans' = [plans EXCEPT ![p].steps[i].status = status]
  /\ ledger' = [ledger EXCEPT ![w].rev = @ + 1, ![w].open = status # "completed"]
  /\ Emit([kind |-> "work", id |-> p, plan |-> IF legacy THEN Unseen ELSE plans'[p],
           step |-> [id |-> ledger[w].step, status |-> status], work |-> w, as |-> ledger'[w]])

\* Any of its steps may be done, and the list is numbered anew.
List(p, n, done) ==
  /\ Changing
  /\ LET ids == SetToSeq(StepIds)
         new == [rev |-> plans[p].rev + 1,
                 steps |-> [i \in 1..n |-> [id |-> ids[i], status |-> IF i <= done THEN "completed" ELSE "pending"]]]
     IN /\ new.steps # plans[p].steps /\ plans' = [plans EXCEPT ![p] = new]
        /\ Emit([kind |-> "todos", id |-> p, plan |-> new, work |-> None])
  /\ UNCHANGED ledger

\* The message about a work carries it as it was when it was sent.
Send(w) ==
  /\ ledger[w] # NoWork /\ [work |-> w, as |-> ledger[w]] \notin messages /\ Cardinality(messages) < MaxMessages
  /\ works[w].rev < ledger[w].rev
  /\ messages' = messages \cup {[work |-> w, as |-> ledger[w]]}
  /\ UNCHANGED <<ledgerVars, cache, focused, keys, dockVars>>

-----------------------------------------------------------------------------
(* What the screen makes of it.                                            *)

\* rememberPlan.
Remember(p, plan) ==
  LET v == views[p]
      first == p \notin ToSet(order)
      moved == v.selected = None /\ plan.steps # <<>>
               /\ (IF v.plan.steps = <<>> THEN None ELSE CursorStep(v.plan, None)) # CursorStep(plan, None)
      takes == first /\ (\/ active = None
                         \/ ~focused /\ p \in Plans /\ (active \in Todos \/ Finished(views[active].plan)))
  IN /\ views' = [views EXCEPT ![p] = IF moved THEN [@ EXCEPT !.plan = plan, !.scroll = -1, !.detail = None]
                                      ELSE [@ EXCEPT !.plan = plan]]
     /\ order' = IF first THEN Append(order, p) ELSE order
     /\ active' = IF takes THEN p ELSE active
     /\ chosen' = IF ~focused THEN active' ELSE chosen

Older(p, plan) == p \in ToSet(order) /\ views[p].plan.rev > plan.rev

\* rememberWork.
RememberWork(w, as) ==
  IF works[w].rev > as.rev THEN UNCHANGED <<works, workOrder>>
  ELSE /\ works' = [works EXCEPT ![w] = as]
       /\ workOrder' = IF w \in ToSet(workOrder) THEN workOrder ELSE Append(workOrder, w)

NewWork(w, as) == works[w].rev <= as.rev

\* observePlanEvent, and rememberWork of the event's work.  Older recordings
\* name only the step that changed.
PlanOf(e) ==
  IF e.plan # Unseen \/ e.kind # "work" THEN e.plan
  ELSE LET v == views[e.id].plan IN
       IF e.id \notin ToSet(order) \/ "step" \notin DOMAIN e \/ works[e.work].rev > e.as.rev THEN Unseen
       ELSE [v EXCEPT !.steps = [i \in DOMAIN v.steps |-> IF v.steps[i].id = e.step.id THEN e.step ELSE v.steps[i]]]

Observe ==
  /\ events # <<>> /\ events' = Tail(events)
  /\ LET e == Head(events)
         plan == IF e.kind = "todos" THEN [e.plan EXCEPT !.rev = views[e.id].plan.rev + 1] ELSE PlanOf(e)
         planned == (plan # Unseen \/ e.kind # "work") /\ ~Older(e.id, plan)
         worked == e.work # None /\ NewWork(e.work, e.as)
     IN /\ IF planned THEN Remember(e.id, plan) ELSE UNCHANGED <<views, order, active, chosen>>
        /\ IF e.work = None THEN UNCHANGED <<works, workOrder>> ELSE RememberWork(e.work, e.as)
        /\ generation' = generation + (IF planned THEN 1 ELSE 0) + (IF worked THEN 1 ELSE 0)
  /\ UNCHANGED <<plans, ledger, messages, changes, legacy, cache, focused, keys>>

Receive(m) ==
  /\ messages' = messages \ {m}
  /\ RememberWork(m.work, m.as)
  /\ generation' = generation + (IF NewWork(m.work, m.as) THEN 1 ELSE 0)
  /\ UNCHANGED <<ledgerVars, views, order, active, chosen, cache, focused, keys>>

\* planLines: the rows are drawn anew unless the key says they are the same.
Draw ==
  /\ active # None
  /\ LET v == views[active]
         start == IF Shown(v) THEN Start(v) ELSE v.scroll
     IN /\ ~\E c \in cache : c.key = Key(v, v.scroll)
        /\ cache' = {[key |-> Key(v, start), rows |-> Rows(v, start)]}
        /\ views' = [views EXCEPT ![active].scroll = start]
  /\ UNCHANGED <<ledgerVars, messages, order, active, generation, focused, works, workOrder, keys, chosen>>

-----------------------------------------------------------------------------
(* What the person does (planKey, planMouse, planCommand).                 *)

Handled == active # None /\ UNCHANGED <<ledgerVars, messages, order, generation, cache, works, workOrder>>
Step == Handled /\ keys < MaxKeys /\ keys' = keys + 1
InView(v) == views' = [views EXCEPT ![active] = v] /\ UNCHANGED active

\* ctrl+p, or a click on the header.
TogglePlan ==
  /\ Step /\ LET v == views[active] IN
     /\ InView([v EXCEPT !.expanded = ~@, !.detail = None, !.scroll = -1])
     /\ focused' = (focused /\ ~v.expanded)
  /\ UNCHANGED chosen
\* f8.
FocusPlan ==
  /\ Handled /\ focused' = ~focused /\ chosen' = active
  /\ IF focused THEN keys < MaxKeys /\ keys' = keys + 1 ELSE UNCHANGED keys
  /\ InView([views[active] EXCEPT !.expanded = @ \/ ~focused])
MoveStep(d) ==
  /\ Step /\ focused /\ views[active].plan.steps # <<>>
  /\ LET v == views[active]
         n == Len(v.plan.steps)
         i == Cursor(v.plan, v.selected) + d
     IN InView([v EXCEPT !.selected = v.plan.steps[IF i < 1 THEN 1 ELSE IF i > n THEN n ELSE i].id,
                         !.scroll = -1, !.detail = None])
  /\ UNCHANGED <<focused, chosen>>
\* [ and ], and a click on the last row, which needs no focus.
NextPlan(d) ==
  /\ Step /\ Len(order) > 1
  /\ LET i == CHOOSE j \in DOMAIN order : order[j] = active
     IN active' = order[((i - 1 + d + Len(order)) % Len(order)) + 1]
  /\ chosen' = active' /\ UNCHANGED <<views, focused>>
Page(d) ==
  /\ Step /\ focused /\ views[active].scroll + d <= Len(views[active].plan.steps)
  /\ LET at == views[active].scroll + d IN
     InView([views[active] EXCEPT !.scroll = IF d < 0 /\ at < 0 THEN 0 ELSE at])
  /\ UNCHANGED <<focused, chosen>>
\* enter: the details of the step, and back.
Open ==
  /\ Step /\ focused /\ views[active].plan.steps # <<>>
  /\ LET v == views[active]
         id == CursorStep(v.plan, v.selected)
     IN InView([v EXCEPT !.scroll = -1, !.detail = IF @ = id THEN None ELSE id])
  /\ UNCHANGED <<focused, chosen>>
Outline == Step /\ focused /\ InView([views[active] EXCEPT !.detail = None, !.scroll = -1]) /\ UNCHANGED <<focused, chosen>>
\* A click on a row of the dock as it is drawn.
Click(s) ==
  /\ Step /\ Shown(views[active]) /\ \E i \in DOMAIN views[active].plan.steps : views[active].plan.steps[i].id = s
  /\ InView([views[active] EXCEPT !.selected = s, !.scroll = -1, !.detail = IF @ = s THEN None ELSE s])
  /\ UNCHANGED <<focused, chosen>>
\* /plan id.
PlanCommand(p) ==
  /\ Step /\ p \in ToSet(order) /\ active' = p /\ chosen' = p /\ focused' = TRUE
  /\ views' = [views EXCEPT ![p].expanded = TRUE]

Next ==
  \/ \E p \in Plans, q \in StepSeqs, cancel \in SUBSET StepIds : Edit(p, q, cancel)
  \/ \E p \in Todos, n \in Lengths, done \in 0..Cardinality(StepIds) : done <= n /\ List(p, n, done)
  \/ \E w \in Works, p \in Plans, s \in StepIds : Assign(w, p, s)
  \/ \E w \in Works, st \in Reports : Report(w, st)
  \/ \E w \in Works : Send(w)
  \/ Observe \/ (\E m \in messages : Receive(m)) \/ Draw
  \/ TogglePlan \/ FocusPlan \/ Open \/ Outline
  \/ \E d \in {-1, 1} : MoveStep(d) \/ NextPlan(d) \/ Page(d)
  \/ \E s \in StepIds : Click(s)
  \/ \E p \in Ids : PlanCommand(p)

Spec == Init /\ [][Next]_vars

-----------------------------------------------------------------------------
\* The cached rows are used only while they are what would be drawn anew:
\* whatever the rows depend on is in the key, or moves its generation.
CacheIsCurrent ==
  active # None =>
    \A c \in cache : c.key = Key(views[active], views[active].scroll)
                     => c.rows = Rows(views[active], views[active].scroll)

\* Whatever came early or late: when all of it has come, the dock shows the
\* plans and the works as the ledger has them (the revisions' checks, and the
\* older recordings' steps).
DockShowsTheLedger ==
  /\ \A w \in Works : works[w].rev <= ledger[w].rev
  /\ events = <<>> =>
       /\ works = ledger
       /\ \A p \in ToSet(order) : views[p].plan.steps = plans[p].steps
       /\ \A p \in Ids : plans[p].rev > 0 => p \in ToSet(order)

\* Details that were opened at the step the work was at are never another
\* step's: they close when the work moves on.
DetailIsTheCursors ==
  \A p \in Ids : LET v == views[p] IN
    v.selected = None /\ v.detail # None /\ v.plan.steps # <<>> => CursorStep(v.plan, None) = v.detail

\* No new plan takes the dock from a person who is browsing it.
BrowsingIsKept == focused => active = chosen

DockHolds == CacheIsCurrent /\ DockShowsTheLedger /\ DetailIsTheCursors /\ BrowsingIsKept
=============================================================================
