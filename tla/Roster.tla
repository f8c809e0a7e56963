------------------------------- MODULE Roster -------------------------------
(***************************************************************************)
(* The agents on the screen (internal/tui/stream_layout.go,                *)
(* agent_stacks.go, streams.go; the agents' states in tui.go and           *)
(* agents.go): what each is said to be doing, the group it is shown in,    *)
(* the cursor on them, and which part of the screen has the keyboard       *)
(* (foldKey of activity_view.go, planKey of plan.go).                      *)
(***************************************************************************)
EXTENDS Integers, Sequences, FiniteSets, SequencesExt

CONSTANTS Agents,      \* The agents under the manager.
          Manager,
          Heights,     \* Heights of the list of agents.
          Widths,      \* Widths of the strip.
          MaxEvents,   \* Bound: what the agents do.
          MaxKeys      \* Bound: what the person does.

None == "none"
All == "all"           \* The stream of all activity.
Completed == "completed"
Ids == <<All, Manager>>

VARIABLES
  truth,       \* The agents' states, with the revision of each.
  queue,       \* Their events on the way to the screen.
  made,        \* Bound.
  states,      \* m.states and m.revisions.
  working,     \* m.working.
  work,        \* The work each is shown with: none, open, blocked, accepted or closed.
  failed,      \* Agents whose stream shows an error.
  selected,    \* streamUI.selected.
  focusID,     \* streamUI.focusID.
  onCompleted, \* streamUI.completedFocused.
  expanded,    \* streamUI.completedExpanded.
  keyboard,    \* The rosterFocused, plans.focused, folds.focused and input's focus.
  hover,       \* The chip the mouse is on.
  keys,        \* Bound.
  told         \* History: the change of each that /agents told before its event.

vars == <<truth, queue, made, states, working, work, failed, selected, focusID, onCompleted, expanded,
          keyboard, hover, keys, told>>
agentVars == <<truth, queue, made, states, working, told>>
cursorVars == <<selected, focusID, onCompleted, expanded>>

Composing == [roster |-> FALSE, plan |-> FALSE, folds |-> FALSE, input |-> TRUE]
Fresh == [state |-> "idle", rev |-> 1]

Init ==
  /\ truth = [a \in Agents |-> Fresh] /\ queue = <<>> /\ made = 0 /\ states = truth /\ working = {}
  /\ work = [a \in Agents |-> None] /\ failed = {} /\ selected = Manager /\ focusID = None
  /\ onCompleted = FALSE /\ expanded = TRUE /\ keyboard = Composing /\ hover = None /\ keys = 0
  /\ told = [a \in Agents |-> 0]

-----------------------------------------------------------------------------
(* The agents, and what the screen hears of them.                          *)

Say(e) == made < MaxEvents /\ made' = made + 1 /\ queue' = Append(queue, e)
          /\ UNCHANGED <<states, working, work, failed, told, keyboard, hover, keys, cursorVars>>

Follows(s) == CASE s = "idle" -> {"running", "stopped"} [] s = "running" -> {"idle", "paused", "stopped"}
                [] s = "paused" -> {"running", "stopped"} [] OTHER -> {}
Turn(a, s) ==
  /\ s \in Follows(truth[a].state)
  /\ truth' = [truth EXCEPT ![a] = [state |-> s, rev |-> @.rev + 1]]
  /\ Say([kind |-> "state", agent |-> a, state |-> s, rev |-> truth[a].rev + 1])
\* A message consumed, or a reply sent, in the middle of a turn.
Speak(a, kind) ==
  /\ truth[a].state = "running" /\ Say([kind |-> kind, agent |-> a]) /\ UNCHANGED truth
Exit(a) ==
  /\ truth[a].state = "stopped" /\ ~\E i \in DOMAIN queue : queue[i] = [kind |-> "exited", agent |-> a]
  /\ Say([kind |-> "exited", agent |-> a]) /\ UNCHANGED truth

\* model.observe; what /agents told before is not undone by older events.
Observe ==
  /\ queue # <<>> /\ queue' = Tail(queue)
  /\ LET e == Head(queue)
         a == e.agent
         stale == e.kind = "state" /\ e.rev <= states[a].rev
         busy == e.kind = "state" /\ e.state = "running"
     IN /\ states' = IF e.kind = "state" /\ ~stale THEN [states EXCEPT ![a] = [state |-> e.state, rev |-> e.rev]]
                     ELSE IF e.kind = "exited" /\ states[a].state # "stopped"
                     THEN [states EXCEPT ![a].state = "stopped"] ELSE states
        /\ working' = IF stale THEN working
                      ELSE IF busy \/ e.kind = "consumed" THEN working \cup {a} ELSE working \ {a}
  /\ UNCHANGED <<truth, made, told, work, failed, keyboard, hover, keys, cursorVars>>

\* rememberWork, for an agent's newest work, and the errors of its calls.
ShowWork(a, w) ==
  /\ work[a] # w /\ made < MaxEvents /\ made' = made + 1 /\ work' = [work EXCEPT ![a] = w]
  /\ UNCHANGED <<truth, queue, states, working, failed, told, keyboard, hover, keys, cursorVars>>
ShowError(a) ==
  /\ made < MaxEvents /\ made' = made + 1
  /\ failed' = IF a \in failed THEN failed \ {a} ELSE failed \cup {a}
  /\ UNCHANGED <<truth, queue, states, working, work, told, keyboard, hover, keys, cursorVars>>

-----------------------------------------------------------------------------
(* Groups, choices and the cursor.                                         *)

Groups == <<"attention", "working", "idle", "inactive", Completed>>

Group(a) ==
  IF a \notin Agents THEN None
  ELSE IF a \in failed \/ work[a] = "blocked" THEN "attention"
  ELSE IF a \in working \/ states[a].state = "running" THEN "working"
  ELSE IF work[a] = "accepted" THEN Completed
  ELSE IF states[a].state # "idle" \/ work[a] = "closed" THEN "inactive" ELSE "idle"

Grouped(g) == SetToSeq({a \in Agents : Group(a) = g})

RosterChoices(open) ==
  LET live == FoldLeft(LAMBDA s, g : s \o Grouped(g), <<>>, SubSeq(Groups, 1, 4))
      done == Grouped(Completed)
  IN Ids \o live \o (IF done = <<>> THEN <<>> ELSE IF open THEN <<Completed>> \o done ELSE <<Completed>>)

CursorOf(k, on, id) == IF ~k.roster THEN selected ELSE IF on THEN Completed ELSE id
Cursor == CursorOf(keyboard, onCompleted, focusID)

\* syncRosterFocus.
Synced ==
  LET lost == onCompleted /\ Grouped(Completed) = <<>>
      on == onCompleted /\ ~lost
      id == IF lost THEN selected ELSE focusID
  IN [on |-> on, id |-> id,
      open |-> expanded \/ (~on /\ Group(CursorOf(keyboard, on, id)) = Completed)]

\* Every drawing starts with it.
Draw ==
  /\ onCompleted' = Synced.on /\ focusID' = Synced.id /\ expanded' = Synced.open
  /\ <<onCompleted, focusID, expanded>>' # <<onCompleted, focusID, expanded>>
  /\ UNCHANGED <<agentVars, work, failed, selected, keyboard, hover, keys>>

\* rosterLines: which row each choice starts at, and the rows that fit.
RowsOf(open) ==
  LET block(g, its) ==
        <<[id |-> None, n |-> 1], [id |-> IF g = Completed THEN Completed ELSE None, n |-> 1]>>
        \o (IF g = Completed /\ ~open THEN <<>> ELSE [i \in DOMAIN its |-> [id |-> its[i], n |-> 2]])
      add(rows, g) == LET its == Grouped(g) IN IF its = <<>> THEN rows ELSE rows \o block(g, its)
      place(acc, b) == [at |-> acc.at + b.n, rows |-> acc.rows \cup {[id |-> b.id, from |-> acc.at, to |-> acc.at + b.n]}]
      blocks == FoldLeft(add, <<[id |-> All, n |-> 1], [id |-> Manager, n |-> 2]>>, Groups)
  IN FoldLeft(place, [at |-> 0, rows |-> {}], blocks).rows

Least(a, b) == IF a < b THEN a ELSE b
Most(a, b) == IF a > b THEN a ELSE b

Window(height, row) ==
  LET room == Most(1, height - Least(3, Most(0, height - 2)))
      start == Least(Most(0, row.to - room), row.from)
  IN [from |-> start, to |-> start + room]

\* stackLayout on a short terminal: the chips in one line, moved no further
\* than the cursor needs.
Chip == 3
At(i) == (Chip + 1) * (i - 1)
Offset(width, before, n, i) ==
  LET kept == Least(before, Most(0, At(n + 1) - 1 - width))
      left == Least(At(i), kept)
  IN Most(0, IF At(i) + Chip > left + width THEN At(i) + Chip - width ELSE left)

-----------------------------------------------------------------------------
(* What the person does.                                                   *)

Step == keys < MaxKeys /\ keys' = keys + 1 /\ UNCHANGED <<truth, queue, made, working, work, failed>>
Quiet == UNCHANGED <<states, told>>

\* focusRoster, selectStream and focusPlan.
FocusRoster(k, focus) == [k EXCEPT !.plan = FALSE, !.roster = focus, !.input = ~focus, !.folds = @ /\ ~focus]
Open(id) ==
  /\ selected' = id /\ focusID' = id /\ onCompleted' = FALSE
  /\ expanded' = (expanded \/ Group(id) = Completed)
Closed == FocusRoster([keyboard EXCEPT !.folds = FALSE], FALSE)
Take == IF keyboard.roster THEN UNCHANGED <<focusID, onCompleted>>
        ELSE focusID' = selected /\ onCompleted' = FALSE

\* f6.
RosterKey ==
  /\ Step /\ Quiet /\ hover' = None /\ keyboard' = FocusRoster(keyboard, ~keyboard.roster)
  /\ IF keyboard.roster THEN UNCHANGED <<focusID, onCompleted>> ELSE Take
  /\ UNCHANGED <<selected, expanded>>
\* f8, which asks for a plan in the dock.
PlanKey ==
  /\ Step /\ Quiet /\ UNCHANGED cursorVars
  /\ keyboard' = IF keyboard.plan THEN [keyboard EXCEPT !.plan = FALSE, !.input = TRUE]
                 ELSE [FocusRoster(keyboard, FALSE) EXCEPT !.folds = FALSE, !.input = FALSE, !.plan = TRUE]
  /\ hover' = IF keyboard.plan THEN hover ELSE None
\* f7.
FoldKey ==
  /\ Step /\ Quiet /\ UNCHANGED cursorVars /\ hover' = None
  /\ keyboard' = IF keyboard.folds THEN [keyboard EXCEPT !.folds = FALSE, !.input = TRUE]
                 ELSE [FocusRoster(keyboard, FALSE) EXCEPT !.folds = TRUE, !.input = FALSE]
\* esc, for whoever has the keyboard; the plan first.
Escape ==
  /\ Step /\ Quiet /\ UNCHANGED cursorVars
  /\ hover' = IF keyboard.plan THEN hover ELSE None
  /\ keyboard' = IF keyboard.plan THEN [keyboard EXCEPT !.plan = FALSE, !.input = TRUE]
                 ELSE IF hover # None THEN keyboard
                 ELSE IF keyboard.roster THEN FocusRoster(keyboard, FALSE)
                 ELSE IF keyboard.folds THEN [keyboard EXCEPT !.folds = FALSE, !.input = TRUE] ELSE keyboard

ToggleCompleted(on) ==
  IF Grouped(Completed) = <<>> THEN onCompleted' = on /\ UNCHANGED expanded
  ELSE /\ expanded' = ~expanded
       /\ onCompleted' = (on \/ (expanded /\ Group(Cursor) = Completed))

\* streamKey, with the roster focused.
Rostered == Step /\ Quiet /\ keyboard.roster /\ ~keyboard.plan /\ hover' = None
MoveStream(d) ==
  LET its == RosterChoices(expanded)
      here == {i \in DOMAIN its : its[i] = Cursor}
      i == (IF here = {} THEN 1 ELSE CHOOSE j \in here : TRUE) + d
      to == its[IF i < 1 THEN 1 ELSE IF i > Len(its) THEN Len(its) ELSE i]
  IN onCompleted' = (to = Completed) /\ focusID' = IF to = Completed THEN All ELSE to
Arrow(d) ==
  /\ Rostered /\ UNCHANGED <<selected, keyboard>>
  /\ IF onCompleted /\ expanded = (d < 0)
     THEN ToggleCompleted(onCompleted) /\ UNCHANGED focusID ELSE MoveStream(d) /\ UNCHANGED expanded
Enter ==
  /\ Rostered
  /\ IF onCompleted THEN ToggleCompleted(onCompleted) /\ UNCHANGED <<selected, focusID, keyboard>>
     ELSE Open(focusID) /\ keyboard' = Closed
Fold == Rostered /\ ToggleCompleted(onCompleted) /\ UNCHANGED <<selected, focusID, keyboard>>

\* stackMouse: a chip, the panel of the chip the mouse is on, and the rest.
Hover(c) ==
  /\ Step /\ Quiet /\ hover # c /\ c \in {None} \cup ToSet(RosterChoices(Synced.open)) /\ hover' = c
  /\ UNCHANGED <<keyboard, cursorVars>>
Click(c) ==
  /\ Step /\ Quiet /\ c \in ToSet(RosterChoices(Synced.open))
  /\ IF c = Completed
     THEN /\ ToggleCompleted(TRUE) /\ keyboard' = FocusRoster(keyboard, TRUE)
          /\ focusID' = (IF keyboard.roster THEN focusID ELSE selected) /\ UNCHANGED selected
     ELSE Open(c) /\ keyboard' = Closed
  /\ hover' = None
ClickPreview ==
  /\ Step /\ Quiet /\ LET c == IF hover # None THEN hover ELSE Cursor IN
     (hover # None \/ keyboard.roster) /\ c # Completed /\ Open(c)
  /\ keyboard' = Closed /\ hover' = None
ClickElsewhere ==
  /\ Step /\ Quiet /\ UNCHANGED cursorVars /\ hover' = None
  /\ keyboard' = FocusRoster(keyboard, FALSE)

\* /agents, typed: what each agent says of itself is newer than the events.
ShowAgents ==
  /\ Step /\ keyboard = Composing
  /\ states' = [a \in Agents |-> IF truth[a].rev >= states[a].rev THEN truth[a] ELSE states[a]]
  /\ told' = [a \in Agents |-> IF truth[a].rev > states[a].rev THEN truth[a].rev ELSE told[a]]
  /\ UNCHANGED <<keyboard, hover, cursorVars>>

Next ==
  \/ \E a \in Agents : \/ \E s \in {"idle", "running", "paused", "stopped"} : Turn(a, s)
                       \/ \E kind \in {"consumed", "reply"} : Speak(a, kind)
                       \/ Exit(a) \/ ShowError(a)
                       \/ \E w \in {"open", "blocked", "accepted", "closed"} : ShowWork(a, w)
  \/ Observe \/ Draw \/ ShowAgents
  \/ RosterKey \/ PlanKey \/ FoldKey \/ Escape \/ Enter \/ Fold
  \/ \E d \in {-1, 1} : Arrow(d)
  \/ \E c \in Agents \cup {All, Manager, Completed} : Hover(c) \/ Click(c)
  \/ Hover(None) \/ ClickPreview \/ ClickElsewhere

Spec == Init /\ [][Next]_vars

-----------------------------------------------------------------------------
\* What is said of an agent is never older than what was heard before, and
\* once everything was heard it is its state (the revisions' checks).
StateIsNewest ==
  \A a \in Agents : told[a] <= states[a].rev /\ states[a].rev <= truth[a].rev /\ (queue = <<>> => states[a] = truth[a])

\* No agent is said to be processing when all that was heard says it is not;
\* save one whose change /agents told first, which keeps the mark it had.
NoStaleWork ==
  queue = <<>> => \A a \in {b \in working : told[b] # states[b].rev} : truth[a].state = "running"

\* The cursor is always on something that is drawn: the chip of a finished
\* agent that is watched, or looked at, is not hidden, and neither a short
\* list nor a narrow strip leaves it out (syncRosterFocus, rosterLines, stackLayout);
\* save the stream of a person who folded the finished agents and left the
\* roster from there.
CursorIsDrawn ==
  LET now == Synced
      cursor == CursorOf(keyboard, now.on, now.id)
      its == RosterChoices(now.open)
      row == {r \in RowsOf(now.open) : r.id = cursor}
      left == ~keyboard.roster /\ onCompleted /\ ~expanded /\ Group(selected) = Completed
  IN ~left =>
     /\ cursor \in ToSet(its)
     /\ \A h \in Heights : \E r \in row : Window(h, r).from <= r.from /\ r.from < Window(h, r).to
     /\ \A i \in DOMAIN its : its[i] = cursor =>
          \A w \in Widths : \A before \in 0..(2 * w) :
            LET off == Offset(w, before, Len(its), i) IN off <= At(i) /\ At(i) + Chip <= off + w

\* One part of the screen has the keyboard, and the composer when no other
\* has; the composer looks ready beside another only when a click elsewhere
\* has left the folds with the keys.
OneHasTheKeys ==
  LET k == keyboard IN
  /\ Cardinality({p \in {"roster", "plan", "folds"} : k[p]}) <= 1
  /\ k.input \/ k.roster \/ k.plan \/ k.folds
  /\ k.input => ~k.roster /\ ~k.plan

RosterHolds == StateIsNewest /\ NoStaleWork /\ CursorIsDrawn /\ OneHasTheKeys
=============================================================================
