----------------------------- MODULE EvalScreen -----------------------------
(***************************************************************************)
(* The screen of an evaluation (internal/tui/eval.go): the problems it has *)
(* been told of, the one it shows, the queue it can open over them, and    *)
(* how the rows of the terminal are shared out.  Progress comes from the   *)
(* workers of the tasks, each in its own order; keys and sizes come from   *)
(* the person.                                                             *)
(***************************************************************************)
EXTENDS Integers, Sequences, FiniteSets, SequencesExt

CONSTANTS Tasks,    \* The tasks that run.
          Sizes,    \* Sizes of the terminal: its height, and whether it is wide.
          MaxCalls, \* Bound: tools a task calls.
          MaxKeys   \* Bound: keys pressed.

VARIABLES
  phase,      \* The phase each task's worker is in.
  calls,      \* The tools it has called, and which have finished.
  problems,   \* problems: the tasks in the order they were heard of.
  seen,       \* What the screen knows of each: phase, activity, tools, status.
  selected, followActive, queueOpen, metricsOpen, queueCursor, listOffset,
  size,       \* width and height.
  viewport,   \* The height of each activity's viewport.
  plan,       \* The rows each activity's plan asks for.
  stopping,   \* Ctrl+C was pressed.
  pressed     \* Bound: keys so far.

worker == <<phase, calls>>
vars == <<worker, problems, seen, selected, followActive, queueOpen, metricsOpen, queueCursor,
          listOffset, size, viewport, plan, stopping, pressed>>

Unseen == [phase |-> "", activity |-> FALSE, tools |-> {}, finished |-> {}, status |-> ""]
Active(p) == p \in {"starting", "running", "grading"}

Init ==
  /\ phase = [t \in Tasks |-> ""] /\ calls = [t \in Tasks |-> [begun |-> 0, ended |-> {}]]
  /\ problems = <<>> /\ seen = [t \in Tasks |-> Unseen]
  /\ selected = 1 /\ followActive = TRUE /\ queueOpen = FALSE /\ metricsOpen = FALSE
  /\ queueCursor = 1 /\ listOffset = 0 /\ size \in Sizes
  /\ viewport = [t \in Tasks |-> 0] /\ plan = [t \in Tasks |-> 0]
  /\ stopping = FALSE /\ pressed = 0

-----------------------------------------------------------------------------
(* The rows.  From the top: what the problem is, its activity, its plan,   *)
(* the queue and the footer.                                               *)

Least(a, b) == IF a < b THEN a ELSE b
Most(a, b) == IF a > b THEN a ELSE b

ActivityTop == 9
Columns(s) == IF s.wide THEN 2 ELSE 1
QueueRows(open, s, n) ==
  IF ~open THEN 0
  ELSE Most(0, Least(3, Least((s.height - 18) \div 2, (n + Columns(s) - 1) \div Columns(s))))
QueueHeight(open, s, n) == IF open THEN 3 + QueueRows(open, s, n) ELSE 2
FooterHeight(metrics) == IF metrics THEN 5 ELSE 2
QueueTop(open, metrics, s, n) == Most(0, s.height - FooterHeight(metrics) - QueueHeight(open, s, n))
PlanBudget(open, metrics, s, n) == Most(0, Least(14, QueueTop(open, metrics, s, n) - ActivityTop - 4))

PlanRows(rows, open, metrics, s, n) == Least(rows, PlanBudget(open, metrics, s, n))
Fit(rows, open, metrics, s, n) ==
  Most(1, QueueTop(open, metrics, s, n) - ActivityTop - PlanRows(rows, open, metrics, s, n))

\* resizeActivity, of the problems that have an activity.
Resized(who, known, rows, open, metrics, s, n) ==
  [t \in Tasks |-> IF t \in who /\ known[t].activity THEN Fit(rows[t], open, metrics, s, n) ELSE viewport[t]]

\* queueWindow, which every drawing of the open queue brings up to date.
Window(open, s, n, cursor, offset) ==
  LET capacity == QueueRows(open, s, n) * Columns(s)
      at == Most(1, Least(cursor, n))
      from == IF at - 1 < offset THEN at - 1
              ELSE IF at - 1 >= offset + capacity THEN at - capacity ELSE offset
  IN IF capacity = 0 THEN [cursor |-> cursor, offset |-> offset]
     ELSE [cursor |-> at, offset |-> Most(0, Least(from, Most(0, n - capacity)))]

\* Every update ends with a drawing.
Draw(open, s, n, cursor) ==
  LET w == Window(open, s, n, cursor, listOffset) IN queueCursor' = w.cursor /\ listOffset' = w.offset

-----------------------------------------------------------------------------
(* What the workers tell.                                                  *)

\* followProblem: unless the person has gone elsewhere, an active problem.
Followed(follow, known, order) ==
  LET active == {i \in DOMAIN order : Active(known[order[i]].phase)} IN
  IF ~follow \/ selected \in active \/ active = {} THEN selected
  ELSE CHOOSE i \in active : \A j \in active : i <= j

\* observe: a problem heard of for the first time goes to the end of the list.
Observe(t, known, rows) ==
  LET order == IF t \in ToSet(problems) THEN problems ELSE Append(problems, t)
      all == [seen EXCEPT ![t] = known]
      need == [plan EXCEPT ![t] = rows]
  IN /\ problems' = order /\ seen' = all /\ plan' = need
     /\ selected' = Followed(followActive, all, order)
     /\ viewport' = Resized(Tasks, all, need, queueOpen, metricsOpen, size, Len(order))
     /\ Draw(queueOpen, size, Len(order), queueCursor)
     /\ UNCHANGED <<followActive, queueOpen, metricsOpen, size, stopping, pressed>>

After == [p \in {"", "queued", "starting", "running", "grading"} |->
  CASE p = "" -> {"queued"} [] p = "queued" -> {"starting"}
    [] p = "starting" -> {"running", "finished"} [] p = "running" -> {"grading", "finished"}
    [] p = "grading" -> {"finished"}]
Status(p) == CASE p = "queued" -> "" [] p = "starting" -> "Starting session"
               [] p = "running" -> "Waiting for model" [] p = "grading" -> "Running hidden tests"
               [] p = "finished" -> "outcome"

\* A result comes with the last phase, the session's manager with running.
Phase(t, p) ==
  /\ phase[t] # "finished" /\ p \in After[phase[t]] /\ phase' = [phase EXCEPT ![t] = p]
  /\ Observe(t, [seen[t] EXCEPT !.phase = p, !.status = Status(p),
                                !.activity = @ \/ p \in {"running", "finished"}], plan[t])
  /\ UNCHANGED calls

\* The key of an invocation: once finished it stays so.
ToolSeen(k, c, ends) ==
  LET finished == IF ends THEN k.finished \cup {c} ELSE k.finished
      tools == k.tools \cup {c}
  IN [k EXCEPT !.tools = tools, !.finished = finished,
               !.status = IF tools \ finished # {} THEN "Running tools" ELSE "Waiting for model"]

ToolStarts(t) ==
  /\ phase[t] = "running" /\ calls[t].begun < MaxCalls
  /\ calls' = [calls EXCEPT ![t].begun = @ + 1]
  /\ Observe(t, ToolSeen(seen[t], calls[t].begun + 1, FALSE), plan[t])
  /\ UNCHANGED phase
ToolEnds(t) ==
  /\ phase[t] = "running"
  /\ \E c \in (1..calls[t].begun) \ calls[t].ended :
       /\ calls' = [calls EXCEPT ![t].ended = @ \cup {c}]
       /\ Observe(t, ToolSeen(seen[t], c, TRUE), plan[t])
  /\ UNCHANGED phase

\* The agents make a plan, which takes rows from the activity.
Plans(t) ==
  /\ phase[t] = "running" /\ plan[t] = 0
  /\ Observe(t, seen[t], 6) /\ UNCHANGED worker

-----------------------------------------------------------------------------
(* What the person does.                                                   *)

Count == Len(problems)
Key == pressed < MaxKeys /\ pressed' = pressed + 1 /\ UNCHANGED <<worker, problems, seen, size>>
Layout(open, metrics) ==
  /\ queueOpen' = open /\ metricsOpen' = metrics
  /\ viewport' = Resized(Tasks, seen, plan, open, metrics, size, Count)

Stop ==
  /\ ~stopping /\ stopping' = TRUE /\ Key
  /\ Draw(queueOpen, size, Count, queueCursor)
  /\ UNCHANGED <<selected, followActive, queueOpen, metricsOpen, viewport, plan>>

\* toggleQueue: opening it puts the cursor on the problem shown.
ToggleQueue ==
  /\ Count > 0 /\ Key /\ Layout(~queueOpen, metricsOpen)
  /\ Draw(~queueOpen, size, Count, IF queueOpen THEN queueCursor ELSE selected)
  /\ UNCHANGED <<selected, followActive, plan, stopping>>

ToggleMetrics ==
  /\ Count > 0 /\ Key /\ Layout(queueOpen, ~metricsOpen)
  /\ Draw(queueOpen, size, Count, queueCursor)
  /\ UNCHANGED <<selected, followActive, plan, stopping>>

Within(i) == Most(1, Least(Count, i))

\* The keys of the open queue.
QueueMove(d) ==
  /\ Count > 0 /\ queueOpen /\ Key /\ Draw(TRUE, size, Count, Within(queueCursor + d))
  /\ UNCHANGED <<selected, followActive, queueOpen, metricsOpen, viewport, plan, stopping>>
QueueEnter ==
  /\ Count > 0 /\ queueOpen /\ Key /\ selected' = queueCursor /\ followActive' = FALSE
  /\ Layout(FALSE, metricsOpen) /\ Draw(FALSE, size, Count, queueCursor)
  /\ UNCHANGED <<plan, stopping>>
Follow ==
  /\ Count > 0 /\ Key /\ followActive' = TRUE /\ selected' = Followed(TRUE, seen, problems)
  /\ IF queueOpen THEN Layout(FALSE, metricsOpen) ELSE UNCHANGED <<queueOpen, metricsOpen, viewport>>
  /\ Draw(FALSE, size, Count, queueCursor)
  /\ UNCHANGED <<plan, stopping>>

\* A wheel over the queue opens it; a click takes the cell that is drawn there.
Wheel(d) ==
  /\ Count > 0 /\ Key /\ Layout(TRUE, metricsOpen)
  /\ Draw(TRUE, size, Count, Within((IF queueOpen THEN queueCursor ELSE selected) + d))
  /\ UNCHANGED <<selected, followActive, plan, stopping>>
Click ==
  /\ Count > 0 /\ queueOpen /\ Key
  /\ \E cell \in 0..(QueueRows(TRUE, size, Count) * Columns(size) - 1) :
       LET w == Window(TRUE, size, Count, queueCursor, listOffset) IN
       /\ w.offset + cell < Count /\ selected' = w.offset + cell + 1
  /\ followActive' = FALSE /\ Layout(FALSE, metricsOpen) /\ Draw(FALSE, size, Count, queueCursor)
  /\ UNCHANGED <<plan, stopping>>

\* The keys of the activity: to go to another problem ends the following.
Move(d) ==
  /\ Count > 0 /\ ~queueOpen /\ Key /\ selected' = Within(selected + d) /\ followActive' = FALSE
  /\ Draw(FALSE, size, Count, queueCursor)
  /\ UNCHANGED <<queueOpen, metricsOpen, viewport, plan, stopping>>
TogglePlan ==
  LET t == problems[selected] IN
  /\ Count > 0 /\ ~queueOpen /\ seen[t].activity /\ Key /\ followActive' = FALSE
  /\ plan' = [plan EXCEPT ![t] = IF @ = 6 THEN 2 ELSE IF @ = 2 THEN 6 ELSE @]
  /\ viewport' = Resized({t}, seen, plan', queueOpen, metricsOpen, size, Count)
  /\ Draw(FALSE, size, Count, queueCursor)
  /\ UNCHANGED <<selected, queueOpen, metricsOpen, stopping>>

Resize(s) ==
  /\ s # size /\ pressed < MaxKeys /\ pressed' = pressed + 1 /\ size' = s
  /\ viewport' = Resized(Tasks, seen, plan, queueOpen, metricsOpen, s, Count)
  /\ Draw(queueOpen, s, Count, queueCursor)
  /\ UNCHANGED <<worker, problems, seen, selected, followActive, queueOpen, metricsOpen, plan, stopping>>

Next ==
  \/ \E t \in Tasks : ToolStarts(t) \/ ToolEnds(t) \/ Plans(t)
                      \/ \E p \in {"queued", "starting", "running", "grading", "finished"} : Phase(t, p)
  \/ Stop \/ ToggleQueue \/ ToggleMetrics \/ QueueEnter \/ Follow \/ Click
  \/ \E d \in {-1, 1} : QueueMove(d) \/ Wheel(d) \/ Move(d)
  \/ TogglePlan \/ \E s \in Sizes : Resize(s)

Spec == Init /\ [][Next]_vars

-----------------------------------------------------------------------------
\* The screen follows what runs: unless the person has chosen a problem, the
\* one shown is active whenever any is (followProblem).
ShowsWhatRuns ==
  followActive /\ (\E t \in Tasks : Active(phase[t])) => Active(phase[problems[selected]])

\* Every activity has just the rows that are left to it, whatever opened,
\* closed or was resized meanwhile, so that a click lands on what is drawn
\* there (resizeActivity, View).
RowsAddUp ==
  \A t \in Tasks : seen[t].activity =>
    LET top == QueueTop(queueOpen, metricsOpen, size, Count)
        used == ActivityTop + viewport[t] + PlanRows(plan[t], queueOpen, metricsOpen, size, Count)
    IN used = top \/ (viewport[t] = 1 /\ used > top)

\* The cursor of the queue is on a problem the queue shows (queueWindow).
CursorShown ==
  /\ Count > 0 => selected \in 1..Count
  /\ queueOpen /\ QueueRows(TRUE, size, Count) > 0 =>
       /\ queueCursor \in 1..Count
       /\ queueCursor - 1 \in listOffset..(listOffset + QueueRows(TRUE, size, Count) * Columns(size) - 1)

\* Each invocation counts once, and tools run exactly while one is unfinished
\* (evalProblem.tools, runningTools).
ToolsAreCounted ==
  \A t \in Tasks : /\ seen[t].tools = 1..calls[t].begun /\ seen[t].finished = calls[t].ended
                   /\ phase[t] = "running" => (seen[t].status = "Running tools") =
                                                (calls[t].ended # 1..calls[t].begun)

EvalScreenHolds == ShowsWhatRuns /\ RowsAddUp /\ CursorShown /\ ToolsAreCounted
=============================================================================
