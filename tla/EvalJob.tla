------------------------------ MODULE EvalJob ------------------------------
(***************************************************************************)
(* The jobs of the evaluation page (internal/evalweb): one job at a time     *)
(* runs its tasks in order.  Each task has an agent's container, and a       *)
(* grader's when the agent has submitted something; a job may be cancelled    *)
(* at any time.  A browser follows a job's events, and reconnects.            *)
(***************************************************************************)
EXTENDS Naturals, Sequences, FiniteSets

CONSTANTS Jobs, Tasks, MaxEvents, Cancels   \* Tasks: how many a job has; Cancels: a bound

VARIABLES
  status,      \* of each job
  cancelled,   \* the job's context has ended
  announcing,  \* a cancel request has still to append its event
  pc, at,      \* where run is, and at which task
  tasks,       \* the task states of a job
  verdict,     \* what containerTask returns
  outbox,      \* the tasks of a job with a submission on disk
  boxes,       \* the containers that are alive
  events,      \* the buffered progress of a job
  client       \* one browser that follows a job

job == <<status, cancelled, announcing>>
run == <<pc, at, tasks, verdict>>
vars == <<job, run, outbox, boxes, events, client>>

Task == 1..Tasks
Event(kind, i) == [kind |-> kind, task |-> i]
Box(j, which) == [job |-> j, task |-> at[j], which |-> which]

\* The buffer is bounded: what comes after is dropped.
Emit(j, e) == events' = [events EXCEPT ![j] = IF Len(@) < MaxEvents THEN Append(@, e) ELSE @]

----------------------------------------------------------------------------
(* Requests.                                                                *)

StartJob(j) ==
  /\ status[j] = "none" /\ \A other \in Jobs : status[other] # "running"
  /\ status' = [status EXCEPT ![j] = "running"]
  /\ pc' = [pc EXCEPT ![j] = "prepare"]
  /\ Emit(j, Event("job", 0))
  /\ UNCHANGED <<cancelled, announcing, at, tasks, verdict, outbox, boxes, client>>

\* A job may be cancelled when it has ended, too; it is told of it a step later.
CancelJob(j) ==
  /\ status[j] # "none" /\ Cardinality({i \in Jobs : cancelled[i]}) < Cancels
  /\ ~cancelled[j]
  /\ cancelled' = [cancelled EXCEPT ![j] = TRUE]
  /\ announcing' = announcing \cup {j}
  /\ UNCHANGED <<status, run, outbox, boxes, events, client>>

CancelAnnounced(j) ==
  /\ j \in announcing
  /\ announcing' = announcing \ {j}
  /\ Emit(j, Event("job", 0))
  /\ UNCHANGED <<status, cancelled, run, outbox, boxes, client>>

----------------------------------------------------------------------------
(* run: the tasks, one after another.                                       *)

Goes(j, place) == pc' = [pc EXCEPT ![j] = place]
Phase(j, p) == tasks' = [tasks EXCEPT ![j][at[j]].phase = p]

PrepareContainers(j) ==
  /\ pc[j] = "prepare" /\ ~cancelled[j]
  /\ Goes(j, "task")
  /\ Emit(j, Event("build", 0))
  /\ UNCHANGED <<job, at, tasks, verdict, outbox, boxes, client>>

\* No image: every task fails, and the job is over.
Failed == [phase |-> "finished", outcome |-> "errored"]
PrepareFails(j) ==
  /\ pc[j] = "prepare"
  /\ tasks' = [tasks EXCEPT ![j] = [i \in Task |-> Failed]]
  /\ events' = [events EXCEPT ![j] =
       SubSeq(@ \o <<Event("build", 0)>> \o [i \in Task |-> Event("result", i)], 1,
              IF Len(@) + 1 + Tasks < MaxEvents THEN Len(@) + 1 + Tasks ELSE MaxEvents)]
  /\ Goes(j, "last")
  /\ UNCHANGED <<job, at, verdict, outbox, boxes, client>>

Skip(j) ==
  /\ pc[j] = "task" /\ at[j] <= Tasks /\ cancelled[j]
  /\ Phase(j, "cancelled")
  /\ at' = [at EXCEPT ![j] = @ + 1]
  /\ UNCHANGED <<job, pc, verdict, outbox, boxes, events, client>>

StartTask(j) ==
  /\ pc[j] = "task" /\ at[j] <= Tasks /\ ~cancelled[j]
  /\ Goes(j, "start_agent")
  /\ Phase(j, "starting") /\ Emit(j, Event("phase", at[j]))
  /\ UNCHANGED <<job, at, verdict, outbox, boxes, client>>

\* A command of a context that has ended does not start.
StartBox(j, which, from) ==
  /\ pc[j] = from
  /\ IF cancelled[j]
     THEN Goes(j, "result") /\ UNCHANGED boxes
     ELSE Goes(j, which) /\ boxes' = boxes \cup {Box(j, which)}
  /\ UNCHANGED <<job, at, tasks, verdict, outbox, events, client>>

\* observe: a line of the agent's progress; some say nothing the page shows.
Observe(j) ==
  /\ pc[j] = "agent" /\ Len(events[j]) < MaxEvents
  /\ Phase(j, "working")
  /\ Emit(j, Event("progress", at[j]))
  /\ UNCHANGED <<job, pc, at, verdict, outbox, boxes, client>>

\* The agent's container is done: with a submission and its result, or not.
AgentExits(j) ==
  /\ pc[j] = "agent"
  /\ boxes' = boxes \ {Box(j, "agent")}
  /\ \/ /\ outbox' = [outbox EXCEPT ![j] = @ \cup {at[j]}]
        /\ verdict' = [verdict EXCEPT ![j] = "submitted"] /\ Goes(j, "submitted")
     \/ /\ verdict' = [verdict EXCEPT ![j] = "submitted"] /\ Goes(j, "submitted")
        /\ UNCHANGED outbox
     \/ /\ verdict' = [verdict EXCEPT ![j] = "errored"] /\ Goes(j, "result")
        /\ UNCHANGED outbox
  /\ UNCHANGED <<job, at, tasks, events, client>>

\* Cancellation kills the command; the container is stopped, if that succeeds.
BoxKilled(j, which) ==
  /\ pc[j] = which /\ cancelled[j]
  /\ boxes' \in {boxes \ {Box(j, which)}, boxes}
  /\ Goes(j, "result")
  /\ UNCHANGED <<job, at, tasks, verdict, outbox, events, client>>

Grade(j) ==
  /\ pc[j] = "submitted"
  /\ IF cancelled[j] \/ at[j] \notin outbox[j]
     THEN Goes(j, "result") /\ UNCHANGED <<tasks, events>>
     ELSE Goes(j, "start_grader") /\ Phase(j, "grading") /\ Emit(j, Event("phase", at[j]))
  /\ UNCHANGED <<job, at, verdict, outbox, boxes, client>>

\* The grader may leave without a grade: the result on disk is still the agent's.
GraderExits(j) ==
  /\ pc[j] = "grader"
  /\ boxes' = boxes \ {Box(j, "grader")}
  /\ \E v \in {"passed", "failed", "submitted"} : verdict' = [verdict EXCEPT ![j] = v]
  /\ Goes(j, "result")
  /\ UNCHANGED <<job, at, tasks, outbox, events, client>>

Outcome(v) == IF v = "none" THEN "errored" ELSE v
Result(j) ==
  /\ pc[j] = "result"
  /\ tasks' = [tasks EXCEPT ![j][at[j]] =
                 [phase |-> "finished", outcome |-> Outcome(verdict[j])]]
  /\ Emit(j, Event("result", at[j]))
  /\ at' = [at EXCEPT ![j] = @ + 1] /\ Goes(j, "task")
  /\ verdict' = [verdict EXCEPT ![j] = "none"]
  /\ UNCHANGED <<job, outbox, boxes, client>>

\* The status and the event that tells of it change together.
Ending(j) == pc[j] = "last" \/ (pc[j] = "task" /\ at[j] > Tasks)
Final(j) == IF cancelled[j] THEN "cancelled" ELSE "done"
JobEnds(j) ==
  /\ Ending(j)
  /\ status' = [status EXCEPT ![j] = Final(j)]
  /\ Emit(j, Event("end", 0))
  /\ Goes(j, "ended")
  /\ UNCHANGED <<cancelled, announcing, at, tasks, verdict, outbox, boxes, client>>

\* A container that could not be stopped ends by itself.
BoxEnds ==
  /\ \E b \in boxes : status[b.job] # "running" /\ boxes' = boxes \ {b}
  /\ UNCHANGED <<job, run, outbox, events, client>>

----------------------------------------------------------------------------
(* A follower.  What it lacks and whether the job is over are read together. *)

Follow(j) ==
  /\ status[j] # "none" /\ client.place = "away" /\ client.job \in {j, 0}
  /\ client' = [client EXCEPT !.job = j, !.place = "loop", !.seq = client.got]
  /\ UNCHANGED <<job, run, outbox, boxes, events>>

After ==
  /\ client.place = "loop"
  /\ client' = [client EXCEPT !.place = "write", !.upto = Len(events[client.job]),
                              !.over = status[client.job] # "running"]
  /\ UNCHANGED <<job, run, outbox, boxes, events>>

\* Faulty variant: whether the job is over is asked when the events are written.
HandleJobEventsLate ==
  /\ client.place = "write"
  /\ client' = [client EXCEPT !.got = client.upto, !.seq = client.upto, !.upto = 0,
                  !.told = status[client.job] # "running",
                  !.place = IF status[client.job] # "running" THEN "done" ELSE "loop"]
  /\ UNCHANGED <<job, run, outbox, boxes, events>>
HandleJobEvents ==
  /\ client.place = "write"
  /\ client' = [client EXCEPT !.got = client.upto, !.seq = client.upto, !.upto = 0,
                  !.told = client.over, !.place = IF client.over THEN "done" ELSE "loop"]
  /\ UNCHANGED <<job, run, outbox, boxes, events>>

\* The connection breaks: some of what was written has arrived.
Disconnect ==
  /\ client.place = "write"
  /\ \E n \in client.seq..client.upto : client' = [client EXCEPT !.got = n, !.upto = 0, !.seq = 0, !.over = FALSE, !.place = "away"]
  /\ UNCHANGED <<job, run, outbox, boxes, events>>

----------------------------------------------------------------------------
Init ==
  /\ status = [j \in Jobs |-> "none"] /\ cancelled = [j \in Jobs |-> FALSE]
  /\ announcing = {}
  /\ pc = [j \in Jobs |-> "idle"] /\ at = [j \in Jobs |-> 1]
  /\ tasks = [j \in Jobs |-> [i \in Task |-> [phase |-> "queued", outcome |-> ""]]]
  /\ verdict = [j \in Jobs |-> "none"] /\ outbox = [j \in Jobs |-> {}]
  /\ boxes = {} /\ events = [j \in Jobs |-> <<>>]
  /\ client = [job |-> 0, place |-> "away", got |-> 0, seq |-> 0, upto |-> 0,
               over |-> FALSE, told |-> FALSE]

Running(j) ==
  \/ PrepareContainers(j) \/ PrepareFails(j) \/ Skip(j) \/ StartTask(j)
  \/ StartBox(j, "agent", "start_agent") \/ Observe(j) \/ AgentExits(j) \/ BoxKilled(j, "agent")
  \/ Grade(j) \/ StartBox(j, "grader", "start_grader") \/ GraderExits(j) \/ BoxKilled(j, "grader")
  \/ Result(j) \/ JobEnds(j)
\* Jobs are numbered as they start; the first is followed.
InOrder(j) == \A i \in 1..(j - 1) : status[i] # "none"

Next ==
  \/ \E j \in Jobs : (InOrder(j) /\ StartJob(j)) \/ CancelJob(j) \/ CancelAnnounced(j) \/ Running(j)
  \/ BoxEnds \/ Follow(1) \/ After \/ HandleJobEvents \/ Disconnect

Spec == Init /\ [][Next]_vars

----------------------------------------------------------------------------
\* One job runs at a time.  Containers outlive only a job that was cancelled; a task has
\* one container at a time, and what is graded was submitted.
ContainersBelong ==
  /\ \A i, j \in Jobs : status[i] = "running" /\ status[j] = "running" => i = j
  /\ \A b \in boxes :
       /\ cancelled[b.job] \/ (status[b.job] = "running" /\ pc[b.job] = b.which /\ at[b.job] = b.task)
       /\ b.which = "grader" => b.task \in outbox[b.job]
  /\ \A b, c \in boxes : b.job = c.job /\ b.task = c.task => b = c

\* A job that is over has settled each task: finished with one result, or, in a job that
\* was cancelled, never started.  While the buffer has room nothing of it is missing.
TasksSettle ==
  \A j \in Jobs : status[j] \in {"done", "cancelled"} =>
    \A i \in Task :
      /\ \/ tasks[j][i].phase = "finished" /\ tasks[j][i].outcome # ""
         \/ tasks[j][i].phase = "cancelled" /\ cancelled[j]
      /\ tasks[j][i].outcome \in {"passed", "failed"} => i \in outbox[j]
      /\ Len(events[j]) < MaxEvents =>
           Cardinality({k \in DOMAIN events[j] : events[j][k] = Event("result", i)})
             = IF tasks[j][i].phase = "finished" THEN 1 ELSE 0

\* A follower that was told of the end has everything up to it, however often it had to
\* reconnect.
EndIsComplete ==
  client.told =>
    /\ status[client.job] # "running"
    /\ \A k \in DOMAIN events[client.job] :
         events[client.job][k].kind = "end" => k <= client.got

JobsAreHonest == ContainersBelong /\ TasksSettle /\ EndIsComplete
=============================================================================
