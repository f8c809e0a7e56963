------------------------------ MODULE Attempt ------------------------------
(***************************************************************************)
(* One attempt at a coding problem (eval/runner.go, submission.go,         *)
(* progress.go, mounts.go; internal/tui/eval.go starts it, evalcmd grades  *)
(* it): the runner opens a session in the mounted workspace, watches its   *)
(* log until the manager has answered and everything is quiet, closes it,  *)
(* and publishes the workspace for a grader in another container.  The     *)
(* session here is a manager and one agent it may send for.                *)
(***************************************************************************)
EXTENDS Naturals, Sequences

CONSTANTS MaxUnread,  \* Bound: events the runner has not read yet.
          MaxMail,    \* Bound: messages between the agents.
          MaxWrites   \* Bound: writes to the workspace.

Manager == "m"
Agents == {Manager, "a"}
None == [a \in Agents |-> 0]

VARIABLES
  step,       \* Where the runner is.
  cancelled,  \* Its context has ended.
  state, mail, replied, sent, writing, failed,
              \* The session: its agents, their mail, who is done with an
              \* exchange, messages among them so far, who writes, and whether
              \* the model could not be reached.
  tree,       \* The workspace, by the number of writes to it.
  unread,     \* What the log holds that the runner has not read.
  watch,      \* watcher.
  result,     \* Result: its outcome, and why the watch ended.
  observer,   \* The copy of the log for an observer: on, behind, off.
  told,       \* The phase the observer was told last, and if the end was last.
  screen,     \* The screen of RunEval runs.
  record,     \* The results mount: what result.json says.
  outbox      \* The outbox mount: empty, pending or ready, and the tree in it.

session == <<state, mail, replied, sent, writing, failed, tree>>
vars == <<step, cancelled, session, unread, watch, result, observer, told, screen, record, outbox>>

Fresh == [working |-> {}, tools |-> {}, pending |-> None, state |-> [a \in Agents |-> "idle"],
          holding |-> FALSE, replied |-> FALSE, completed |-> FALSE]

Init ==
  /\ step = "queued" /\ cancelled = FALSE /\ tree = 0 /\ unread = <<>> /\ watch = Fresh
  /\ state = [a \in Agents |-> "idle"] /\ mail = None /\ replied = {} /\ sent = 0
  /\ writing = {} /\ failed = FALSE
  /\ result = [outcome |-> "", end |-> "", quiet |-> TRUE] /\ observer = "off"
  /\ told = [phase |-> "", ordered |-> TRUE] /\ screen = TRUE
  /\ record = "" /\ outbox = [stage |-> "empty", tree |-> 0]

-----------------------------------------------------------------------------
(* The observer.  A screen that has ended takes nothing.                   *)

Tell(p) ==
  told' = IF screen THEN [phase |-> p, ordered |-> told.ordered /\ told.phase # "finished"] ELSE told

\* The goroutine that follows the log for the observer shows what it has missed.
Show ==
  /\ observer = "behind" /\ Tell("running") /\ observer' = "on"
  /\ UNCHANGED <<step, cancelled, session, unread, watch, result, screen, record, outbox>>

\* Ctrl+C ends the screen and the runner's context; so may the caller.
Cancel ==
  /\ ~cancelled /\ step \notin {"returned", "crashed"}
  /\ cancelled' = TRUE /\ screen' = FALSE
  /\ UNCHANGED <<step, session, unread, watch, result, observer, told, record, outbox>>

-----------------------------------------------------------------------------
(* The session.  Every event goes to the log.                              *)

Event(kind, a, b) == [kind |-> kind, from |-> a, to |-> b]
Log(events) ==
  /\ step \in {"watching", "closing"} /\ Len(unread) + Len(events) <= MaxUnread
  /\ unread' = unread \o events
  /\ observer' = IF observer = "on" THEN "behind" ELSE observer
  /\ UNCHANGED <<step, cancelled, watch, result, told, screen, record, outbox>>

Wakes(a) ==
  /\ state[a] = "idle" /\ mail[a] > 0 /\ state' = [state EXCEPT ![a] = "woken"]
  /\ Log(<<Event("running", a, "")>>)
  /\ UNCHANGED <<mail, replied, sent, writing, failed, tree>>

\* An agent that has replied and has mail goes on without a change of state.
Consumes(a) ==
  /\ state[a] \in {"woken", "running"} /\ mail[a] > 0 /\ (state[a] = "woken" \/ a \in replied)
  /\ mail' = [mail EXCEPT ![a] = @ - 1] /\ replied' = replied \ {a}
  /\ state' = [state EXCEPT ![a] = "running"]
  /\ Log(<<Event("consumed", a, "")>>)
  /\ UNCHANGED <<sent, writing, failed, tree>>

Acts(a) == state[a] = "running" /\ a \notin replied \cup writing

Messages(a, b) ==
  /\ Acts(a) /\ sent < MaxMail /\ sent' = sent + 1 /\ mail' = [mail EXCEPT ![b] = @ + 1]
  /\ Log(<<Event("message", a, b)>>)
  /\ UNCHANGED <<state, writing, failed, tree>>

\* The manager sends for the agent; a reply ends an exchange.
Sends == Messages(Manager, "a") /\ UNCHANGED replied
Reports == Messages("a", Manager) /\ replied' = replied \cup {"a"}
Replies ==
  /\ Acts(Manager) /\ replied' = replied \cup {Manager}
  /\ Log(<<Event("reply", Manager, "user")>>)
  /\ UNCHANGED <<state, mail, sent, writing, failed, tree>>

\* Or it waits for the agent without one.
Waits ==
  /\ Acts(Manager) /\ replied' = replied \cup {Manager} /\ Log(<<Event("output", Manager, "")>>)
  /\ UNCHANGED <<state, mail, sent, writing, failed, tree>>

Rests(a) ==
  /\ a \in replied /\ mail[a] = 0 /\ replied' = replied \ {a}
  /\ state' = [state EXCEPT ![a] = "idle"] /\ Log(<<Event("idle", a, "")>>)
  /\ UNCHANGED <<mail, sent, writing, failed, tree>>

WriteStarts(a) ==
  /\ Acts(a) /\ tree < MaxWrites /\ writing = {} /\ writing' = {a}
  /\ Log(<<Event("tool", a, "started")>>)
  /\ UNCHANGED <<state, mail, replied, sent, failed, tree>>
WriteEnds(a) ==
  /\ a \in writing /\ writing' = {} /\ tree' = tree + 1
  /\ Log(<<Event("tool", a, "finished")>>)
  /\ UNCHANGED <<state, mail, replied, sent, failed>>

\* The model cannot be reached: the manager exits, and the host says so.
Fails ==
  /\ Acts(Manager) /\ failed' = TRUE /\ state' = [state EXCEPT ![Manager] = "stopped"]
  /\ Log(<<Event("failure", Manager, "user"), Event("exited", Manager, "")>>)
  /\ UNCHANGED <<mail, replied, sent, writing, tree>>

-----------------------------------------------------------------------------
(* watcher.observe, one operator for each event it folds.                  *)

OnState(w, a, s) ==
  [w EXCEPT !.state[a] = s, !.working = IF s = "running" THEN @ \cup {a} ELSE @ \ {a}]
OnTool(w, a, at) == [w EXCEPT !.tools = IF at = "started" THEN @ \cup {a} ELSE @ \ {a}]
OnConsumed(w, a) == [w EXCEPT !.pending[a] = @ - 1, !.working = @ \cup {a}]
OnMessage(w, from, to, ends) ==
  [w EXCEPT !.pending = IF to = "user" THEN @ ELSE [@ EXCEPT ![to] = @ + 1],
            !.working = IF ends THEN @ \ {from} ELSE @,
            !.holding = IF from = "user" THEN TRUE ELSE IF to = "user" THEN FALSE ELSE @,
            !.replied = IF from = "user" THEN FALSE ELSE @ \/ to = "user"]

Folded(w, e) ==
  LET seen == IF e.kind \in {"reply", "message", "tool", "output"} /\ e.from # "user"
              THEN [w EXCEPT !.completed = TRUE] ELSE w IN
  CASE e.kind = "running" -> OnState(seen, e.from, "running")
    [] e.kind = "idle"    -> OnState(seen, e.from, "idle")
    [] e.kind = "exited"  -> OnState(seen, e.from, "stopped")
    [] e.kind = "consumed" -> OnConsumed(seen, e.from)
    [] e.kind = "tool"    -> OnTool(seen, e.from, e.to)
    [] e.kind = "output"  -> seen
    [] OTHER -> OnMessage(seen, e.from, e.to, e.kind # "message" \/ e.to = Manager)

Busy(w) ==
  \/ w.working # {} \/ w.tools # {}
  \/ \E a \in Agents : w.pending[a] > 0 /\ w.state[a] # "stopped"
Answered(w) == w.replied /\ ~w.holding
Done(w) == Answered(w) /\ ~Busy(w)

-----------------------------------------------------------------------------
(* The runner.                                                             *)

Goes(from, to) == step = from /\ step' = to
Fail == [result EXCEPT !.outcome = "errored"]

\* Run.  Every mount must be empty, so that a retry needs fresh ones.
Begin ==
  /\ Goes("queued", "starting") /\ ~cancelled /\ record = "" /\ outbox.stage = "empty"
  /\ record' = "run" /\ Tell("queued")
  /\ UNCHANGED <<cancelled, session, unread, watch, result, observer, screen, outbox>>
Refuses ==
  /\ Goes("queued", "returned") /\ (cancelled \/ record # "" \/ outbox.stage # "empty")
  /\ result' = Fail
  /\ UNCHANGED <<cancelled, session, unread, watch, observer, told, screen, record, outbox>>

\* runTask: the session starts, is observed and gets the prompt, or not.
Start ==
  /\ Goes("starting", "watching") /\ ~cancelled
  /\ mail' = [mail EXCEPT ![Manager] = 1]
  /\ unread' = <<Event("message", "user", Manager)>>
  /\ observer' = (IF screen THEN "behind" ELSE "off") /\ Tell("running")
  /\ UNCHANGED <<cancelled, state, replied, sent, writing, failed, tree, watch, result, screen, record, outbox>>
StartFails ==
  /\ Goes("starting", "ended") /\ result' = Fail /\ Tell("starting")
  /\ UNCHANGED <<cancelled, session, unread, watch, observer, screen, record, outbox>>

\* wait: it reads the log, and what time may pass in silence depends on it.
Read ==
  /\ step = "watching" /\ unread # <<>>
  /\ watch' = Folded(watch, Head(unread)) /\ unread' = Tail(unread)
  /\ UNCHANGED <<step, cancelled, session, result, observer, told, screen, record, outbox>>

Ends(why) ==
  /\ Goes("watching", "closing")
  /\ result' = [result EXCEPT !.end = why,
       !.quiet = writing = {} /\ \A a \in Agents :
         state[a] = "stopped" \/ (mail[a] = 0 /\ (state[a] = "idle" \/ a \in replied))]
  /\ UNCHANGED <<cancelled, session, unread, watch, observer, told, screen, record, outbox>>
Settles == unread = <<>> /\ Done(watch) /\ Ends("done")
NoReply == unread = <<>> /\ ~Busy(watch) /\ ~Answered(watch) /\ Ends("no_reply")
RunsOut == ~Done(watch) /\ Ends("budget")
Breaks == cancelled /\ Ends("error")

\* cleanup.  Close stops the agents and ends the log, or runs out of time.
Close ==
  /\ Goes("closing", "draining") /\ writing' = {}
  /\ state' = [a \in Agents |-> "stopped"] /\ mail' = None /\ replied' = {}
  /\ UNCHANGED <<cancelled, sent, failed, tree, unread, watch, result, observer, told, screen, record, outbox>>
CloseFails ==
  /\ Goes("closing", "draining") /\ result' = Fail
  /\ UNCHANGED <<cancelled, session, unread, watch, observer, told, screen, record, outbox>>

\* The observer catches up before the session's storage goes, or is cut off.
Drain ==
  /\ Goes("draining", "ended") /\ (observer \in {"on", "off"} \/ result.outcome = "errored")
  /\ observer' = "off"
  /\ result' = [result EXCEPT !.outcome =
       IF @ = "errored" \/ cancelled \/ result.end = "error" \/ (failed /\ ~watch.completed)
       THEN "errored" ELSE "submitted"]
  /\ UNCHANGED <<cancelled, session, unread, watch, told, screen, record, outbox>>

\* Back in Run: a cancelled attempt is no grade, and the result is saved first.
Interrupted ==
  /\ Goes("ended", "reporting") /\ cancelled /\ result' = Fail
  /\ UNCHANGED <<cancelled, session, unread, watch, observer, told, screen, record, outbox>>
Save ==
  /\ step = "ended" /\ ~cancelled /\ record' = result.outcome
  /\ step' = IF result.outcome = "submitted" THEN "publishing" ELSE "reporting"
  /\ UNCHANGED <<cancelled, session, unread, watch, result, observer, told, screen, outbox>>

\* publishSubmission: a copy under another name, then one rename.
Copy ==
  /\ Goes("publishing", "copied") /\ outbox' = [stage |-> "pending", tree |-> tree]
  /\ UNCHANGED <<cancelled, session, unread, watch, result, observer, told, screen, record>>
Publish ==
  /\ Goes("copied", "reporting") /\ ~cancelled /\ outbox' = [outbox EXCEPT !.stage = "ready"]
  /\ UNCHANGED <<cancelled, session, unread, watch, result, observer, told, screen, record>>
PublishFails ==
  /\ step \in {"publishing", "copied"} /\ step' = "reporting" /\ outbox' = [stage |-> "empty", tree |-> 0]
  /\ result' = Fail /\ record' = "errored"
  /\ UNCHANGED <<cancelled, session, unread, watch, observer, told, screen>>

Report ==
  /\ Goes("reporting", "returned") /\ Tell("finished")
  /\ UNCHANGED <<cancelled, session, unread, watch, result, observer, screen, record, outbox>>

\* The container may stop at any point; what it wrote stays.
Crash ==
  /\ step \notin {"returned", "crashed"} /\ step' = "crashed" /\ observer' = "off" /\ screen' = FALSE
  /\ writing' = {} /\ state' = [a \in Agents |-> "stopped"]
  /\ UNCHANGED <<cancelled, mail, replied, sent, failed, tree, unread, watch, result, told, record, outbox>>

\* GradeSubmission, of a submission that is ready and whose results are here.
Ready == outbox.stage = "ready"
Grade(o) ==
  /\ Ready /\ step \in {"returned", "crashed"} /\ record \notin {"", "run"}
  /\ record' = o
  /\ UNCHANGED <<step, cancelled, session, unread, watch, result, observer, told, screen, outbox>>

Next ==
  \/ Show \/ Cancel \/ Sends \/ Reports \/ Replies \/ Waits \/ Fails
  \/ \E a \in Agents : Wakes(a) \/ Consumes(a) \/ Rests(a) \/ WriteStarts(a) \/ WriteEnds(a)
  \/ Begin \/ Refuses \/ Start \/ StartFails \/ Read \/ Settles \/ NoReply \/ RunsOut \/ Breaks
  \/ Close \/ CloseFails \/ Drain \/ Interrupted \/ Save \/ Copy \/ Publish \/ PublishFails \/ Report \/ Crash
  \/ \E o \in {"passed", "failed", "build_failed", "errored"} : Grade(o)

Spec == Init /\ [][Next]_vars

-----------------------------------------------------------------------------
\* What is published is the workspace as the closed session left it, with its
\* result saved beside it: no tool still writes to what a grader reads (Run,
\* runTask, publishSubmission: "only closed sessions can be published").
PublishedIsFinal ==
  Ready => /\ outbox.tree = tree /\ writing = {} /\ \A a \in Agents : state[a] = "stopped"
           /\ record \notin {"", "run"}

\* A session the runner takes for finished is at rest: no agent has mail or is
\* in the middle of an exchange, however late the runner reads the log
\* (watcher.observe, busy, wait).
FinishedIsAtRest == result.end = "done" => result.quiet

\* An attempt without a reply is one where nobody was at work on one.
NoReplyIsIdle == result.end = "no_reply" => result.quiet

\* The observer is told of a task in order, and of nothing after its end
\* (progress.go: "events for a task are ordered").
ToldInOrder == told.ordered

AttemptHolds == PublishedIsFinal /\ FinishedIsAtRest /\ NoReplyIsIdle /\ ToldInOrder
=============================================================================
