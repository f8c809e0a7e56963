------------------------------- MODULE Trial -------------------------------
(***************************************************************************)
(* One trial of an interaction scenario, and the run of trials it is part  *)
(* of (eval/interaction/runner.go, report.go).  The agent under test asks  *)
(* a gate before each model call; the runner lets a call through only      *)
(* while the recorded log shows no boundary, and grades the prefix of the  *)
(* log up to the boundary.  The log is the part after the trial's start.   *)
(***************************************************************************)
EXTENDS Naturals, Sequences, FiniteSetsExt

CONSTANTS
  MaxCalls, MaxTools,    \* Options.
  MaxTrials,             \* Planned trials.
  MaxLog                 \* Bound on the records of a trial.

VARIABLES
  log,       \* The records of this trial, by what the oracle sees in them.
  actor,     \* The agent under test and what it has yet to record.
  gate,      \* requestGate: its model calls, proposed tools, budget and provider error.
  watch,     \* The watching goroutine: where it reads and what it offers.
  clock,     \* trialCtx: running, past its deadline, or the run's own end.
  phase,     \* Where runTrial is.
  res,       \* The result.
  lines      \* results.jsonl.

vars == <<log, actor, gate, watch, clock, phase, res, lines>>

\* What the actor records: a call that meets the scenario, a settled batch, a
\* message that is no reply, a reply, a yield, an exit.
Kinds == {"accepted", "batch", "note", "reply", "yield", "exit"}
BoundaryReason(k) == IF k = "note" THEN "reply" ELSE IF k = "exit" THEN "agent_exit" ELSE k
Candidates == Kinds \ {"accepted"}

\* boundaryAfter: the actor's first boundary in the first n records, 0 if none.
\* A batch counts once a call was accepted.
Bounds(i) ==
  \/ log[i] \in {"reply", "yield", "exit"}
  \/ log[i] = "batch" /\ \E j \in 1..i : log[j] = "accepted"
FirstBoundary(n) ==
  LET found == {i \in 1..n : Bounds(i)} IN IF found = {} THEN 0 ELSE Min(found)

\* The zero cursor: no prefix was chosen.
Unchosen == MaxLog + 1
NoResult == [through |-> Unchosen, reason |-> "", class |-> "", outcome |-> "error", facts |-> 0,
             graded |-> FALSE, calls |-> 0]
NoGate == [calls |-> 0, tools |-> 0, budget |-> FALSE, broken |-> FALSE]

Start ==
  /\ log' = <<>> /\ actor' = [at |-> "ready", pending |-> <<>>] /\ gate' = NoGate
  /\ watch' = [at |-> 0, offer |-> 0, on |-> TRUE] /\ clock' = "running"
  /\ phase' = "setup" /\ res' = NoResult

Init ==
  /\ log = <<>> /\ actor = [at |-> "ready", pending |-> <<>>] /\ gate = NoGate
  /\ watch = [at |-> 0, offer |-> 0, on |-> TRUE] /\ clock = "running"
  /\ phase = "setup" /\ res = NoResult /\ lines = <<>>

-----------------------------------------------------------------------------
(* Before the loop: the session and its fixture, the trace, the provider,   *)
(* the manifest, the subscription, the stimulus.                           *)

Leave(r) == phase' = "inspect" /\ res' = r
Fail(r, class) == IF r.class = "" THEN [r EXCEPT !.class = class] ELSE r

\* A step that fails ends the trial with that class, the session, if there is one by then, being
\* disposed of first; without its manifest there is no trial.
SetUp ==
  /\ phase = "setup"
  /\ \/ phase' = "loop" /\ UNCHANGED res
     \/ phase' = "write" /\ res' = Fail(res, "setup")
     \/ phase' = "dispose" /\ \E class \in {"setup", "capture", "provider", "harness"} : res' = Fail(res, class)
     \/ phase' = "over" /\ UNCHANGED res
  /\ UNCHANGED <<log, actor, gate, watch, clock, lines>>

-----------------------------------------------------------------------------
(* The agent under test, through requestGate.Submit.                       *)

\* Its session is closed after the grading.
Open == phase \in {"loop", "inspect", "stats", "grade", "close"}

Request ==
  /\ Open /\ actor.at = "ready" /\ actor' = [actor EXCEPT !.at = "asked"]
  /\ UNCHANGED <<log, gate, watch, clock, phase, res, lines>>

\* What a response makes the actor record.  More calls than the budget are an
\* error before any is dispatched, and an error ends the agent.
Answers ==
  {[tools |-> 1, records |-> <<"accepted", "batch">>], [tools |-> 1, records |-> <<"batch">>],
   [tools |-> 1, records |-> <<"batch", "yield">>], [tools |-> 1, records |-> <<"note", "batch">>],
   [tools |-> 0, records |-> <<"reply">>]}

\* The call is counted before the model is asked.
Count ==
  /\ Open /\ actor.at = "granted" /\ actor' = [actor EXCEPT !.at = "calling"]
  /\ gate' = [gate EXCEPT !.calls = @ + 1]
  /\ UNCHANGED <<log, watch, clock, phase, res, lines>>

Respond ==
  /\ Open /\ actor.at = "calling"
  /\ \E a \in Answers :
       LET over == gate.tools + a.tools > MaxTools IN
       /\ gate' = [gate EXCEPT !.tools = @ + a.tools, !.budget = @ \/ over]
       /\ actor' = [at |-> "records", pending |-> IF over THEN <<"exit">> ELSE a.records]
  /\ UNCHANGED <<log, watch, clock, phase, res, lines>>

\* Malformed arguments, or too much reasoning: the agent is told and tries again, or gives up.
OutputFails ==
  /\ Open /\ actor.at = "calling"
  /\ actor' \in {[at |-> "ready", pending |-> <<>>], [at |-> "records", pending |-> <<"exit">>]}
  /\ UNCHANGED <<log, gate, watch, clock, phase, res, lines>>

ProviderFails ==
  /\ Open /\ actor.at = "calling"
  /\ gate' = [gate EXCEPT !.broken = TRUE]
  /\ actor' = [at |-> "records", pending |-> <<"exit">>]
  /\ UNCHANGED <<log, watch, clock, phase, res, lines>>

\* After a batch the exchange goes on; after a reply or a yield the agent
\* waits, and a notice in its inbox wakes it.
After(k) == CASE k = "exit" -> "gone" [] k = "batch" -> "ready" [] OTHER -> "waits"

Record ==
  /\ Open /\ actor.at = "records" /\ Len(log) < MaxLog
  /\ log' = Append(log, Head(actor.pending))
  /\ LET rest == Tail(actor.pending) IN
     actor' = [at |-> IF rest = <<>> THEN After(Head(actor.pending)) ELSE "records", pending |-> rest]
  /\ UNCHANGED <<gate, watch, clock, phase, res, lines>>

Wakes ==
  /\ Open /\ actor.at = "waits" /\ actor' = [actor EXCEPT !.at = "ready"]
  /\ UNCHANGED <<log, gate, watch, clock, phase, res, lines>>

-----------------------------------------------------------------------------
(* The watcher, and the clock.                                             *)

WatchNext ==
  /\ phase = "loop" /\ watch.on /\ watch.offer = 0 /\ watch.at < Len(log)
  /\ LET n == watch.at + 1 IN
     watch' = [watch EXCEPT !.at = n, !.offer = IF log[n] \in Candidates \ {"note"} THEN n ELSE 0]
  /\ UNCHANGED <<log, actor, gate, clock, phase, res, lines>>

\* The deadline of the trial, or the end of the whole run.
TimePasses ==
  /\ Open \/ phase = "setup"
  /\ \/ clock = "running" /\ clock' \in {"deadline", "interrupted"}
     \/ clock = "deadline" /\ clock' = "interrupted"
  /\ UNCHANGED <<log, actor, gate, watch, phase, res, lines>>

-----------------------------------------------------------------------------
(* The runner's loop.                                                      *)

\* observationFailed: a read that fails because the trial is over is a
\* timeout, and the prefix is chosen again; any other is an error of capture.
TimedOut(r) ==
  [r EXCEPT !.through = Unchosen, !.reason = "timeout",
            !.class = IF clock = "interrupted" THEN "interrupted" ELSE @]
ObservationFailed(r) ==
  {[r EXCEPT !.class = "capture"]} \cup (IF clock = "running" THEN {} ELSE {TimedOut(r)})

\* readFacts to the boundary that was found.
StopAt(b) ==
  LET r == [res EXCEPT !.through = b, !.reason = BoundaryReason(log[b])] IN
  \/ Leave([r EXCEPT !.facts = b])
  \/ \E f \in ObservationFailed(r) : Leave(f)

\* A request at the gate: the log as it is now decides, not what the watcher
\* has come to.
SeeRequest ==
  /\ phase = "loop" /\ actor.at = "asked"
  /\ LET b == FirstBoundary(Len(log)) IN
     \/ \E f \in ObservationFailed(res) : Leave(f) /\ UNCHANGED actor
     \/ b > 0 /\ StopAt(b) /\ UNCHANGED actor
     \/ /\ b = 0 /\ gate.calls >= MaxCalls
        /\ Leave([res EXCEPT !.through = Len(log), !.facts = Len(log), !.reason = "call_budget"])
        /\ UNCHANGED actor
     \/ /\ b = 0 /\ gate.calls < MaxCalls
        /\ actor' = [actor EXCEPT !.at = "granted"] /\ UNCHANGED <<phase, res>>
  /\ UNCHANGED <<log, gate, watch, clock, lines>>

SeeBoundary ==
  /\ phase = "loop" /\ watch.offer > 0 /\ watch' = [watch EXCEPT !.offer = 0]
  /\ LET b == FirstBoundary(watch.offer) IN
     \/ \E f \in ObservationFailed(res) : Leave(f)
     \/ b > 0 /\ StopAt(b)
     \/ b = 0 /\ UNCHANGED <<phase, res>>
  /\ UNCHANGED <<log, actor, gate, clock, lines>>

\* The subscription fails.
WatchFails ==
  /\ phase = "loop" /\ watch.on /\ watch.offer = 0 /\ watch' = [watch EXCEPT !.on = FALSE]
  /\ \E f \in ObservationFailed(res) : Leave(f)
  /\ UNCHANGED <<log, actor, gate, clock, lines>>

SeeDeadline ==
  /\ phase = "loop" /\ clock # "running" /\ Leave(TimedOut(res))
  /\ UNCHANGED <<log, actor, gate, watch, clock, lines>>

-----------------------------------------------------------------------------
(* After the loop.  The actor's last call may still be answered.           *)

\* Nothing was chosen: the head of the log is.
Inspect ==
  /\ phase = "inspect" /\ phase' = "stats"
  /\ IF res.through # Unchosen THEN UNCHANGED res
     ELSE res' \in {[res EXCEPT !.through = Len(log), !.facts = Len(log)],
                    Fail(res, "capture"), Fail([res EXCEPT !.through = Len(log), !.facts = 0], "capture")}
  /\ UNCHANGED <<log, actor, gate, watch, clock, lines>>

Stats ==
  /\ phase = "stats" /\ phase' = "grade"
  /\ LET r == [res EXCEPT !.calls = gate.calls, !.reason = IF gate.budget THEN "tool_budget" ELSE @] IN
     res' = IF gate.broken THEN Fail(r, "provider") ELSE r
  /\ UNCHANGED <<log, actor, gate, watch, clock, lines>>

\* What the oracle sees in the facts: one call met the scenario.
Passes(n) == \E i \in 1..n : log[i] = "accepted" /\ \A j \in 1..n : log[j] = "accepted" => j = i
Verdict(n) == IF Passes(n) THEN "passed" ELSE "failed"
Budgets == {"timeout", "call_budget", "tool_budget"}

Grade ==
  /\ phase = "grade" /\ phase' = "close"
  /\ res' = CASE res.class # "" -> res
              [] res.reason \in Budgets -> [res EXCEPT !.graded = TRUE, !.outcome = "failed", !.class = "budget"]
              [] OTHER -> [res EXCEPT !.graded = TRUE, !.outcome = Verdict(res.facts)]
  /\ UNCHANGED <<log, actor, gate, watch, clock, lines>>

\* Close, then the archive is read again up to the same record and scored.
Rescored(r) == IF r.class = "budget" THEN r ELSE [r EXCEPT !.outcome = Verdict(r.through)]
CloseSession ==
  /\ phase = "close" /\ phase' = "dispose"
  /\ \E closed, opened \in BOOLEAN :
       LET c == IF closed THEN res ELSE Fail(res, "cleanup")
           o == IF c.class \notin {"", "budget"} THEN c
                ELSE IF opened THEN Rescored(c) ELSE [c EXCEPT !.class = "capture"] IN
       res' = IF o.class \in {"", "budget"} THEN o ELSE [o EXCEPT !.outcome = "error"]
  /\ UNCHANGED <<log, actor, gate, watch, clock, lines>>

\* The deferred Dispose comes before result.json.
Dispose ==
  /\ phase = "dispose" /\ phase' = "write"
  /\ res' \in {res, [res EXCEPT !.class = "cleanup", !.outcome = "error"]}
  /\ UNCHANGED <<log, actor, gate, watch, clock, lines>>

-----------------------------------------------------------------------------
(* Run: one line a trial, in order, the file synced after each.            *)

\* A full line, or one that a failure cut short; result.json, written before it, may fail too.
Line(whole) == [trial |-> Len(lines) + 1, outcome |-> res.outcome, whole |-> whole]
WriteLine ==
  /\ phase = "write"
  /\ \/ phase' = "over" /\ UNCHANGED lines
     \/ \E whole \in BOOLEAN : /\ lines' = Append(lines, Line(whole))
                              /\ phase' = IF whole THEN "next" ELSE "over"
  /\ UNCHANGED <<log, actor, gate, watch, clock, res>>

\* The run's context may have ended since, too.
NextTrial ==
  /\ phase = "next"
  /\ \/ Len(lines) < MaxTrials /\ clock # "interrupted" /\ Start
     \/ phase' = "over" /\ UNCHANGED <<log, actor, gate, watch, clock, res>>
  /\ UNCHANGED lines

\* ReadReport: a line it cannot read, a trial recorded twice, or more trials than were planned
\* fail the whole read.
ReadReport ==
  IF /\ \A i \in DOMAIN lines : lines[i].whole
     /\ \A i, j \in DOMAIN lines : lines[i].trial = lines[j].trial => i = j
     /\ Len(lines) <= MaxTrials
  THEN [ok |-> TRUE, results |-> [i \in DOMAIN lines |-> lines[i].outcome]]
  ELSE [ok |-> FALSE, results |-> <<>>]

Next ==
  \/ SetUp \/ Request \/ Count \/ Respond \/ OutputFails \/ ProviderFails \/ Record \/ Wakes \/ WatchNext \/ TimePasses
  \/ SeeRequest \/ SeeBoundary \/ WatchFails \/ SeeDeadline
  \/ Inspect \/ Stats \/ Grade \/ CloseSession \/ Dispose \/ WriteLine \/ NextTrial

Spec == Init /\ [][Next]_vars

-----------------------------------------------------------------------------
TypeOK ==
  /\ log \in Seq(Kinds) /\ Len(log) <= MaxLog /\ gate.calls \in 0..MaxCalls
  /\ phase \in {"setup", "loop", "inspect", "stats", "grade", "close", "dispose", "write", "next", "over"}
  /\ watch.at <= Len(log) /\ (res.through # Unchosen => res.through <= Len(log))

\* No model call gets past a boundary the log already shows, however far the
\* subscription is behind (firstBoundary's comment: a queued wake must not pass
\* the gate while an earlier reply is still being delivered).
NoCallPastBoundary == actor.at \in {"granted", "calling"} => FirstBoundary(Len(log)) = 0

\* A trial that stopped at a boundary stopped at the first there is, whatever
\* was recorded since; what was graded is exactly the prefix the result names.
GradesTheFirst ==
  /\ res.reason \in {"batch", "reply", "yield", "agent_exit"} /\ res.class = "" /\ phase # "loop" =>
       res.through = FirstBoundary(Len(log))
  /\ res.graded /\ phase \in {"close", "dispose"} => res.facts = res.through

\* A pass is a pass: a boundary reached within the budgets, one accepted call,
\* and no failure on the way to the record.
PassesAreEarned ==
  phase \in {"write", "next"} /\ res.outcome = "passed" =>
    /\ res.class = "" /\ res.reason \notin Budgets /\ Passes(res.through) /\ ~gate.budget
    /\ res.calls <= MaxCalls

\* What is read back is every trial that was recorded, or nothing
\* (ReadReport's comment: a damaged run acquires no smaller denominator).
ReportsKeepTrials ==
  /\ ReadReport.ok <=> \A i \in DOMAIN lines : lines[i].whole
  /\ ReadReport.ok => Len(ReadReport.results) = Len(lines) /\ (phase = "next" => lines[Len(lines)].outcome = res.outcome)

TrialHolds == TypeOK /\ NoCallPastBoundary /\ GradesTheFirst /\ PassesAreEarned /\ ReportsKeepTrials
=============================================================================
