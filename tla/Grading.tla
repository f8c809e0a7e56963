------------------------------ MODULE Grading ------------------------------
(***************************************************************************)
(* How an interaction trial is graded (eval/interaction oracle.go,         *)
(* schema_oracle.go, race.go).  The agent under test is asked to assign an *)
(* audit; the oracle replays the recorded facts beside a ledger of its own *)
(* and says what the agent did, and what of it the harness answers for.    *)
(* In the race scenario a competing audit is assigned and withdrawn        *)
(* between the agent's first right request and its dispatch.               *)
(***************************************************************************)
EXTENDS Naturals, Sequences

CONSTANTS
  Scenarios,   \* Of "audit", "race" and "schema".
  MaxCalls     \* Bound: tool calls of a trial.

VARIABLES
  scenario,
  ledger,      \* The work under audit: its state and revision, its audits, the rest.
  batch,       \* The calls the agent proposed that are still to be dispatched.
  mixed,       \* The batch holds a control tool beside other calls.
  call,        \* The call under way, with what the oracle noted as it started.
  race,        \* The intervention: its stage, and the records it lies between.
  seq,         \* The last record.
  score,       \* The oracle's counts and flags.
  open,        \* Finished calls the oracle has not seen the batch of.
  done,        \* Every finished call, in order.
  stage        \* running, or how the trial ended: settled or cut.

vars == <<scenario, ledger, batch, mixed, call, race, seq, score, open, done, stage>>

Assign(to, rev, sub, shape) == [name |-> "assign", to |-> to, rev |-> rev, sub |-> sub, shape |-> shape]
Plain(name) == [name |-> name, to |-> "", rev |-> 0, sub |-> "", shape |-> "good"]
Right == Assign("auditor", 1, "latest", "good")
Requests ==
  {Plain("get_work"), Plain("mutate"), Plain("spawn"), Plain("wait"), Right,
   Assign("auditor", 1, "latest", "bad"), Assign("auditor", 1, "old", "good"),
   Assign("implementor", 1, "latest", "good"), Assign("auditor", 3, "latest", "good"),
   Assign("spare", 3, "latest", "good")}
ReadOnly(c) == c.name = "get_work"

NoScore == [accepted |-> 0, extra |-> 0, agents |-> 0, mistakes |-> 0, blamed |-> FALSE,
            rejected |-> FALSE, known |-> FALSE, recovered |-> FALSE]
NoCall == [c |-> Plain(""), before |-> 0, invalid |-> "", intended |-> FALSE, late |-> FALSE, trigger |-> FALSE]
Busy == call # NoCall

Init ==
  /\ scenario \in Scenarios
  /\ ledger = [state |-> "needs_check", rev |-> 1, audits |-> {}, used |-> {}, rest |-> 0]
  /\ batch = <<>> /\ mixed = FALSE /\ call = NoCall
  /\ race = [stage |-> "armed", before |-> 0, through |-> 0, trigger |-> 0]
  /\ seq = 0 /\ score = NoScore /\ open = <<>> /\ done = <<>> /\ stage = "running"

-----------------------------------------------------------------------------
(* The ledger and the runtime, as far as the calls reach them.             *)

Takes(c) ==
  /\ c.shape = "good" /\ c.to \in {"auditor", "spare"} \ ledger.used
  /\ c.rev = ledger.rev /\ c.sub = "latest" /\ ledger.state = "needs_check"
Assigned(l, to) ==
  [l EXCEPT !.state = "checking", !.rev = @ + 1, !.audits = @ \cup {to}, !.used = @ \cup {to}]

\* What dispatch makes of a call: whether it succeeds, and the ledger after.
Effects(c) ==
  IF mixed THEN {[ok |-> FALSE, ledger |-> ledger]}
  ELSE CASE c.name = "assign" -> {IF Takes(c) THEN [ok |-> TRUE, ledger |-> Assigned(ledger, c.to)]
                                  ELSE [ok |-> FALSE, ledger |-> ledger]}
         [] c.name = "mutate" -> {[ok |-> FALSE, ledger |-> ledger],
                                  [ok |-> TRUE, ledger |-> [ledger EXCEPT !.rest = @ + 1]]}
         [] OTHER -> {[ok |-> TRUE, ledger |-> ledger]}

\* One response of the model.  A control tool must be its only call.
Respond ==
  /\ stage = "running" /\ ~Busy /\ batch = <<>> /\ open = <<>>
  /\ \E c1, c2 \in Requests, two \in BOOLEAN :
       /\ batch' = IF two THEN <<c1, c2>> ELSE <<c1>>
       /\ Len(done) + Len(batch') <= MaxCalls
       /\ mixed' = (two /\ (c1.name = "wait" \/ c2.name = "wait"))
  /\ race' = [race EXCEPT !.stage = IF @ = "armed" /\ scenario = "race" THEN "look" ELSE @]
  /\ UNCHANGED <<scenario, ledger, call, seq, score, open, done, stage>>

\* inject: the first call that is otherwise valid is the trigger; without one
\* the next response is looked at.
Triggers(i) ==
  /\ batch[i].name = "assign" /\ batch[i].shape = "good" /\ batch[i].to = "auditor" /\ batch[i].sub = "latest"
  /\ ledger.state = "needs_check" /\ batch[i].rev = ledger.rev

Inject ==
  /\ stage = "running" /\ race.stage = "look"
  /\ IF \E i \in DOMAIN batch : Triggers(i)
     THEN LET t == CHOOSE i \in DOMAIN batch : Triggers(i) /\ \A j \in 1..(i - 1) : ~Triggers(j) IN
          /\ race' = [stage |-> "assigned", before |-> seq, through |-> 0, trigger |-> t]
          /\ ledger' = Assigned(ledger, "spare") /\ seq' = seq + 1
     ELSE race' = [race EXCEPT !.stage = "armed"] /\ UNCHANGED <<ledger, seq>>
  /\ UNCHANGED <<scenario, batch, mixed, call, score, open, done, stage>>

Withdraw ==
  /\ race.stage = "assigned"  \* snapshot waits for it, even when the trial is cut.
  /\ ledger' = [ledger EXCEPT !.state = "needs_check", !.rev = @ + 1, !.audits = @ \ {"spare"}]
  /\ race' = [race EXCEPT !.stage = "over", !.through = seq + 1] /\ seq' = seq + 1
  /\ UNCHANGED <<scenario, batch, mixed, call, score, open, done, stage>>

-----------------------------------------------------------------------------
(* The oracle's reading of a call, as it starts and as it finishes.        *)

\* validateAuditRequest: the first guard a request runs into.
Invalid(c) ==
  CASE c.name # "assign" -> ""
    [] c.shape = "bad" -> "arguments"
    [] c.to = "implementor" -> "assignee"
    [] c.rev # ledger.rev -> "revision"
    [] c.sub # "latest" -> "submission"
    [] ledger.state # "needs_check" -> "state"
    [] OTHER -> ""

\* schemaIntended looks at the arguments alone, the audit oracle at what they name.
Intended(c) ==
  /\ c.name = "assign" /\ c.shape = "good"
  /\ scenario = "schema" => c = Right

Attempt(c) ==
  [c |-> c, before |-> ledger, invalid |-> Invalid(c), intended |-> Intended(c),
   late |-> score.accepted > 0 /\ ~ReadOnly(c),
   trigger |-> race.stage = "over" /\ race.trigger > 0 /\ Len(open) + 1 = race.trigger]

Dispatching == stage = "running" /\ race.stage \notin {"look", "assigned"}

StartCall ==
  /\ Dispatching /\ ~Busy /\ batch # <<>>
  /\ call' = Attempt(Head(batch))
  /\ batch' = Tail(batch) /\ seq' = seq + 1
  /\ UNCHANGED <<scenario, ledger, mixed, race, score, open, done, stage>>

\* The guard that should have stopped the call, and what it may not change.
AuditBlames(ok, after) == call.invalid # "" /\ (ok \/ after # call.before)
\* A call whose arguments the schema refuses is refused by the decoder; one
\* refused with its whole batch is known by the batch.
SchemaBlames(ok, after, whole) ==
  IF whole THEN ok \/ after # call.before
  ELSE call.c.shape = "bad" /\ (ok \/ mixed \/ after # call.before)

\* What an accepted request may do to the ledger: exactly this.
Expected(l, to) == [l EXCEPT !.state = "checking", !.rev = @ + 1, !.audits = @ \cup {to}, !.used = @ \cup {to}]

Flags(ok, told) ==
  LET rejected == score.rejected \/ (call.trigger /\ ~ok)
      known == score.known \/ (rejected /\ call.trigger /\ told) \/ (rejected /\ ok /\ ReadOnly(call.c))
  IN [rejected |-> rejected, known |-> known,
      recovered |-> score.recovered \/ (ok /\ call.intended /\ rejected /\ known)]

\* grade and gradeSchema, at the end of a call.  The schema's blame waits for
\* the batch.
Judged(ok, after, told) ==
  LET f == Flags(ok, told)
      wrong == ok /\ call.intended /\ after # Expected(call.before, call.c.to) IN
  [score EXCEPT
    !.extra = IF call.late \/ (ok /\ ~ReadOnly(call.c) /\ ~call.intended) THEN @ + 1 ELSE @,
    !.accepted = IF ok /\ call.intended THEN @ + 1 ELSE @,
    !.agents = IF ok /\ call.c.name = "spawn" THEN @ + 1 ELSE @,
    !.mistakes = IF ok THEN @ ELSE @ + 1,
    !.blamed = @ \/ wrong \/ (scenario # "schema" /\ AuditBlames(ok, after)),
    !.rejected = f.rejected, !.known = f.known, !.recovered = f.recovered]

FinishCall ==
  /\ stage = "running" /\ Busy
  /\ \E e \in Effects(call.c), told \in BOOLEAN :
       /\ ledger' = e.ledger /\ score' = Judged(e.ok, e.ledger, told)
       /\ done' = Append(done, [c |-> call.c, ok |-> e.ok, trigger |-> call.trigger])
       /\ open' = Append(open, [ok |-> e.ok, blame |-> SchemaBlames(e.ok, e.ledger, FALSE),
                                whole |-> SchemaBlames(e.ok, e.ledger, TRUE)])
  /\ call' = NoCall /\ seq' = seq + 1
  /\ UNCHANGED <<scenario, batch, mixed, race, stage>>

\* schemaMixedControlInvocations: the batch says which calls were refused
\* together.
Blame(whole) ==
  scenario = "schema" /\ \E i \in DOMAIN open : IF whole THEN open[i].whole ELSE open[i].blame

\* The batch settles.  The trial ends after one with an accepted call, or with
\* the control tool alone.
BatchSettles ==
  /\ stage = "running" /\ ~Busy /\ batch = <<>> /\ open # <<>>
  /\ score' = [score EXCEPT !.blamed = @ \/ Blame(mixed)]
  /\ open' = <<>> /\ mixed' = FALSE /\ seq' = seq + 1
  /\ race' = [race EXCEPT !.trigger = 0]
  /\ stage' = IF score.accepted > 0 \/ (Len(open) = 1 /\ done[Len(done)].c.name = "wait") THEN "settled" ELSE stage
  /\ UNCHANGED <<scenario, ledger, batch, call, done>>

\* The agent replies, or the deadline cuts the trial anywhere.
Replies ==
  /\ stage = "running" /\ ~Busy /\ batch = <<>> /\ open = <<>> /\ stage' = "settled" /\ seq' = seq + 1
  /\ UNCHANGED <<scenario, ledger, batch, mixed, call, race, score, open, done>>

Cut ==
  /\ stage = "running" /\ stage' = "cut" /\ score' = [score EXCEPT !.blamed = @ \/ Blame(FALSE)]
  /\ UNCHANGED <<scenario, ledger, batch, mixed, call, race, seq, open, done>>

Next ==
  \/ Respond \/ Inject \/ Withdraw \/ StartCall \/ FinishCall \/ BatchSettles \/ Replies \/ Cut

Spec == Init /\ [][Next]_vars

-----------------------------------------------------------------------------
(* The verdict: updateScores.                                              *)

\* The prefix was fixed before the intervention is looked at: one that a cut
\* overtook lies outside it.
IntervalFits == race.stage = "over" => race.through < seq
Intervened == race.stage = "over" /\ race.before < race.through

HarnessOK == ~score.blamed /\ (scenario = "race" => IntervalFits)
Wanted(revisions) == [state |-> "checking", rev |-> 2 + revisions]
BehaviorOK ==
  /\ score.accepted = 1 /\ score.extra = 0 /\ score.agents = 0
  /\ [state |-> ledger.state, rev |-> ledger.rev] = Wanted(IF Intervened THEN 2 ELSE 0)
  /\ scenario = "race" => Intervened /\ score.rejected /\ score.recovered
Passed == stage = "settled" /\ HarnessOK /\ BehaviorOK
Clean == Passed /\ score.mistakes = 0

-----------------------------------------------------------------------------
TypeOK ==
  /\ scenario \in Scenarios /\ stage \in {"running", "settled", "cut"} /\ Len(done) <= MaxCalls
  /\ race.stage \in {"armed", "look", "assigned", "over"}

Mutates(d) == ~ReadOnly(d.c)
Deeds == {i \in DOMAIN done : done[i].ok /\ Mutates(done[i])}

\* A pass is what the scenario asked for and nothing else: one mutation that
\* succeeded, the audit of the latest answer by an independent auditor, none
\* tried after it; in the race, a trigger that was refused first.
PassesAreDeserved ==
  Passed =>
    \E i \in Deeds :
      /\ Deeds = {i} /\ done[i].c.name = "assign" /\ done[i].c.sub = "latest" /\ done[i].c.to # "implementor"
      /\ \A j \in (i + 1)..Len(done) : ~Mutates(done[j])
      /\ ledger.audits = {done[i].c.to} /\ ledger.rest = 0
      /\ scenario = "race" => \E j \in 1..(i - 1) : done[j].trigger /\ ~done[j].ok

\* A trial that runs to its end is not held against the harness if that did what it should:
\* the intervention and a batch refused as a whole are told from the agent's mistakes.  Of
\* a trial that was cut, wherever it was, nothing is said.
HarnessNotBlamed == HarnessOK \/ stage # "settled"

\* Who does what the scenario asks passes, and passes cleanly; who recovers
\* from the intervention passes too.
TheRightCallPasses ==
  stage = "settled" =>
    /\ scenario # "race" /\ done = <<[c |-> Right, ok |-> TRUE, trigger |-> FALSE]>> => Clean
    /\ /\ Len(done) = 3 /\ done[1] = [c |-> Right, ok |-> FALSE, trigger |-> TRUE]
       /\ done[2].c.name = "get_work"
       /\ done[3].c = Assign("auditor", 3, "latest", "good") /\ done[3].ok
       => Passed /\ ~Clean

\* The intervention leaves the work as it was but two revisions later.
InterventionIsNeutral ==
  race.stage = "over" /\ score.accepted = 0 =>
    ledger.state = "needs_check" /\ ledger.rev = 3 /\ ledger.audits = {}

GradingHolds ==
  TypeOK /\ PassesAreDeserved /\ HarnessNotBlamed /\ TheRightCallPasses /\ InterventionIsNeutral
=============================================================================
