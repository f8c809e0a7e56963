---------------------------- MODULE Experiments ----------------------------
(***************************************************************************)
(* Experiments (work/experiment.go): hypotheses are recorded before they are *)
(* measured, the runs that measure them are bound to the assignment they are *)
(* made for (internal/workflow/work_execution.go), and a conclusion is       *)
(* delivered once every hypothesis has its result.  Hypotheses and runs take *)
(* their numbers from one counter, which is how the ledger tells which came  *)
(* first.  An agent makes one call at a time; the manager assigns and        *)
(* cancels meanwhile.                                                        *)
(***************************************************************************)
EXTENDS Naturals, Sequences, FiniteSets

CONSTANTS Agents, Works, Steps,   \* experimenters; work items; steps of the plan
          NoStep,                 \* an experiment that is scoped to none
          MaxHypotheses,          \* 16 in the code
          MaxRefs,                \* refs of one result: 8 in the code
          MaxIssued               \* bound: hypotheses and runs together

Verdicts == {"supported", "refuted", "inconclusive"}
Open == "none"  \* the verdict of a hypothesis that has no result

VARIABLES works,       \* [state, assignee, step, hypotheses] of each work item
          steps,       \* [status, by]: by is the work that reserves the step
          issued,      \* hypotheses and runs numbered so far
          call,        \* what each agent's shell call has come to
          runs,        \* the runs that were given a number
          recorded,    \* those whose result is in the event log
          conclusions  \* what was delivered for each work item

vars == <<works, steps, issued, call, runs, recorded, conclusions>>

Idle == [pc |-> "idle"]
Unassigned == [state |-> "none", assignee |-> "", step |-> NoStep, hypotheses |-> <<>>]
Active(a) == {w \in Works : works[w].state = "active" /\ works[w].assignee = a}
Predicted == UNION {{h.seq : h \in {works[w].hypotheses[i] : i \in DOMAIN works[w].hypotheses}} : w \in Works}
Unresolved(w) == {i \in DOMAIN works[w].hypotheses : works[w].hypotheses[i].verdict = Open}

Init ==
  /\ works = [w \in Works |-> Unassigned]
  /\ steps = [s \in Steps |-> [status |-> "pending", by |-> NoStep]]
  /\ issued = 0
  /\ call = [a \in Agents |-> Idle]
  /\ runs = {}
  /\ recorded = {}
  /\ conclusions = [w \in Works |-> <<>>]

----------------------------------------------------------------------------
(* The plan's steps: reserved while an experiment holds them.               *)

Available(s) == s \in Steps => steps[s].by = NoStep /\ steps[s].status # "completed"
Reserve(s, w) ==
  steps' = [t \in Steps |-> IF t = s THEN [steps[t] EXCEPT !.by = w] ELSE steps[t]]
Settle(w, status) ==
  steps' = [t \in Steps |-> IF steps[t].by = w THEN [status |-> status, by |-> NoStep] ELSE steps[t]]

AssignExperiment(w, a, s) ==
  /\ works[w].state = "none"
  /\ Available(s)
  /\ works' = [works EXCEPT ![w] = [Unassigned EXCEPT !.state = "active", !.assignee = a, !.step = s]]
  /\ Reserve(s, w)
  /\ UNCHANGED <<issued, call, runs, recorded, conclusions>>

\* The manager cancels it, whatever its experimenter is doing.
Cancel(w) ==
  /\ works[w].state = "active"
  /\ works' = [works EXCEPT ![w].state = "cancelled"]
  /\ Settle(w, "pending")
  /\ UNCHANGED <<issued, call, runs, recorded, conclusions>>

----------------------------------------------------------------------------
(* One run of the shell.  It is bound to the agent's sole active assignment  *)
(* when the call begins; a run of an agent with none or several is a plain   *)
(* one, and leaves nothing to cite.                                          *)

\* held and saw are what the properties compare: what the agent held when
\* its run was bound, and what had been predicted when the command started.
Bound(a, W) == Cardinality(W) = 1

AdmitExecution(a, w) ==
  /\ call[a] = Idle
  /\ w \in Active(a)
  /\ Bound(a, Active(a))
  /\ call' = [call EXCEPT ![a] = [pc |-> "admitted", work |-> w, held |-> Active(a)]]
  /\ UNCHANGED <<works, steps, issued, runs, recorded, conclusions>>

NewExecutionRef(a) ==
  /\ call[a].pc = "admitted"
  /\ issued < MaxIssued
  /\ issued' = issued + 1
  /\ call' = [call EXCEPT ![a] = [pc |-> "issued", ref |-> issued', work |-> @.work, held |-> @.held]]
  /\ UNCHANGED <<works, steps, runs, recorded, conclusions>>

Start(a) ==
  /\ call[a].pc = "issued"
  /\ runs' = runs \cup {[ref |-> call[a].ref, actor |-> a, work |-> call[a].work,
                         held |-> call[a].held, saw |-> Predicted]}
  /\ call' = [call EXCEPT ![a] = [pc |-> "running", ref |-> @.ref]]
  /\ UNCHANGED <<works, steps, issued, recorded, conclusions>>

Finish(a) ==
  /\ call[a].pc = "running"
  /\ call' = [call EXCEPT ![a] = Idle]
  /\ UNCHANGED <<works, steps, issued, runs, recorded, conclusions>>

\* The result reaches the log, where the ledger looks runs up.
Record(r) ==
  /\ r \notin recorded
  /\ call[r.actor] # [pc |-> "running", ref |-> r.ref]
  /\ recorded' = recorded \cup {r}
  /\ UNCHANGED <<works, steps, issued, call, runs, conclusions>>

----------------------------------------------------------------------------
(* What the experimenter reports.                                           *)

ActiveExperiment(a, w) == call[a] = Idle /\ w \in Active(a)

RecordHypothesis(a, w) ==
  /\ ActiveExperiment(a, w)
  /\ Len(works[w].hypotheses) < MaxHypotheses
  /\ issued < MaxIssued
  /\ issued' = issued + 1
  /\ works' = [works EXCEPT ![w].hypotheses =
                 Append(@, [seq |-> issued', verdict |-> Open, refs |-> {}])]
  /\ UNCHANGED <<steps, call, runs, recorded, conclusions>>

\* A run counts for h: this assignment's, and numbered after h was.
CheckRun(a, w, h, ref) ==
  \E r \in recorded : r.ref = ref /\ r.work = w /\ r.actor = a /\ ref > h.seq

RecordResult(a, w, i, verdict, refs) ==
  /\ ActiveExperiment(a, w)
  /\ works[w].hypotheses[i].verdict = Open
  /\ verdict # "inconclusive" => refs # {}
  /\ Cardinality(refs) <= MaxRefs
  /\ \A ref \in refs : CheckRun(a, w, works[w].hypotheses[i], ref)
  /\ works' = [works EXCEPT ![w].hypotheses[i].verdict = verdict,
                            ![w].hypotheses[i].refs = refs]
  /\ UNCHANGED <<steps, issued, call, runs, recorded, conclusions>>

SubmitExperiment(a, w) ==
  /\ ActiveExperiment(a, w)
  /\ works[w].hypotheses # <<>>
  /\ Unresolved(w) = {}
  /\ conclusions' = [conclusions EXCEPT ![w] = works[w].hypotheses]
  /\ works' = [works EXCEPT ![w].state = "delivered"]
  /\ Settle(w, "completed")
  /\ UNCHANGED <<issued, call, runs, recorded>>

----------------------------------------------------------------------------

Manages == \E w \in Works :
  \/ \E a \in Agents, s \in Steps \cup {NoStep} : AssignExperiment(w, a, s)
  \/ Cancel(w)

Measures(a) ==
  \/ \E w \in Works : AdmitExecution(a, w)
  \/ NewExecutionRef(a)
  \/ Start(a)
  \/ Finish(a)

Reports(a, w) ==
  \/ RecordHypothesis(a, w)
  \/ SubmitExperiment(a, w)
  \/ \E i \in DOMAIN works[w].hypotheses, verdict \in Verdicts, refs \in SUBSET {r.ref : r \in runs} :
       RecordResult(a, w, i, verdict, refs)

Next ==
  \/ Manages
  \/ \E a \in Agents : Measures(a)
  \/ \E a \in Agents, w \in Works : Reports(a, w)
  \/ \E r \in runs : Record(r)

Spec == Init /\ [][Next]_vars

----------------------------------------------------------------------------

Hypotheses(w) == {works[w].hypotheses[i] : i \in DOMAIN works[w].hypotheses}

\* No result rests on data that was there before the prediction: every run a
\* result cites started after its hypothesis had been recorded, with others
\* and cancellations and unrelated runs in between.
PredictedBeforeMeasured ==
  \A w \in Works : \A h \in Hypotheses(w) : \A ref \in h.refs :
    \E r \in runs : r.ref = ref /\ h.seq \in r.saw

\* What is cited was measured for this work and no other: its agent held this
\* work alone when the run was bound, whatever it was given or lost before
\* the command ran.
RunsAreTheAssignments ==
  \A w \in Works : \A h \in Hypotheses(w) : \A ref \in h.refs :
    \E r \in runs : r.ref = ref /\ r.actor = works[w].assignee /\ r.held = {w}

\* A delivered conclusion is complete and stays what the work says: it has a
\* verdict for each hypothesis, with evidence unless it is inconclusive, and
\* nothing else of the experiment is open; no other experiment has one.
ConclusionIsComplete ==
  \A w \in Works :
    /\ works[w].state = "delivered" => works[w].hypotheses # <<>>
    /\ conclusions[w] = IF works[w].state = "delivered" THEN works[w].hypotheses ELSE <<>>
    /\ \A i \in DOMAIN conclusions[w] :
         /\ conclusions[w][i].verdict # Open
         /\ conclusions[w][i].verdict # "inconclusive" => conclusions[w][i].refs # {}

\* A step is completed only by a delivery and held by one live experiment.
StepsFollow ==
  /\ \A w \in Works : works[w].step # NoStep =>
       /\ works[w].state = "active" <=> steps[works[w].step].by = w
       /\ works[w].state = "delivered" => steps[works[w].step].status = "completed"
  /\ \A s \in Steps : steps[s].status = "completed" <=>
       \E w \in Works : works[w].step = s /\ works[w].state = "delivered"

ExperimentsHold ==
  PredictedBeforeMeasured /\ RunsAreTheAssignments /\ ConclusionIsComplete /\ StepsFollow
=============================================================================
