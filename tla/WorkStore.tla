----------------------------- MODULE WorkStore -----------------------------
(***************************************************************************)
(* The work ledger of one conversation (work.Store): plans and their       *)
(* steps, assignments, submissions and audits, and the review cycle        *)
(*                                                                         *)
(*   assign -> submit -> audit -> accept | repair -> submit -> ...         *)
(*                                                                         *)
(* Every mutation runs between beginMutation and endMutation under the     *)
(* store's emission and state locks, so a mutation is one atomic step.     *)
(* How its events reach the log, and what a publication failure does, is   *)
(* the subject of WorkLedger.                                              *)
(*                                                                         *)
(* A map of the code keyed by ids is a total function whose records of     *)
(* ids not yet minted are "unissued".  A request whose ExpectedRevision is *)
(* not the record's current one is refused and changes nothing, so only    *)
(* requests with the current revision are actions here; RevisionFences     *)
(* states what makes that check sound.  Texts (titles, tasks, summaries,   *)
(* notes) are left out, except a step's acceptance criteria, which an      *)
(* edit may change while nobody works on the step.                         *)
(***************************************************************************)
EXTENDS Integers, FiniteSets, TLC

CONSTANTS
  Actor,            \* agents, and the actors they act as
  Manager,          \* the actors that hold the planning and assigning tools
  PlanID, StepID, WorkID, SubmissionID, AuditID,
  Criteria,         \* the acceptance criteria a step may carry
  None,             \* the empty id
  AssignedKind,     \* the kinds of step-completing work an instance assigns
  ReportedStatus,   \* the step statuses an instance's reports set
  MaxAssigned,      \* bounds the works assigned by Assign; audits and repairs come on top
  MaxRevision,      \* bounds the revision that reports and hypotheses reach
  MaxPlanRevision,  \* bounds the plan updates
  MaxHypotheses     \* maxHypotheses of the code

ASSUME StoreAssumption ==
  /\ Manager \subseteq Actor
  /\ None \notin Actor \cup PlanID \cup StepID \cup WorkID \cup SubmissionID \cup AuditID
  /\ Criteria # {}
  /\ AssignedKind \subseteq {"implementation", "investigation", "experiment"}
  /\ ReportedStatus \subseteq {"pending", "in_progress", "blocked", "ready_for_review"}
  /\ MaxAssigned \in Nat /\ MaxRevision \in Nat
  /\ MaxPlanRevision \in Nat /\ MaxHypotheses \in Nat

VARIABLES
  planOwner,     \* who created the plan; None: no such plan
  planRevision,
  stepPlan,      \* the plan a step belongs to; None: no such step
  stepStatus,
  stepCriteria,
  reserved,      \* the work that holds the step, or None
  works,
  submissions,
  audits,
  emitted        \* the events the last mutation appended

planVars == <<planOwner, planRevision, stepPlan, stepStatus, stepCriteria>>
vars == <<planOwner, planRevision, stepPlan, stepStatus, stepCriteria, reserved,
          works, submissions, audits, emitted>>

----------------------------------------------------------------------------
(* Records. *)

\* Review, web research and deep research take the same transitions.
Holding == {"implementation", "investigation", "experiment"}
Kind == Holding \cup {"audit", "repair"}
Terminal == {"accepted", "closed", "cancelled", "delivered"}
State == {"active", "needs_check", "checking", "changes_requested"} \cup Terminal
ReportableStatus == {"pending", "in_progress", "blocked", "ready_for_review"}
StepStatus == ReportableStatus \cup {"completed", "cancelled"}
EventKind == {"plan_changed", "work_assigned", "work_progress_reported", "review_requested",
              "audit_completed", "work_cancelled", "brief_delivered",
              "hypothesis_recorded", "hypothesis_resolved", "experiment_delivered"}

Work == [kind : Kind \cup {"none"}, state : State \cup {"unissued"}, revision : Nat,
         owner : Actor \cup {None}, assignee : Actor \cup {None}, scope : SUBSET StepID,
         blocked : BOOLEAN, parent : WorkID \cup {None},
         subject : SubmissionID \cup {None}, requestedBy : AuditID \cup {None},
         latestSubmission : SubmissionID \cup {None}, latestAudit : AuditID \cup {None},
         activeRepair : WorkID \cup {None}, open : Nat, resolved : Nat]

Submission == [work : WorkID \cup {None}, by : Actor \cup {None},
               supersedes : SubmissionID \cup {None}, criteria : [StepID -> Criteria \cup {None}]]

Audit == [work : WorkID \cup {None}, submission : SubmissionID \cup {None},
          by : Actor \cup {None}, verdict : {"none", "pass", "fail"},
          affected : SUBSET StepID]

Event == [kind : EventKind, work : WorkID \cup {None}, submission : SubmissionID \cup {None}]

Unissued ==
  [kind |-> "none", state |-> "unissued", revision |-> 0, owner |-> None, assignee |-> None,
   scope |-> {}, blocked |-> FALSE, parent |-> None, subject |-> None, requestedBy |-> None,
   latestSubmission |-> None, latestAudit |-> None, activeRepair |-> None,
   open |-> 0, resolved |-> 0]

\* A work item as every assignment creates it: active, at revision 1.
NewWork(kind, owner, assignee, scope) ==
  [Unissued EXCEPT !.kind = kind, !.state = "active", !.revision = 1,
                   !.owner = owner, !.assignee = assignee, !.scope = scope]

NoSubmission == [work |-> None, by |-> None, supersedes |-> None,
                 criteria |-> [s \in StepID |-> None]]
NoAudit == [work |-> None, submission |-> None, by |-> None, verdict |-> "none", affected |-> {}]

Announce(kind, w, sub) == [kind |-> kind, work |-> w, submission |-> sub]

----------------------------------------------------------------------------
(* Reading the ledger. *)

Issued(w) == works[w].state # "unissued"
\* Faulty variant: accepted and closed work still counts as live.
LiveUnlessCancelled(w) == Issued(w) /\ works[w].state # "cancelled"
Live(w) == Issued(w) /\ works[w].state \notin Terminal

\* Ids are opaque and never reused, and nothing depends on which one is minted.
Fresh(S) == CHOOSE x \in S : TRUE
FreshWorks == {w \in WorkID : ~Issued(w)}
FreshSubmissions == {s \in SubmissionID : submissions[s].work = None}
FreshAudits == {a \in AuditID : audits[a].work = None}

Children(w) == {c \in WorkID : works[c].parent = w /\ Live(c)}

\* Faulty variant: a reserved step may be taken again.
AssignableIfOpen(s) == stepStatus[s] \notin {"completed", "cancelled"}
\* A step of a plan that new work may take.
Assignable(s) == reserved[s] = None /\ stepStatus[s] \notin {"completed", "cancelled"}

\* Work without a scope (the empty set) covers no step.
CheckScope(actor, scope) ==
  \/ scope = {}
  \/ \E p \in PlanID : /\ planOwner[p] = actor
                       /\ \A s \in scope : stepPlan[s] = p /\ Assignable(s)

Reserve(w, scope) == [s \in StepID |-> IF s \in scope THEN w ELSE reserved[s]]
Held(w) == {s \in StepID : reserved[s] = w}
Release(S) == [s \in StepID |-> IF s \in S THEN None ELSE reserved[s]]
WithStatus(S, status) == [s \in StepID |-> IF s \in S THEN status ELSE stepStatus[s]]

\* The submissions that `sub` replaces, itself included: the least set that holds
\* it, if there is one, and with a submission the one it supersedes.
Superseded(S) == \A x \in S : submissions[x].supersedes \in S \cup {None}
Chain(sub) ==
  {x \in SubmissionID :
     \A S \in SUBSET SubmissionID : sub \in S \cup {None} /\ Superseded(S) => x \in S}
Contributor(actor, sub) == \E s \in Chain(sub) : submissions[s].by = actor
HeldWork(actor) == \E w \in WorkID : works[w].assignee = actor

\* The holder the state block shows: of the live work that covers the step, the
\* one that completes it.
Rank == [implementation |-> 0, repair |-> 1, audit |-> 2, investigation |-> 3, experiment |-> 4]
\* Faulty variant: the order of the kinds is reversed.
ReservesAfter(v, w) == Rank[works[v].kind] >= Rank[works[w].kind]
ReservesBefore(v, w) == Rank[works[v].kind] <= Rank[works[w].kind]
ShownReservation(s) ==
  LET covering == {w \in WorkID : Live(w) /\ s \in works[w].scope} IN
  IF covering = {} THEN None
  ELSE CHOOSE w \in covering : \A v \in covering : ReservesBefore(w, v)

Submittable(original) ==
  \A s \in works[original].scope : stepStatus[s] \in {"pending", "in_progress", "ready_for_review"}

\* n new steps join plan p, and the cancelled ones end.
AddSteps(p, n, cancel, criteria) ==
  LET unused == {s \in StepID : stepPlan[s] = None}
      new == CHOOSE S \in SUBSET unused : Cardinality(S) = n
  IN
  /\ n <= Cardinality(unused)
  /\ stepPlan' = [s \in StepID |-> IF s \in new THEN p ELSE stepPlan[s]]
  /\ stepStatus' = WithStatus(cancel, "cancelled")
  /\ stepCriteria' = criteria

----------------------------------------------------------------------------
(* Plans. *)

\* A created plan gets n new steps; an existing one may, in one update, get new
\* steps, reworded criteria (edit) and cancelled steps.  Titles and the order of
\* steps are left out, so an update may also change nothing but the revision.
CreatePlan(actor, n) ==
  LET unused == {p \in PlanID : planOwner[p] = None}
      p == Fresh(unused)
  IN
  /\ unused # {} /\ n > 0
  /\ planOwner' = [planOwner EXCEPT ![p] = actor]
  /\ planRevision' = [planRevision EXCEPT ![p] = 1]
  /\ AddSteps(p, n, {}, stepCriteria)
  /\ emitted' = {Announce("plan_changed", None, None)}
  /\ UNCHANGED <<reserved, works, submissions, audits>>

\* Faulty variants: completed steps, or reserved steps, may be edited.
EditableCompleted(p) == {s \in StepID : stepPlan[s] = p /\ reserved[s] = None}
EditableReserved(p) == {s \in StepID : stepPlan[s] = p /\ stepStatus[s] # "completed"}

Editable(p) == {s \in StepID : stepPlan[s] = p /\ reserved[s] = None
                                 /\ stepStatus[s] # "completed"}

UpdatePlan(actor, p, n, edit, cancel, criteria) ==
  /\ planOwner[p] = actor
  /\ planRevision[p] < MaxPlanRevision
  /\ edit \cup cancel \subseteq Editable(p) /\ edit \cap cancel = {}
  /\ \A s \in edit : criteria # stepCriteria[s]
  /\ planRevision' = [planRevision EXCEPT ![p] = @ + 1]
  /\ AddSteps(p, n, cancel,
              [s \in StepID |-> IF s \in edit THEN criteria ELSE stepCriteria[s]])
  /\ emitted' = {Announce("plan_changed", None, None)}
  /\ UNCHANGED <<planOwner, reserved, works, submissions, audits>>

----------------------------------------------------------------------------
(* Assignments. *)

Assign(kind, actor, assignee, scope) ==
  LET w == Fresh(FreshWorks) IN
  /\ FreshWorks # {} /\ kind \in AssignedKind
  /\ Cardinality({x \in WorkID : works[x].kind \in Holding}) < MaxAssigned
  /\ CheckScope(actor, scope)
  /\ works' = [works EXCEPT ![w] = NewWork(kind, actor, assignee, scope)]
  /\ reserved' = Reserve(w, scope)
  /\ emitted' = {Announce("work_assigned", w, None)}
  /\ UNCHANGED <<planVars, submissions, audits>>

AssignWork(actor, assignee, scope) == Assign("implementation", actor, assignee, scope)
AssignInvestigation(actor, assignee, scope) == Assign("investigation", actor, assignee, scope)
AssignExperiment(actor, assignee, scope) == Assign("experiment", actor, assignee, scope)

\* Active work and the steps it may report on.
Reportable(w) ==
  IF works[w].kind \in {"implementation", "repair"} THEN works[w].scope ELSE {}

\* A report carries a position, which sets or clears the blocker (blocked is the
\* blocker after the report), findings, and a status for some of the work's steps.
ReportWorkProgress(actor, w, blocked, steps, status) ==
  /\ works[w].assignee = actor /\ works[w].state = "active"
  /\ works[w].revision < MaxRevision
  /\ steps \subseteq Reportable(w)
  /\ stepStatus' = [s \in StepID |-> IF s \in steps THEN status[s] ELSE stepStatus[s]]
  /\ works' = [works EXCEPT ![w].blocked = blocked, ![w].revision = @ + 1]
  /\ emitted' = {Announce("work_progress_reported", w, works[w].latestSubmission)}
  /\ UNCHANGED <<planOwner, planRevision, stepPlan, stepCriteria, reserved,
                 submissions, audits>>

----------------------------------------------------------------------------
(* Investigations and experiments deliver their result to the owner. *)

RecordHypothesis(actor, w) ==
  /\ works[w].assignee = actor /\ works[w].kind = "experiment" /\ works[w].state = "active"
  /\ works[w].open + works[w].resolved < MaxHypotheses
  /\ works' = [works EXCEPT ![w].open = @ + 1, ![w].revision = @ + 1]
  /\ emitted' = {Announce("hypothesis_recorded", w, None)}
  /\ UNCHANGED <<planVars, reserved, submissions, audits>>

\* Faulty variant: a hypothesis takes a second result.
RecordResultAgain(actor, w) ==
  /\ works[w].assignee = actor /\ works[w].kind = "experiment" /\ works[w].state = "active"
  /\ works' = [works EXCEPT ![w].open = @ - 1, ![w].resolved = @ + 1, ![w].revision = @ + 1]
  /\ emitted' = {Announce("hypothesis_resolved", w, None)}
  /\ UNCHANGED <<planVars, reserved, submissions, audits>>

RecordResult(actor, w) ==
  /\ works[w].assignee = actor /\ works[w].kind = "experiment" /\ works[w].state = "active"
  /\ works[w].open > 0
  /\ works' = [works EXCEPT ![w].open = @ - 1, ![w].resolved = @ + 1, ![w].revision = @ + 1]
  /\ emitted' = {Announce("hypothesis_resolved", w, None)}
  /\ UNCHANGED <<planVars, reserved, submissions, audits>>

Delivered(record) ==
  [record EXCEPT !.state = "delivered", !.revision = @ + 1, !.blocked = FALSE]

\* settleScope: the steps w holds are released with their final status.
SettleScope(w, status) ==
  /\ reserved' = Release(Held(w))
  /\ stepStatus' = WithStatus(Held(w), status)
  /\ UNCHANGED <<planOwner, planRevision, stepPlan, stepCriteria>>

Deliver(w, event) ==
  /\ works' = [works EXCEPT ![w] = Delivered(@)]
  /\ SettleScope(w, "completed")
  /\ emitted' = {Announce(event, w, None)}
  /\ UNCHANGED <<submissions, audits>>

SubmitBrief(actor, w) ==
  /\ works[w].assignee = actor /\ works[w].kind = "investigation" /\ works[w].state = "active"
  /\ Deliver(w, "brief_delivered")

SubmitExperiment(actor, w) ==
  /\ works[w].assignee = actor /\ works[w].kind = "experiment" /\ works[w].state = "active"
  /\ works[w].open = 0 /\ works[w].resolved > 0
  /\ Deliver(w, "experiment_delivered")

----------------------------------------------------------------------------
(* The review cycle.  An implementation is the original; the audits and   *)
(* repairs of its submissions are its children.                            *)

\* The work whose outcome w submits.
Original(w) == IF works[w].kind = "repair" THEN works[w].parent ELSE w

\* Faulty variant: the repair stays recorded as active after its submission.
SubmittedKeepingRepair(record, sub) ==
  [record EXCEPT !.state = "needs_check", !.latestSubmission = sub,
                 !.revision = @ + 1, !.blocked = FALSE]
Submitted(record, sub) ==
  [record EXCEPT !.state = "needs_check", !.activeRepair = None, !.latestSubmission = sub,
                 !.revision = @ + 1, !.blocked = FALSE]
\* Faulty variant: closing a repair or an audit keeps its revision.
ClosedInPlace(record) == [record EXCEPT !.state = "closed"]
ClosedWork(record) == [record EXCEPT !.state = "closed", !.revision = @ + 1]

SubmitWork(actor, w) ==
  LET original == Original(w)
      scope == works[original].scope
      sub == Fresh(FreshSubmissions)
  IN
  /\ FreshSubmissions # {}
  /\ works[w].assignee = actor /\ works[w].state = "active" /\ ~works[w].blocked
  /\ works[w].kind \in {"implementation", "repair"}
  /\ works[w].kind = "repair" =>
       works[original].state = "changes_requested" /\ works[original].activeRepair = w
  /\ Submittable(original)
  /\ stepStatus' = WithStatus(scope, "ready_for_review")
  /\ submissions' = [submissions EXCEPT ![sub] =
       [work |-> original, by |-> actor, supersedes |-> works[original].latestSubmission,
        criteria |-> stepCriteria]]
  /\ works' = [x \in WorkID |-> IF x = original THEN Submitted(works[x], sub)
                                ELSE IF x = w THEN ClosedWork(works[x]) ELSE works[x]]
  /\ emitted' = {Announce("review_requested", original, sub)}
  /\ UNCHANGED <<planOwner, planRevision, stepPlan, stepCriteria, reserved, audits>>

\* Faulty variant: only the current assignee is kept from auditing.
IndependentOfAssignee(auditor, w) == auditor # works[w].assignee

\* Nobody audits their own contribution, and every audit gets an auditor that
\* has held no work before.
Independent(auditor, w) ==
  /\ auditor # works[w].assignee
  /\ ~Contributor(auditor, works[w].latestSubmission)
  /\ ~HeldWork(auditor)

AssignAudit(actor, w, auditor) ==
  LET audit == Fresh(FreshWorks) IN
  /\ FreshWorks # {}
  /\ works[w].owner = actor /\ works[w].kind = "implementation"
  /\ works[w].state = "needs_check" /\ works[w].latestSubmission # None
  /\ Independent(auditor, w)
  /\ works' = [works EXCEPT
       ![w].state = "checking", ![w].revision = @ + 1,
       ![audit] = [NewWork("audit", works[w].owner, auditor, works[w].scope) EXCEPT
                     !.parent = w, !.subject = works[w].latestSubmission]]
  /\ emitted' = {Announce("work_assigned", audit, None)}
  /\ UNCHANGED <<planVars, reserved, submissions, audits>>

\* Faulty variant: the verdict is not recorded on the work it judges.
JudgedUnrecorded(record, verdict, a) ==
  [record EXCEPT !.state = IF verdict = "pass" THEN "accepted" ELSE "changes_requested",
                 !.revision = @ + 1]
Judged(record, verdict, a) ==
  [record EXCEPT !.state = IF verdict = "pass" THEN "accepted" ELSE "changes_requested",
                 !.latestAudit = a, !.revision = @ + 1]

\* A pass completes every step of the original; a fail names the steps it
\* affects, at least one when there are any.
SubmitAudit(actor, w, verdict, affected) ==
  LET original == works[w].parent
      scope == works[original].scope
      a == Fresh(FreshAudits)
  IN
  /\ FreshAudits # {}
  /\ works[w].assignee = actor /\ works[w].kind = "audit" /\ works[w].state = "active"
  /\ works[original].state = "checking"
  /\ works[original].latestSubmission = works[w].subject
  /\ ~works[w].blocked
  /\ affected \subseteq scope
  /\ IF verdict = "pass" THEN affected = {} ELSE scope # {} => affected # {}
  /\ audits' = [audits EXCEPT ![a] =
       [work |-> w, submission |-> works[w].subject, by |-> actor, verdict |-> verdict,
        affected |-> affected]]
  /\ stepStatus' = IF verdict = "pass" THEN WithStatus(scope, "completed")
                                       ELSE WithStatus(affected, "pending")
  /\ reserved' = IF verdict = "pass" THEN Release(scope) ELSE reserved
  /\ works' = [x \in WorkID |-> IF x = original THEN Judged(works[x], verdict, a)
                                ELSE IF x = w THEN ClosedWork(works[x]) ELSE works[x]]
  /\ emitted' = {Announce("audit_completed", original, works[original].latestSubmission)}
  /\ UNCHANGED <<planOwner, planRevision, stepPlan, stepCriteria, submissions>>

\* One repair for the current failing verdict, over the steps the verdict names.
AssignRepair(actor, w, assignee) ==
  LET a == works[w].latestAudit
      repair == Fresh(FreshWorks)
  IN
  /\ FreshWorks # {}
  /\ works[w].owner = actor /\ works[w].kind = "implementation"
  /\ works[w].state = "changes_requested" /\ works[w].activeRepair = None
  /\ a # None /\ audits[a].verdict = "fail"
  /\ audits[a].submission = works[w].latestSubmission
  /\ works[audits[a].work].parent = w
  /\ \A x \in WorkID : works[x].requestedBy # a
  /\ works' = [works EXCEPT
       ![w].activeRepair = repair, ![w].revision = @ + 1,
       ![repair] = [NewWork("repair", works[w].owner, assignee,
                            works[w].scope \cap audits[a].affected) EXCEPT
                      !.parent = w, !.requestedBy = a]]
  /\ emitted' = {Announce("work_assigned", repair, None)}
  /\ UNCHANGED <<planVars, reserved, submissions, audits>>

----------------------------------------------------------------------------
(* Cancellation, by the owner. *)

CancelledWork(record) ==
  [record EXCEPT !.state = "cancelled", !.blocked = FALSE, !.revision = @ + 1,
                 !.activeRepair = IF record.kind = "implementation" THEN None ELSE @]

\* Faulty variant: the audits and repairs of the work live on.
CancelImplementationAlone(w) ==
  /\ works' = [works EXCEPT ![w] = CancelledWork(@)]
  /\ SettleScope(w, "pending")
  /\ emitted' = {Announce("work_cancelled", w, works[w].latestSubmission)}

\* Cancelling an implementation, or its repair, ends the whole cycle.
CancelImplementation(w) ==
  LET gone == Children(w) \cup {w} IN
  /\ works' = [x \in WorkID |-> IF x \in gone THEN CancelledWork(works[x]) ELSE works[x]]
  /\ SettleScope(w, "pending")
  /\ emitted' = {Announce("work_cancelled", x, works[x].latestSubmission) : x \in gone}

\* Faulty variant: nobody hears that the submission needs another audit.
CancelAuditSilently(w) ==
  LET original == works[w].parent IN
  /\ works' = [works EXCEPT ![w] = CancelledWork(@),
                            ![original].state = "needs_check", ![original].revision = @ + 1]
  /\ emitted' = {Announce("work_cancelled", w, None)}
  /\ UNCHANGED <<planVars, reserved>>

\* Cancelling an audit alone returns the submission to needs_check.
CancelAudit(w) ==
  LET original == works[w].parent IN
  /\ works' = [works EXCEPT ![w] = CancelledWork(@),
                            ![original].state = "needs_check", ![original].revision = @ + 1]
  /\ emitted' = {Announce("work_cancelled", w, None),
                 Announce("review_requested", original, works[original].latestSubmission)}
  /\ UNCHANGED <<planVars, reserved>>

CancelHolding(w) ==
  /\ works' = [works EXCEPT ![w] = CancelledWork(@)]
  /\ SettleScope(w, "pending")
  /\ emitted' = {Announce("work_cancelled", w, None)}

Cancel(actor, w) ==
  /\ works[w].owner = actor /\ Live(w)
  /\ \/ works[w].kind = "implementation" /\ CancelImplementation(w)
     \/ works[w].kind = "repair" /\ CancelImplementation(works[w].parent)
     \/ works[w].kind \in {"investigation", "experiment"} /\ CancelHolding(w)
     \/ works[w].kind = "audit" /\ CancelAudit(w)
  /\ UNCHANGED <<submissions, audits>>

----------------------------------------------------------------------------
Init ==
  /\ planOwner = [p \in PlanID |-> None] /\ planRevision = [p \in PlanID |-> 0]
  /\ stepPlan = [s \in StepID |-> None] /\ stepStatus = [s \in StepID |-> "pending"]
  /\ \E c \in Criteria : stepCriteria = [s \in StepID |-> c]
  /\ reserved = [s \in StepID |-> None]
  /\ works = [w \in WorkID |-> Unissued]
  /\ submissions = [s \in SubmissionID |-> NoSubmission]
  /\ audits = [a \in AuditID |-> NoAudit]
  /\ emitted = {}

Planning ==
  \E actor \in Manager :
    \/ \E n \in 1..Cardinality(StepID) : CreatePlan(actor, n)
    \/ \E p \in PlanID, n \in 0..Cardinality(StepID), edit, cancel \in SUBSET StepID,
          criteria \in Criteria : UpdatePlan(actor, p, n, edit, cancel, criteria)

Assigning ==
  \E actor \in Manager, assignee \in Actor :
    \/ \E scope \in SUBSET StepID : \/ AssignWork(actor, assignee, scope)
                                    \/ AssignInvestigation(actor, assignee, scope)
                                    \/ AssignExperiment(actor, assignee, scope)
    \/ \E w \in WorkID : \/ AssignAudit(actor, w, assignee)
                         \/ AssignRepair(actor, w, assignee)

Working ==
  \E actor \in Actor, w \in WorkID :
    \/ \E blocked \in BOOLEAN, steps \in SUBSET StepID :
         \E status \in [steps -> ReportedStatus] :
           ReportWorkProgress(actor, w, blocked, steps, status)
    \/ RecordHypothesis(actor, w)
    \/ RecordResult(actor, w)
    \/ SubmitBrief(actor, w)
    \/ SubmitExperiment(actor, w)
    \/ SubmitWork(actor, w)
    \/ \E verdict \in {"pass", "fail"}, affected \in SUBSET StepID :
         SubmitAudit(actor, w, verdict, affected)
    \/ Cancel(actor, w)

Next == Planning \/ Assigning \/ Working

Spec == Init /\ [][Next]_vars

----------------------------------------------------------------------------
(* What the ledger promises. *)

\* Every record has its type, and every id names a record of its kind.
TypeOK ==
  /\ planOwner \in [PlanID -> Actor \cup {None}]
  /\ planRevision \in [PlanID -> Nat]
  /\ stepPlan \in [StepID -> PlanID \cup {None}]
  /\ stepStatus \in [StepID -> StepStatus]
  /\ stepCriteria \in [StepID -> Criteria]
  /\ reserved \in [StepID -> WorkID \cup {None}]
  /\ works \in [WorkID -> Work]
  /\ submissions \in [SubmissionID -> Submission]
  /\ audits \in [AuditID -> Audit]
  /\ emitted \subseteq Event

\* The reservations are exactly the scopes of the live work that completes steps:
\* no two such works share a step, none loses one while it lives, and none keeps
\* one after it ends (reserve, settleScope, and the release in SubmitAudit).
ReservationExact ==
  \A s \in StepID, w \in WorkID :
    reserved[s] = w <=> Live(w) /\ works[w].kind \in Holding /\ s \in works[w].scope

\* The state block an agent is shown derives the holder of a step from the live
\* scopes alone, and names the work that really reserves it (actorState).
StateBlockAgrees == \A s \in StepID : ShownReservation(s) = reserved[s]

\* A step is completed exactly when work that covers it succeeded: an accepted
\* implementation, or a delivered investigation or experiment.
CompletedEarned ==
  \A s \in StepID :
    stepStatus[s] = "completed" <=>
      \E w \in WorkID : /\ works[w].kind \in Holding /\ s \in works[w].scope
                        /\ works[w].state \in {"accepted", "delivered"}

\* What an implementation's state says of its live audits and repairs.
CycleOf(w) ==
  LET kids == Children(w) IN
  /\ works[w].state = "checking" =>
       /\ works[w].activeRepair = None
       /\ \E c \in WorkID : /\ kids = {c} /\ works[c].kind = "audit"
                            /\ works[c].subject = works[w].latestSubmission
  /\ works[w].state = "changes_requested" =>
       IF works[w].activeRepair = None THEN kids = {}
       ELSE LET r == works[w].activeRepair IN
            /\ kids = {r} /\ works[r].kind = "repair"
            /\ works[r].requestedBy = works[w].latestAudit
            /\ works[r].scope \subseteq works[w].scope
  /\ works[w].state \notin {"checking", "changes_requested"} =>
       kids = {} /\ works[w].activeRepair = None

\* Checking means exactly one live audit, of the latest submission; changes
\* requested means at most one live repair, the recorded one, for the latest
\* verdict; and no other implementation has live children (AssignAudit,
\* SubmitAudit, AssignRepair, SubmitWork and Cancel agree on the cycle).
ReviewCycle == \A w \in WorkID : works[w].kind = "implementation" => CycleOf(w)

\* Accepted work was passed by an audit of its latest submission, made under an
\* audit assignment of that very work.
AcceptedEarned ==
  \A w \in WorkID : works[w].state = "accepted" =>
    LET a == works[w].latestAudit IN
    /\ a # None /\ audits[a].verdict = "pass"
    /\ audits[a].submission = works[w].latestSubmission
    /\ works[audits[a].work].parent = w

\* A verdict is never the work of someone who contributed to what it judges,
\* and no agent ever audits twice.
IndependentReview ==
  /\ \A a \in AuditID : audits[a].work # None =>
       /\ ~Contributor(audits[a].by, audits[a].submission)
       /\ audits[a].by # works[works[audits[a].work].parent].assignee
  /\ \A c, d \in WorkID : works[c].kind = "audit" /\ works[d].kind = "audit" /\ c # d =>
       works[c].assignee # works[d].assignee

\* From a submission until its verdict every step in scope stays ready for
\* review, and until the cycle ends its requirements stay those the submission
\* was made against: no plan edit, report or other work reaches them.
UnderReviewFrozen ==
  \A w \in WorkID : works[w].kind = "implementation" /\ Issued(w) /\ works[w].state # "cancelled" =>
    \A s \in works[w].scope :
      /\ works[w].state \in {"needs_check", "checking"} => stepStatus[s] = "ready_for_review"
      /\ works[w].latestSubmission # None =>
           submissions[works[w].latestSubmission].criteria[s] = stepCriteria[s]

\* Ended work does not change.
WorkStays == \A x \in WorkID : works[x].state \in Terminal => works'[x] = works[x]

\* Nor does a completed or cancelled step.
StepsStay ==
  \A s \in StepID : stepStatus[s] \in {"completed", "cancelled"} => stepStatus'[s] = stepStatus[s]

\* Ended work, and a completed or cancelled step, never change again: no late
\* audit, repair, report or cancellation revives or rewrites them.
SettledIsFinal == [][WorkStays /\ StepsStay]_vars

\* A record that changes moves its revision by one.
RevisionsMove ==
  \A x \in WorkID : Issued(x) /\ works'[x] # works[x] =>
    works'[x].revision = works[x].revision + 1

\* Any change of a record, made through it or through its parent, child or
\* repair, moves its revision by one, so a request that quotes the revision it
\* read is applied only to the record it read (target).
RevisionFences == [][RevisionsMove]_vars

\* A change of state is announced to whoever must act.
StatesAnnounced ==
  \A x \in WorkID : works'[x].state # works[x].state =>
    /\ works'[x].state = "needs_check" =>
         Announce("review_requested", x, works'[x].latestSubmission) \in emitted'
    /\ works'[x].state = "active" => Announce("work_assigned", x, None) \in emitted'
    /\ works'[x].state = "cancelled" => \E e \in emitted' : e.kind = "work_cancelled" /\ e.work = x

\* Whoever must act next hears of it: work that comes to need a check is
\* announced with the submission to check, on which the automatic audit relies,
\* and every work that is assigned or cancelled is announced by itself.
HandoffAnnounced == [][StatesAnnounced]_vars

\* Accepted work passed a review, and every review was an independent one.
ReviewEarned == AcceptedEarned /\ IndependentReview

\* Steps say what happened to the work on them, and agents are shown it.
StepsAreHonest == StateBlockAgrees /\ CompletedEarned /\ UnderReviewFrozen

\* No step of the ledger rewrites what is settled, changes a record without moving its
\* revision, or leaves whoever must act next unaware.
EveryStepAccounted == SettledIsFinal /\ RevisionFences /\ HandoffAnnounced

\* What makes the reservations and the types inductive: audits and repairs are
\* children of an implementation, and a live audit is the only one of a work that
\* is being checked, so a verdict or a cancelled audit always finds it live.
Kin ==
  \A w \in WorkID :
    /\ works[w].state = "unissued" <=> works[w].kind = "none"
    /\ IF works[w].kind \in {"audit", "repair"}
       THEN works[w].parent \in WorkID /\ works[works[w].parent].kind = "implementation"
       ELSE works[w].parent = None

LiveAudit(w) == Live(w) /\ works[w].kind = "audit"
OneAudit ==
  /\ \A c \in WorkID : LiveAudit(c) => works[works[c].parent].state = "checking"
  /\ \A c, d \in WorkID :
       LiveAudit(c) /\ LiveAudit(d) /\ works[c].parent = works[d].parent => c = d

LedgerInv == TypeOK /\ Kin /\ OneAudit /\ ReservationExact

LiveRepair(w) == Live(w) /\ works[w].kind = "repair"

\* What makes the review cycle inductive: a live repair is the one its
\* implementation records, for the verdict it records, and what an implementation
\* records is live.
OneRepair ==
  \A c \in WorkID : LiveRepair(c) =>
    LET w == works[c].parent IN
    /\ works[w].state = "changes_requested" /\ works[w].activeRepair = c
    /\ works[c].requestedBy = works[w].latestAudit

CycleRecord ==
  \A w \in WorkID : works[w].kind = "implementation" =>
    /\ works[w].state \notin {"closed", "delivered"}
    /\ works[w].state = "checking" =>
         /\ works[w].activeRepair = None
         /\ \E c \in WorkID : /\ LiveAudit(c) /\ works[c].parent = w
                              /\ works[c].subject = works[w].latestSubmission
    /\ works[w].activeRepair # None =>
         /\ works[w].state = "changes_requested"
         /\ LiveRepair(works[w].activeRepair) /\ works[works[w].activeRepair].parent = w

\* Only an implementation waits for others; the rest is active while it lives.
ActiveWhileLive ==
  \A w \in WorkID : Live(w) /\ works[w].kind # "implementation" => works[w].state = "active"

\* Audits and repairs are over steps of their implementation.
ScopeWithin ==
  \A c \in WorkID : works[c].kind \in {"audit", "repair"} =>
    works[c].scope \subseteq works[works[c].parent].scope

\* Ids that are named have been minted, so a fresh one is named nowhere.
LatestMinted ==
  \A w \in WorkID : works[w].latestSubmission # None =>
    submissions[works[w].latestSubmission].work # None

SubjectMinted ==
  \A w \in WorkID : works[w].kind = "audit" =>
    works[w].subject # None /\ submissions[works[w].subject].work # None

VerdictMinted ==
  \A w \in WorkID : works[w].latestAudit # None => audits[works[w].latestAudit].work # None

SupersededMinted ==
  \A s \in SubmissionID : submissions[s].work # None /\ submissions[s].supersedes # None =>
    submissions[submissions[s].supersedes].work # None

VerdictOfAudit == \A a \in AuditID : audits[a].work # None => works[audits[a].work].kind = "audit"

Minted == LatestMinted /\ SubjectMinted /\ VerdictMinted /\ SupersededMinted /\ VerdictOfAudit

\* A step that is held is open, and what a verdict or a delivery settles is held.
HeldOpen ==
  \A s \in StepID : reserved[s] # None => stepStatus[s] \notin {"completed", "cancelled"}

\* An audit's agent is independent from the start, it audits once, and its verdict
\* is its own, on what it was given.
NotTheImplementer ==
  \A c \in WorkID : works[c].kind = "audit" => works[c].assignee # works[works[c].parent].assignee

NotAContributor ==
  \A c \in WorkID : works[c].kind = "audit" => ~Contributor(works[c].assignee, works[c].subject)

AuditsOnce ==
  \A c, d \in WorkID : works[c].kind = "audit" /\ works[d].kind = "audit" /\ c # d =>
    works[c].assignee # works[d].assignee

OwnVerdict ==
  \A a \in AuditID : audits[a].work # None =>
    /\ audits[a].by = works[audits[a].work].assignee
    /\ audits[a].submission = works[audits[a].work].subject

AuditorsApart == NotTheImplementer /\ NotAContributor /\ AuditsOnce /\ OwnVerdict

StoreInv ==
  /\ LedgerInv /\ OneRepair /\ CycleRecord /\ ActiveWhileLive /\ ScopeWithin /\ Minted
  /\ HeldOpen /\ CompletedEarned /\ UnderReviewFrozen
  /\ AcceptedEarned /\ AuditorsApart

\* readmodel.go says of a plan's steps that they complete only when an audit
\* accepts work that scoped them.
StepsCompleteOnlyByAudit ==
  \A s \in StepID : stepStatus[s] = "completed" =>
    \E w \in WorkID : /\ s \in works[w].scope /\ works[w].state = "accepted"
                      /\ audits[works[w].latestAudit].verdict = "pass"


----------------------------------------------------------------------------
(* harness/machine checks the timeline of a recorded session against state *)
(* machines of its own: its ledger rules, as properties of the ledger.  Who *)
(* reads a trace relies on them.                                            *)

Investigated == {"active"} \X {"delivered", "cancelled"}

\* workMachine: how the work of each kind may move.
WorkMachine ==
  [implementation |->
     {<<"active", "needs_check">>, <<"active", "cancelled">>,
      <<"needs_check", "checking">>, <<"needs_check", "cancelled">>,
      <<"checking", "accepted">>, <<"checking", "changes_requested">>, <<"checking", "cancelled">>,
      <<"changes_requested", "needs_check">>, <<"changes_requested", "cancelled">>},
   repair |-> {"active"} \X {"closed", "cancelled"},
   audit |-> {"active"} \X {"closed", "cancelled"},
   investigation |-> Investigated,
   experiment |-> Investigated]

\* stepMachine: how a step may move.
StepMachine ==
  ({"pending", "in_progress", "blocked"} \X
     {"pending", "in_progress", "blocked", "ready_for_review", "cancelled", "completed"})
  \cup ({"ready_for_review"} \X {"completed", "pending", "in_progress", "cancelled"})

\* An audit of w ends without a verdict in this step.
AuditWithdrawn(w) ==
  \E c \in WorkID : works[c].kind = "audit" /\ works[c].parent = w
                    /\ works[c].state = "active" /\ works'[c].state = "cancelled"

Reaudit(w) ==
  /\ works[w].kind = "implementation"
  /\ works[w].state = "checking" /\ works'[w].state = "needs_check"
  /\ AuditWithdrawn(w)

\* A step completes with the work that covers it: an implementation as it is accepted,
\* from ready_for_review, or an investigation or experiment as it is delivered.
Completes(w, s) ==
  /\ s \in works[w].scope
  /\ \/ /\ works[w].kind = "implementation" /\ works'[w].state = "accepted"
        /\ stepStatus[s] = "ready_for_review"
     \/ works[w].kind \in {"investigation", "experiment"} /\ works'[w].state = "delivered"

----------------------------------------------------------------------------
\* Work moves along the machine of its kind, or goes back as its audit is cancelled.
WorksMove ==
  \A x \in WorkID : Issued(x) /\ works'[x].state # works[x].state =>
    \/ <<works[x].state, works'[x].state>> \in WorkMachine[works[x].kind]
    \/ Reaudit(x)

\* A step completes with the work that covers it.
StepsComplete ==
  \A s \in StepID : stepStatus'[s] = "completed" /\ stepStatus[s] # "completed" =>
    \E x \in WorkID : Completes(x, s)

\* A step that was reported ready for review is reported blocked instead, by the active work that
\* may report on it.
TakenBack(s) ==
  /\ stepStatus[s] = "ready_for_review" /\ stepStatus'[s] = "blocked"
  /\ \E x \in WorkID :
       /\ works[x].state = "active" /\ works'[x].state = "active"
       /\ works'[x].revision = works[x].revision + 1 /\ s \in Reportable(x)

\* A step of a plan moves along stepMachine, but for the one move that is missing there.
StepsMove ==
  \A s \in StepID : stepStatus'[s] # stepStatus[s] =>
    <<stepStatus[s], stepStatus'[s]>> \in StepMachine \/ TakenBack(s)

\* Of the machines of the recorder (rules.go), workMachine and stepMachine: work moves along the
\* machine of its kind, or goes back to needs_check as its audit is cancelled; a step of a plan
\* completes only with the work that covers it, and moves along stepMachine with one exception,
\* which the recorder reports as a violation and the ledger allows: active work takes a step it
\* had called ready for review back as blocked (TakenBack; StepsObeyMachine does not hold).
WorkObeysMachine == [][WorksMove /\ StepsComplete /\ StepsMove]_vars

\* stepMachine without the exception: it has no move from ready_for_review to blocked, which
\* progressSteps accepts (work/progress.go:324).
StepsObeyMachine ==
  [][\A s \in StepID : stepStatus'[s] # stepStatus[s] =>
       <<stepStatus[s], stepStatus'[s]>> \in StepMachine]_vars

----------------------------------------------------------------------------
\* For TLC: the actors that manage nothing, and the criteria, are interchangeable, no action
\* names one.  The review instance follows one implementation through two rounds of
\* submission, audit and repair; in the planning instance several works and kinds of work
\* compete for the steps of several plans.
WorkerSymmetry == Permutations(Actor \ Manager)
CriteriaSymmetry == Permutations(Criteria)
=============================================================================
