-------------------------- MODULE WorkStoreProofs --------------------------
(***************************************************************************)
(* Machine-checked proofs about WorkStore, for every set of agents, plans, *)
(* steps and ids.  The first part has the types and the reservations.  The *)
(* second says what each operation does to the records, field by field;    *)
(* the review cycle and the recorder's machines are proved from these      *)
(* effects alone.                                                          *)
(***************************************************************************)
EXTENDS WorkStore, TLAPS

\* The id minted from a nonempty set is one of the set (mint).
LEMMA FreshIn == ASSUME NEW S, S # {} PROVE Fresh(S) \in S
  BY DEF Fresh

----------------------------------------------------------------------------
(* Type correctness. *)

LEMMA UnissuedType == Unissued \in Work
  BY DEF Unissued, Work

LEMMA NewWorkType ==
  ASSUME NEW kind \in Kind, NEW owner \in Actor, NEW assignee \in Actor,
         NEW scope \in SUBSET StepID
  PROVE  NewWork(kind, owner, assignee, scope) \in Work
  BY DEF NewWork, Unissued, Work, Kind, State

LEMMA InitTypeOK == Init => TypeOK
  BY UnissuedType DEF Init, TypeOK, StepStatus, ReportableStatus, NoSubmission, Submission, NoAudit,
     Audit, Event

LEMMA CreatePlanType ==
  ASSUME TypeOK, NEW actor \in Manager, NEW n, CreatePlan(actor, n)
  PROVE  TypeOK'
<1> DEFINE unused == {p \in PlanID : planOwner[p] = None}
<1>1. Fresh(unused) \in PlanID
  BY FreshIn DEF CreatePlan
<1>2. actor \in Actor
  BY StoreAssumption
<1>3. emitted' \subseteq Event
  BY DEF CreatePlan, Announce, Event, EventKind
<1> QED
  BY <1>1, <1>2, <1>3 DEF CreatePlan, TypeOK, AddSteps, WithStatus, StepStatus

LEMMA UpdatePlanType ==
  ASSUME TypeOK, NEW actor \in Manager, NEW p \in PlanID, NEW n,
         NEW edit \in SUBSET StepID, NEW cancel \in SUBSET StepID, NEW criteria \in Criteria,
         UpdatePlan(actor, p, n, edit, cancel, criteria)
  PROVE  TypeOK'
<1>1. emitted' \subseteq Event
  BY DEF UpdatePlan, Announce, Event, EventKind
<1> QED
  BY <1>1 DEF UpdatePlan, TypeOK, AddSteps, WithStatus, StepStatus

LEMMA AssignType ==
  ASSUME TypeOK, NEW kind \in Holding, NEW actor \in Manager, NEW assignee \in Actor,
         NEW scope \in SUBSET StepID, Assign(kind, actor, assignee, scope)
  PROVE  TypeOK'
<1> DEFINE w == Fresh(FreshWorks)
<1>1. w \in WorkID
  BY FreshIn DEF Assign, FreshWorks
<1>2. NewWork(kind, actor, assignee, scope) \in Work
  BY NewWorkType, StoreAssumption DEF Kind
<1>3. emitted' \subseteq Event
  BY <1>1 DEF Assign, Announce, Event, EventKind
<1> QED
  BY <1>1, <1>2, <1>3 DEF Assign, TypeOK, Reserve, planVars

\* A step that rewrites one work record keeps the types of all of them.
LEMMA ReportType ==
  ASSUME TypeOK, NEW actor \in Actor, NEW w \in WorkID, NEW blocked \in BOOLEAN,
         NEW steps \in SUBSET StepID, NEW status \in [steps -> ReportedStatus],
         ReportWorkProgress(actor, w, blocked, steps, status)
  PROVE  TypeOK'
<1>1. works' \in [WorkID -> Work]
  BY DEF ReportWorkProgress, TypeOK, Work
<1>2. emitted' \subseteq Event
  BY DEF ReportWorkProgress, Announce, Event, EventKind, TypeOK, Work
<1>3. stepStatus' \in [StepID -> StepStatus]
  BY StoreAssumption DEF ReportWorkProgress, TypeOK, StepStatus, ReportableStatus
<1> QED
  BY <1>1, <1>2, <1>3 DEF ReportWorkProgress, TypeOK

\* The rewritten forms of a work record are records of the same type.
LEMMA HypothesisForm ==
  ASSUME NEW r \in Work, NEW open \in Nat, NEW resolved \in Nat
  PROVE  [r EXCEPT !.open = open, !.resolved = resolved, !.revision = @ + 1] \in Work
<1>1. r.revision + 1 \in Nat
  BY DEF Work
<1> QED
  BY <1>1 DEF Work

LEMMA DeliveredForm == ASSUME NEW r \in Work PROVE Delivered(r) \in Work
<1>1. r.revision + 1 \in Nat
  BY DEF Work
<1> QED
  BY <1>1 DEF Delivered, Work, State, Terminal

LEMMA SubmittedForm ==
  ASSUME NEW r \in Work, NEW sub \in SubmissionID PROVE Submitted(r, sub) \in Work
<1>1. r.revision + 1 \in Nat
  BY DEF Work
<1> QED
  BY <1>1 DEF Submitted, Work, State, Terminal

LEMMA ClosedForm == ASSUME NEW r \in Work PROVE ClosedWork(r) \in Work
<1>1. r.revision + 1 \in Nat
  BY DEF Work
<1> QED
  BY <1>1 DEF ClosedWork, Work, State, Terminal

LEMMA JudgedForm ==
  ASSUME NEW r \in Work, NEW verdict, NEW a \in AuditID PROVE Judged(r, verdict, a) \in Work
<1> DEFINE state == IF verdict = "pass" THEN "accepted" ELSE "changes_requested"
<1>1. r.revision + 1 \in Nat
  BY DEF Work
<1>2. state \in State
  BY DEF State, Terminal
<1> HIDE DEF state
<1>3. [r EXCEPT !.state = state, !.latestAudit = a, !.revision = @ + 1] \in Work
  BY <1>1, <1>2 DEF Work
<1> QED
  BY <1>3 DEF Judged, state

LEMMA CancelledFields ==
  ASSUME NEW r \in Work, NEW n \in Nat, NEW repair \in WorkID \cup {None}
  PROVE  [r EXCEPT !.state = "cancelled", !.blocked = FALSE, !.revision = n,
                   !.activeRepair = repair] \in Work
<1>1. "cancelled" \in State
  BY DEF State, Terminal
<1> QED
  BY <1>1 DEF Work

LEMMA CancelledForm == ASSUME NEW r \in Work PROVE CancelledWork(r) \in Work
<1> DEFINE repair == IF r.kind = "implementation" THEN None ELSE r.activeRepair
<1>1. r.revision + 1 \in Nat
  BY DEF Work
<1>2. repair \in WorkID \cup {None}
  BY DEF Work
<1> HIDE DEF repair
<1>3. [r EXCEPT !.state = "cancelled", !.blocked = FALSE, !.revision = @ + 1,
                !.activeRepair = repair] \in Work
  BY <1>1, <1>2, CancelledFields
<1> QED
  BY <1>3 DEF CancelledWork, repair

LEMMA NextStateForm ==
  ASSUME NEW r \in Work, NEW state \in State
  PROVE  [r EXCEPT !.state = state, !.revision = @ + 1] \in Work
<1>1. r.revision + 1 \in Nat
  BY DEF Work
<1> QED
  BY <1>1 DEF Work

LEMMA AuditForm ==
  ASSUME NEW owner \in Actor, NEW auditor \in Actor, NEW scope \in SUBSET StepID,
         NEW w \in WorkID, NEW sub \in SubmissionID
  PROVE  [NewWork("audit", owner, auditor, scope) EXCEPT !.parent = w, !.subject = sub] \in Work
<1>1. NewWork("audit", owner, auditor, scope) \in Work
  BY NewWorkType DEF Kind
<1> QED
  BY <1>1 DEF Work

LEMMA RepairForm ==
  ASSUME NEW owner \in Actor, NEW assignee \in Actor, NEW scope \in SUBSET StepID,
         NEW w \in WorkID, NEW a \in AuditID
  PROVE  [NewWork("repair", owner, assignee, scope) EXCEPT !.parent = w, !.requestedBy = a] \in Work
<1>1. NewWork("repair", owner, assignee, scope) \in Work
  BY NewWorkType DEF Kind
<1> QED
  BY <1>1 DEF Work

LEMMA RepairingForm ==
  ASSUME NEW r \in Work, NEW repair \in WorkID
  PROVE  [r EXCEPT !.activeRepair = repair, !.revision = @ + 1] \in Work
<1>1. r.revision + 1 \in Nat
  BY DEF Work
<1> QED
  BY <1>1 DEF Work

LEMMA HypothesisType ==
  ASSUME TypeOK, NEW actor \in Actor, NEW w \in WorkID,
         RecordHypothesis(actor, w) \/ RecordResult(actor, w)
  PROVE  TypeOK'
<1>0. works[w] \in Work /\ works[w].open \in Nat /\ works[w].resolved \in Nat
  BY DEF TypeOK, Work
<1>1. works' \in [WorkID -> Work]
  <2>1. CASE RecordHypothesis(actor, w)
    <3>1. works[w].open + 1 \in Nat
      BY <1>0
    <3>2. works[w].resolved = works[w].resolved
      OBVIOUS
    <3>3. [works[w] EXCEPT !.open = @ + 1, !.revision = @ + 1] \in Work
      <4>1. works[w].revision + 1 \in Nat
        BY <1>0 DEF Work
      <4> QED
        BY <1>0, <3>1, <4>1 DEF Work
    <3> QED
      BY <2>1, <3>3 DEF RecordHypothesis, TypeOK
  <2>2. CASE RecordResult(actor, w)
    <3>1. works[w].open - 1 \in Nat /\ works[w].resolved + 1 \in Nat
      BY <1>0, <2>2 DEF RecordResult
    <3>2. [works[w] EXCEPT !.open = @ - 1, !.resolved = @ + 1, !.revision = @ + 1] \in Work
      BY <1>0, <3>1, HypothesisForm
    <3> QED
      BY <2>2, <3>2 DEF RecordResult, TypeOK
  <2> QED
    BY <2>1, <2>2
<1>2. emitted' \subseteq Event
  BY DEF RecordHypothesis, RecordResult, Announce, Event, EventKind
<1> QED
  BY <1>1, <1>2 DEF RecordHypothesis, RecordResult, TypeOK, planVars

LEMMA SettleScopeType ==
  ASSUME TypeOK, NEW w \in WorkID, NEW status \in StepStatus, SettleScope(w, status)
  PROVE  /\ reserved' \in [StepID -> WorkID \cup {None}]
         /\ stepStatus' \in [StepID -> StepStatus]
         /\ UNCHANGED <<planOwner, planRevision, stepPlan, stepCriteria>>
  BY DEF SettleScope, TypeOK, Release, WithStatus

LEMMA DeliverType ==
  ASSUME TypeOK, NEW actor \in Actor, NEW w \in WorkID,
         SubmitBrief(actor, w) \/ SubmitExperiment(actor, w)
  PROVE  TypeOK'
<1>1. Delivered(works[w]) \in Work
  BY DeliveredForm DEF TypeOK
<1>2. PICK event \in {"brief_delivered", "experiment_delivered"} : Deliver(w, event)
  BY DEF SubmitBrief, SubmitExperiment
<1>3. works' \in [WorkID -> Work] /\ UNCHANGED <<submissions, audits>>
  BY <1>1, <1>2 DEF Deliver, TypeOK
<1>4. emitted' \subseteq Event
  BY <1>2 DEF Deliver, Announce, Event, EventKind
<1>5. SettleScope(w, "completed")
  BY <1>2 DEF Deliver
<1> QED
  BY <1>3, <1>4, <1>5, SettleScopeType DEF TypeOK, StepStatus

LEMMA SubmitWorkType ==
  ASSUME TypeOK, Kin, NEW actor \in Actor, NEW w \in WorkID, SubmitWork(actor, w)
  PROVE  TypeOK'
<1> DEFINE original == Original(w)
           sub == Fresh(FreshSubmissions)
<1>1. sub \in SubmissionID
  BY FreshIn DEF SubmitWork, FreshSubmissions
<1>2. original \in WorkID /\ works[original] \in Work
  BY DEF SubmitWork, Original, TypeOK, Kin
<1>3. \A x \in WorkID : Submitted(works[x], sub) \in Work /\ ClosedWork(works[x]) \in Work
  BY <1>1, SubmittedForm, ClosedForm DEF TypeOK
<1>4. works' \in [WorkID -> Work]
  BY <1>3 DEF SubmitWork, TypeOK
<1>5. emitted' \subseteq Event
  BY <1>1, <1>2 DEF SubmitWork, Announce, Event, EventKind
<1>6. stepStatus' \in [StepID -> StepStatus]
  BY DEF SubmitWork, WithStatus, TypeOK, StepStatus, ReportableStatus
<1>7. submissions' \in [SubmissionID -> Submission]
  <2>1. [work |-> original, by |-> actor, supersedes |-> works[original].latestSubmission,
         criteria |-> stepCriteria] \in Submission
    BY <1>2 DEF TypeOK, Submission, Work
  <2> QED
    BY <1>1, <2>1 DEF SubmitWork, TypeOK
<1> QED
  BY <1>4, <1>5, <1>6, <1>7 DEF SubmitWork, TypeOK

LEMMA AssignAuditType ==
  ASSUME TypeOK, NEW actor \in Manager, NEW w \in WorkID, NEW auditor \in Actor,
         AssignAudit(actor, w, auditor)
  PROVE  TypeOK'
<1> DEFINE audit == Fresh(FreshWorks)
           sub == works[w].latestSubmission
           new == [NewWork("audit", works[w].owner, auditor, works[w].scope) EXCEPT
                     !.parent = w, !.subject = sub]
           old == [works[w] EXCEPT !.state = "checking", !.revision = @ + 1]
<1>1. audit \in FreshWorks
  BY FreshIn DEF AssignAudit
<1>2. audit \in WorkID /\ audit # w
  BY <1>1 DEF FreshWorks, Issued, AssignAudit
<1>3. works[w].owner \in Actor /\ sub \in SubmissionID /\ works[w].scope \in SUBSET StepID
  BY StoreAssumption DEF AssignAudit, TypeOK, Work
<1>4. new \in Work
  BY <1>3, AuditForm
<1>5. old \in Work
  BY NextStateForm DEF TypeOK, State
<1>6. works' = [works EXCEPT ![w] = old, ![audit] = new]
  BY <1>2 DEF AssignAudit
<1>7. works' \in [WorkID -> Work]
  <2> HIDE DEF old, new, audit
  <2> QED
    BY <1>2, <1>4, <1>5, <1>6 DEF TypeOK
<1>8. emitted' \subseteq Event
  BY <1>2 DEF AssignAudit, Announce, Event, EventKind
<1> QED
  BY <1>7, <1>8 DEF AssignAudit, TypeOK, planVars

LEMMA AssignRepairType ==
  ASSUME TypeOK, NEW actor \in Manager, NEW w \in WorkID, NEW assignee \in Actor,
         AssignRepair(actor, w, assignee)
  PROVE  TypeOK'
<1> DEFINE a == works[w].latestAudit
           repair == Fresh(FreshWorks)
           new == [NewWork("repair", works[w].owner, assignee,
                           works[w].scope \cap audits[a].affected) EXCEPT
                     !.parent = w, !.requestedBy = a]
           old == [works[w] EXCEPT !.activeRepair = repair, !.revision = @ + 1]
<1>1. repair \in FreshWorks
  BY FreshIn DEF AssignRepair
<1>2. repair \in WorkID /\ repair # w
  BY <1>1 DEF FreshWorks, Issued, AssignRepair
<1>3. works[w].owner \in Actor /\ a \in AuditID
      /\ works[w].scope \cap audits[a].affected \in SUBSET StepID
  BY StoreAssumption DEF AssignRepair, TypeOK, Work
<1>4. new \in Work
  BY <1>3, RepairForm
<1>5. old \in Work
  BY <1>2, RepairingForm DEF TypeOK
<1>6. works' = [works EXCEPT ![w] = old, ![repair] = new]
  BY <1>2 DEF AssignRepair
<1>7. works' \in [WorkID -> Work]
  <2> HIDE DEF old, new, repair
  <2> QED
    BY <1>2, <1>4, <1>5, <1>6 DEF TypeOK
<1>8. emitted' \subseteq Event
  BY <1>2 DEF AssignRepair, Announce, Event, EventKind
<1> QED
  BY <1>7, <1>8 DEF AssignRepair, TypeOK, planVars

LEMMA SubmitAuditType ==
  ASSUME TypeOK, Kin, NEW actor \in Actor, NEW w \in WorkID, NEW verdict \in {"pass", "fail"},
         NEW affected \in SUBSET StepID, SubmitAudit(actor, w, verdict, affected)
  PROVE  TypeOK'
<1> DEFINE original == works[w].parent
           a == Fresh(FreshAudits)
<1>1. a \in AuditID
  BY FreshIn DEF SubmitAudit, FreshAudits
<1>2. original \in WorkID /\ works[original] \in Work /\ works[w] \in Work
  BY DEF SubmitAudit, TypeOK, Kin
<1>3. \A x \in WorkID : Judged(works[x], verdict, a) \in Work /\ ClosedWork(works[x]) \in Work
  BY <1>1, JudgedForm, ClosedForm DEF TypeOK
<1>4. works' \in [WorkID -> Work]
  BY <1>3 DEF SubmitAudit, TypeOK
<1>5. emitted' \subseteq Event
  <2>1. works[original].latestSubmission \in SubmissionID \cup {None}
    BY <1>2 DEF Work
  <2> QED
    BY <1>2, <2>1 DEF SubmitAudit, Announce, Event, EventKind
<1>6. stepStatus' \in [StepID -> StepStatus] /\ reserved' \in [StepID -> WorkID \cup {None}]
  BY DEF SubmitAudit, WithStatus, Release, TypeOK, StepStatus, ReportableStatus
<1>7. audits' \in [AuditID -> Audit]
  <2>1. [work |-> w, submission |-> works[w].subject, by |-> actor, verdict |-> verdict,
         affected |-> affected] \in Audit
    BY <1>2 DEF Audit, Work
  <2> QED
    BY <1>1, <2>1 DEF SubmitAudit, TypeOK
<1> QED
  BY <1>4, <1>5, <1>6, <1>7 DEF SubmitAudit, TypeOK

LEMMA CancelImplementationType ==
  ASSUME TypeOK, NEW w \in WorkID, CancelImplementation(w), UNCHANGED <<submissions, audits>>
  PROVE  TypeOK'
<1>1. \A x \in WorkID : CancelledWork(works[x]) \in Work
  BY CancelledForm DEF TypeOK
<1>2. works' \in [WorkID -> Work]
  BY <1>1 DEF CancelImplementation, TypeOK
<1>3. emitted' \subseteq Event
  <2>1. \A x \in WorkID : Announce("work_cancelled", x, works[x].latestSubmission) \in Event
    BY DEF Announce, Event, EventKind, TypeOK, Work
  <2> QED
    BY <2>1 DEF CancelImplementation, Children
<1>4. SettleScope(w, "pending")
  BY DEF CancelImplementation
<1> QED
  BY <1>2, <1>3, <1>4, SettleScopeType DEF TypeOK, StepStatus, ReportableStatus

LEMMA CancelType ==
  ASSUME TypeOK, Kin, NEW actor \in Actor, NEW w \in WorkID, Cancel(actor, w)
  PROVE  TypeOK'
<1>1. CancelledWork(works[w]) \in Work
  BY CancelledForm DEF TypeOK
<1>2. CASE works[w].kind = "implementation" /\ CancelImplementation(w)
  BY <1>2, CancelImplementationType DEF Cancel
<1>3. CASE works[w].kind = "repair" /\ CancelImplementation(works[w].parent)
  BY <1>3, CancelImplementationType DEF Cancel, Kin
<1>4. CASE CancelHolding(w)
  <2>1. works' \in [WorkID -> Work]
    BY <1>1, <1>4 DEF CancelHolding, TypeOK
  <2>2. emitted' \subseteq Event
    BY <1>4 DEF CancelHolding, Announce, Event, EventKind
  <2>3. SettleScope(w, "pending")
    BY <1>4 DEF CancelHolding
  <2> QED
    BY <2>1, <2>2, <2>3, SettleScopeType DEF Cancel, TypeOK, StepStatus, ReportableStatus
<1>5. CASE works[w].kind = "audit" /\ CancelAudit(w)
  <2> DEFINE original == works[w].parent
             old == [works[original] EXCEPT !.state = "needs_check", !.revision = @ + 1]
  <2>1. original \in WorkID /\ works[original] \in Work /\ original # w
    BY <1>5 DEF Kin, TypeOK
  <2>2. old \in Work
    BY <2>1, NextStateForm DEF State
  <2>3. works' = [works EXCEPT ![w] = CancelledWork(@), ![original] = old]
    BY <1>5, <2>1 DEF CancelAudit
  <2>4. works' \in [WorkID -> Work]
    <3> HIDE DEF old, original
    <3> QED
      BY <1>1, <2>1, <2>2, <2>3 DEF TypeOK
  <2>5. works[original].latestSubmission \in SubmissionID \cup {None}
    BY <2>1 DEF Work
  <2>6. emitted' \subseteq Event
    BY <1>5, <2>1, <2>5 DEF CancelAudit, Announce, Event, EventKind
  <2> QED
    BY <1>5, <2>4, <2>6 DEF Cancel, CancelAudit, TypeOK, planVars
<1> QED
  BY <1>2, <1>3, <1>4, <1>5 DEF Cancel

LEMMA StutterType == TypeOK /\ UNCHANGED vars => TypeOK'
  BY DEF TypeOK, vars

----------------------------------------------------------------------------
(* Reservations.  Three ways in which a step may touch the ledger keep each *)
(* part of the invariant: it leaves the shape of a work alone, it issues a  *)
(* new work, or it moves the state of works that are already issued.        *)

\* The step leaves the kind, scope and parent of x alone, and issues nothing at x.
SameShape(x) ==
  /\ works'[x].kind = works[x].kind /\ works'[x].scope = works[x].scope
  /\ works'[x].parent = works[x].parent
  /\ works'[x].state = "unissued" <=> works[x].state = "unissued"

HoldsSteps(x) == Live(x) /\ works[x].kind \in Holding

LEMMA KinKept ==
  ASSUME Kin, \A x \in WorkID : SameShape(x)
  PROVE  Kin'
  BY DEF Kin, SameShape

LEMMA KinNew ==
  ASSUME Kin, NEW w \in WorkID, ~Issued(w), \A x \in WorkID \ {w} : SameShape(x),
         works'[w].kind # "none", works'[w].state # "unissued",
         IF works'[w].kind \in {"audit", "repair"}
         THEN works'[w].parent \in WorkID /\ works[works'[w].parent].kind = "implementation"
         ELSE works'[w].parent = None
  PROVE  Kin'
<1>1. works[w].kind = "none"
  BY DEF Kin, Issued
<1>2. \A x \in WorkID : works[x].kind = "implementation" =>
        x # w /\ works'[x].kind = "implementation"
  BY <1>1 DEF SameShape
<1> QED
  BY <1>2 DEF Kin, SameShape

LEMMA OneAuditKept ==
  ASSUME OneAudit,
         \A c \in WorkID : LiveAudit(c)' =>
           /\ LiveAudit(c) /\ works'[c].parent = works[c].parent
           /\ works'[works[c].parent].state = "checking"
  PROVE  OneAudit'
  BY DEF OneAudit

LEMMA ReservedKept ==
  ASSUME ReservationExact, reserved' = reserved,
         \A x \in WorkID : HoldsSteps(x)' <=> HoldsSteps(x),
         \A x \in WorkID : HoldsSteps(x) => works'[x].scope = works[x].scope
  PROVE  ReservationExact'
  BY DEF ReservationExact, HoldsSteps

LEMMA ReservedReleased ==
  ASSUME ReservationExact, NEW w \in WorkID, reserved' = Release(Held(w)),
         \A x \in WorkID : HoldsSteps(x)' <=> HoldsSteps(x) /\ x # w,
         \A x \in WorkID : HoldsSteps(x) => works'[x].scope = works[x].scope
  PROVE  ReservationExact'
<1>1. ASSUME NEW s \in StepID, NEW x \in WorkID
      PROVE  reserved'[s] = x <=> reserved[s] = x /\ x # w
  BY StoreAssumption DEF Release, Held
<1> QED
  BY <1>1 DEF ReservationExact, HoldsSteps

\* A step that neither issues work nor ends any, and reserves nothing.
LEMMA QuietStep ==
  ASSUME Kin, OneAudit, ReservationExact, reserved' = reserved,
         \A x \in WorkID : SameShape(x) /\ works'[x].state = works[x].state
  PROVE  (Kin /\ OneAudit /\ ReservationExact)'
<1>1. Kin'
  BY KinKept
<1>2. \A x \in WorkID : (Live(x)' <=> Live(x)) /\ (HoldsSteps(x)' <=> HoldsSteps(x))
  BY DEF Live, Issued, HoldsSteps, SameShape
<1>3. OneAudit'
  <2>1. \A c \in WorkID : LiveAudit(c)' =>
          /\ LiveAudit(c) /\ works'[c].parent = works[c].parent
          /\ works'[works[c].parent].state = "checking"
    BY <1>2 DEF LiveAudit, SameShape, OneAudit, Kin
  <2> QED
    BY <2>1, OneAuditKept
<1>4. ReservationExact'
  BY <1>2, ReservedKept DEF SameShape
<1> QED
  BY <1>1, <1>3, <1>4

LEMMA PlanningStep ==
  ASSUME LedgerInv, Planning
  PROVE  (Kin /\ OneAudit /\ ReservationExact)'
<1>1. UNCHANGED <<works, reserved>>
  BY DEF Planning, CreatePlan, UpdatePlan
<1> QED
  BY <1>1, QuietStep DEF LedgerInv, SameShape

LEMMA ReportStep ==
  ASSUME LedgerInv, NEW actor \in Actor, NEW w \in WorkID, NEW blocked, NEW steps, NEW status,
         ReportWorkProgress(actor, w, blocked, steps, status)
  PROVE  (Kin /\ OneAudit /\ ReservationExact)'
<1>1. \A x \in WorkID : SameShape(x) /\ works'[x].state = works[x].state
  BY DEF LedgerInv, TypeOK, Work, ReportWorkProgress, SameShape
<1> QED
  BY <1>1, QuietStep DEF LedgerInv, ReportWorkProgress

LEMMA HypothesisStep ==
  ASSUME LedgerInv, NEW actor \in Actor, NEW w \in WorkID,
         RecordHypothesis(actor, w) \/ RecordResult(actor, w)
  PROVE  (Kin /\ OneAudit /\ ReservationExact)'
<1>1. \A x \in WorkID : SameShape(x) /\ works'[x].state = works[x].state
  BY DEF LedgerInv, TypeOK, Work, RecordHypothesis, RecordResult, SameShape
<1> QED
  BY <1>1, QuietStep DEF LedgerInv, RecordHypothesis, RecordResult

LEMMA AssignStep ==
  ASSUME LedgerInv, NEW kind \in Holding, NEW actor \in Manager, NEW assignee \in Actor,
         NEW scope \in SUBSET StepID, Assign(kind, actor, assignee, scope)
  PROVE  (Kin /\ OneAudit /\ ReservationExact)'
<1> DEFINE w == Fresh(FreshWorks)
<1>1. w \in WorkID /\ ~Issued(w)
  BY FreshIn DEF Assign, FreshWorks
<1>2. works' = [works EXCEPT ![w] = NewWork(kind, actor, assignee, scope)]
      /\ reserved' = Reserve(w, scope) /\ CheckScope(actor, scope)
  BY DEF Assign
<1>3. LET r == NewWork(kind, actor, assignee, scope) IN
        r.kind = kind /\ r.state = "active" /\ r.scope = scope /\ r.parent = None
  BY DEF NewWork, Unissued
<1> HIDE DEF w
<1>4. works'[w].kind = kind /\ works'[w].state = "active" /\ works'[w].scope = scope
      /\ works'[w].parent = None
  BY <1>1, <1>2, <1>3 DEF LedgerInv, TypeOK
<1>5. \A x \in WorkID \ {w} : works'[x] = works[x]
  BY <1>1, <1>2 DEF LedgerInv, TypeOK
<1>6. Kin'
  BY <1>1, <1>4, <1>5, KinNew DEF LedgerInv, SameShape, Holding
<1>7. OneAudit'
  <2>1. ASSUME NEW c \in WorkID, LiveAudit(c)'
        PROVE  /\ LiveAudit(c) /\ works'[c].parent = works[c].parent
               /\ works'[works[c].parent].state = "checking"
    <3>1. c # w /\ LiveAudit(c)
      BY <1>4, <1>5, <2>1 DEF LiveAudit, Live, Issued, Holding
    <3>2. works[c].parent \in WorkID /\ works[works[c].parent].state = "checking"
      BY <3>1 DEF LedgerInv, OneAudit, Kin, LiveAudit
    <3>3. works[c].parent # w
      BY <1>1, <3>2 DEF Issued
    <3> QED
      BY <1>5, <3>1, <3>2, <3>3
  <2> QED
    BY <2>1, OneAuditKept DEF LedgerInv
<1>8. ReservationExact'
  <2>1. \A s \in scope : reserved[s] = None
    BY <1>2 DEF CheckScope, Assignable
  <2>2. ASSUME NEW s \in StepID, NEW x \in WorkID
        PROVE  (reserved[s] = x <=> Live(x) /\ works[x].kind \in Holding /\ s \in works[x].scope)'
    <3>1. CASE x = w
      <4>1. ~(reserved[s] = w)
        BY <1>1 DEF LedgerInv, ReservationExact, Live
      <4>2. reserved'[s] = w <=> s \in scope
        BY <1>2, <4>1 DEF Reserve
      <4> QED
        BY <1>4, <3>1, <4>2 DEF Live, Issued, Terminal
    <3>2. CASE x # w
      <4>1. reserved'[s] = x <=> reserved[s] = x
        BY <1>2, <2>1, <3>2, StoreAssumption DEF Reserve
      <4> QED
        BY <1>5, <3>2, <4>1 DEF LedgerInv, ReservationExact, Live, Issued
    <3> QED
      BY <3>1, <3>2
  <2> QED
    BY <2>2 DEF ReservationExact
<1> QED
  BY <1>6, <1>7, <1>8

LEMMA DeliverStep ==
  ASSUME LedgerInv, NEW actor \in Actor, NEW w \in WorkID,
         SubmitBrief(actor, w) \/ SubmitExperiment(actor, w)
  PROVE  (Kin /\ OneAudit /\ ReservationExact)'
<1>1. PICK event : Deliver(w, event)
  BY DEF SubmitBrief, SubmitExperiment
<1>2. Live(w) /\ works[w].kind \in {"investigation", "experiment"}
  BY DEF SubmitBrief, SubmitExperiment, Live, Issued, Terminal
<1>3. /\ reserved' = Release(Held(w))
      /\ works' = [works EXCEPT ![w] = Delivered(works[w])]
  BY <1>1 DEF Deliver, SettleScope
<1>4. \A x \in WorkID : works[x] \in Work
  BY DEF LedgerInv, TypeOK
<1>5. /\ \A x \in WorkID \ {w} : works'[x] = works[x]
      /\ works'[w] = Delivered(works[w])
  BY <1>3 DEF LedgerInv, TypeOK
<1>6. SameShape(w) /\ works'[w].state = "delivered"
  BY <1>2, <1>4, <1>5 DEF SameShape, Delivered, Live, Issued, Work
<1>7. Kin'
  BY <1>5, <1>6, KinKept DEF LedgerInv, SameShape
<1>8. OneAudit'
  <2>1. ASSUME NEW c \in WorkID, LiveAudit(c)'
        PROVE  /\ LiveAudit(c) /\ works'[c].parent = works[c].parent
               /\ works'[works[c].parent].state = "checking"
    <3>1. c # w /\ LiveAudit(c)
      BY <1>5, <1>6, <2>1 DEF LiveAudit, Live, Issued, Terminal
    <3>2. works[c].parent \in WorkID /\ works[works[c].parent].state = "checking"
          /\ works[works[c].parent].kind = "implementation"
      BY <3>1 DEF LedgerInv, OneAudit, Kin, LiveAudit
    <3> QED
      BY <1>2, <1>5, <3>1, <3>2
  <2> QED
    BY <2>1, OneAuditKept DEF LedgerInv
<1>9. \A x \in WorkID : HoldsSteps(x)' <=> HoldsSteps(x) /\ x # w
  BY <1>5, <1>6 DEF HoldsSteps, Live, Issued, Terminal
<1>10. ReservationExact'
  BY <1>3, <1>5, <1>6, <1>9, ReservedReleased DEF LedgerInv, SameShape
<1> QED
  BY <1>7, <1>8, <1>10

LEMMA SubmitWorkStep ==
  ASSUME LedgerInv, NEW actor \in Actor, NEW w \in WorkID, SubmitWork(actor, w)
  PROVE  (Kin /\ OneAudit /\ ReservationExact)'
<1> DEFINE original == Original(w)
           sub == Fresh(FreshSubmissions)
<1>1. original \in WorkID /\ works[original].kind = "implementation"
      /\ works[original].state \in {"active", "changes_requested"}
  BY DEF SubmitWork, Original, LedgerInv, Kin
<1>2. works[w].kind \in {"implementation", "repair"} /\ works[w].state = "active"
      /\ (w # original => works[w].kind = "repair")
  BY DEF SubmitWork, Original
<1>3. works' = [x \in WorkID |-> IF x = original THEN Submitted(works[x], sub)
                                 ELSE IF x = w THEN ClosedWork(works[x]) ELSE works[x]]
      /\ reserved' = reserved
  BY DEF SubmitWork
<1> HIDE DEF original, sub
<1>4. \A x \in WorkID : works[x] \in Work
  BY DEF LedgerInv, TypeOK
<1>5. works'[original] = Submitted(works[original], sub)
      /\ (w # original => works'[w] = ClosedWork(works[w]))
      /\ \A x \in WorkID \ {w, original} : works'[x] = works[x]
  BY <1>1, <1>3
<1>6. SameShape(original) /\ works'[original].state = "needs_check"
  BY <1>1, <1>4, <1>5 DEF SameShape, Submitted, Work
<1>7. w # original => SameShape(w) /\ works'[w].state = "closed"
  BY <1>2, <1>4, <1>5 DEF SameShape, ClosedWork, Work
<1>8. \A x \in WorkID : SameShape(x)
  BY <1>5, <1>6, <1>7 DEF SameShape
<1>9. Kin'
  BY <1>8, KinKept DEF LedgerInv
<1>10. OneAudit'
  <2>1. ASSUME NEW c \in WorkID, LiveAudit(c)'
        PROVE  /\ LiveAudit(c) /\ works'[c].parent = works[c].parent
               /\ works'[works[c].parent].state = "checking"
    <3>1. works[c].kind = "audit"
      BY <1>8, <2>1 DEF LiveAudit, SameShape
    <3>2. c # w /\ c # original /\ LiveAudit(c)
      BY <1>1, <1>2, <1>5, <2>1, <3>1 DEF LiveAudit, Live, Issued
    <3>3. works[c].parent \in WorkID /\ works[works[c].parent].state = "checking"
      BY <3>2 DEF LedgerInv, OneAudit, Kin, LiveAudit
    <3>4. works[c].parent # w /\ works[c].parent # original
      BY <1>1, <1>2, <3>3
    <3> QED
      BY <1>5, <3>2, <3>3, <3>4
  <2> QED
    BY <2>1, OneAuditKept DEF LedgerInv
<1>11. \A x \in WorkID : HoldsSteps(x)' <=> HoldsSteps(x)
  <2>1. \A x \in WorkID \ {w, original} : HoldsSteps(x)' <=> HoldsSteps(x)
    BY <1>5 DEF HoldsSteps, Live, Issued
  <2>2. \A x \in WorkID : x = original => (HoldsSteps(x)' <=> HoldsSteps(x))
    BY <1>1, <1>6 DEF HoldsSteps, Live, Issued, Terminal, SameShape
  <2>3. w # original => ~HoldsSteps(w) /\ ~HoldsSteps(w)'
    BY <1>2, <1>7 DEF HoldsSteps, Holding, SameShape
  <2> QED
    BY <2>1, <2>2, <2>3
<1>12. ReservationExact'
  BY <1>3, <1>8, <1>11, ReservedKept DEF LedgerInv, SameShape
<1> QED
  BY <1>9, <1>10, <1>12

LEMMA AssignAuditStep ==
  ASSUME LedgerInv, NEW actor \in Manager, NEW w \in WorkID, NEW auditor \in Actor,
         AssignAudit(actor, w, auditor)
  PROVE  (Kin /\ OneAudit /\ ReservationExact)'
<1> DEFINE audit == Fresh(FreshWorks)
           sub == works[w].latestSubmission
           base == NewWork("audit", works[w].owner, auditor, works[w].scope)
           new == [base EXCEPT !.parent = w, !.subject = sub]
           old == [works[w] EXCEPT !.state = "checking", !.revision = @ + 1]
<1>1. audit \in WorkID /\ ~Issued(audit)
  BY FreshIn DEF AssignAudit, FreshWorks
<1>2. works[w].kind = "implementation" /\ works[w].state = "needs_check"
  BY DEF AssignAudit
<1>3. audit # w
  BY <1>1, <1>2 DEF Issued
<1>4. works' = [works EXCEPT ![w] = old, ![audit] = new] /\ reserved' = reserved
  BY <1>3 DEF AssignAudit
<1>5. new.kind = "audit" /\ new.state = "active" /\ new.parent = w
  BY DEF NewWork, Unissued
<1>6. works[w] \in Work
  BY DEF LedgerInv, TypeOK
<1>7. old.kind = works[w].kind /\ old.scope = works[w].scope /\ old.parent = works[w].parent
      /\ old.state = "checking"
  BY <1>6 DEF Work
<1> HIDE DEF audit, new, old
<1>8. works'[w] = old /\ works'[audit] = new
      /\ \A x \in WorkID \ {w, audit} : works'[x] = works[x]
  BY <1>1, <1>3, <1>4 DEF LedgerInv, TypeOK
<1>9. \A x \in WorkID \ {audit} : SameShape(x)
  BY <1>2, <1>7, <1>8 DEF SameShape
<1>10. Kin'
  BY <1>1, <1>2, <1>5, <1>8, <1>9, KinNew DEF LedgerInv
<1>11. \A c \in WorkID : LiveAudit(c)' => c = audit \/ (LiveAudit(c) /\ c # w /\ c # audit)
  BY <1>2, <1>7, <1>8 DEF LiveAudit, Live, Issued
<1>12. \A c \in WorkID : LiveAudit(c) =>
         /\ works[c].parent \in WorkID /\ works[c].parent # w
         /\ works[works[c].parent].state = "checking"
         /\ works[c].parent # audit
  BY <1>1, <1>2 DEF LedgerInv, OneAudit, Kin, LiveAudit, Issued
<1>13. OneAudit'
  <2>1. \A c \in WorkID : LiveAudit(c)' => works'[works'[c].parent].state = "checking"
    BY <1>5, <1>7, <1>8, <1>11, <1>12
  <2>2. \A c, d \in WorkID : (LiveAudit(c) /\ LiveAudit(d))' /\ works'[c].parent = works'[d].parent
          => c = d
    BY <1>5, <1>8, <1>11, <1>12 DEF LedgerInv, OneAudit
  <2> QED
    BY <2>1, <2>2 DEF OneAudit
<1>14. \A x \in WorkID : HoldsSteps(x)' <=> HoldsSteps(x)
  <2>1. \A x \in WorkID \ {w, audit} : HoldsSteps(x)' <=> HoldsSteps(x)
    BY <1>8 DEF HoldsSteps, Live, Issued
  <2>2. HoldsSteps(w)' <=> HoldsSteps(w)
    BY <1>2, <1>7, <1>8 DEF HoldsSteps, Live, Issued, Terminal
  <2>3. \A x \in WorkID : x = audit => ~HoldsSteps(x) /\ ~HoldsSteps(x)'
    BY <1>1, <1>5, <1>8 DEF HoldsSteps, Live, Holding
  <2> QED
    BY <2>1, <2>2, <2>3
<1>15. \A x \in WorkID : HoldsSteps(x) => works'[x].scope = works[x].scope
  BY <1>1, <1>9 DEF HoldsSteps, Live, SameShape
<1>16. ReservationExact'
  BY <1>4, <1>14, <1>15, ReservedKept DEF LedgerInv
<1> QED
  BY <1>10, <1>13, <1>16

LEMMA AssignRepairStep ==
  ASSUME LedgerInv, NEW actor \in Manager, NEW w \in WorkID, NEW assignee \in Actor,
         AssignRepair(actor, w, assignee)
  PROVE  (Kin /\ OneAudit /\ ReservationExact)'
<1> DEFINE a == works[w].latestAudit
           repair == Fresh(FreshWorks)
           new == [NewWork("repair", works[w].owner, assignee,
                           works[w].scope \cap audits[a].affected) EXCEPT
                     !.parent = w, !.requestedBy = a]
           old == [works[w] EXCEPT !.activeRepair = repair, !.revision = @ + 1]
<1>1. repair \in WorkID /\ ~Issued(repair)
  BY FreshIn DEF AssignRepair, FreshWorks
<1>2. works[w].kind = "implementation" /\ works[w].state = "changes_requested"
  BY DEF AssignRepair
<1>3. repair # w
  BY <1>1, <1>2 DEF Issued
<1>4. works' = [works EXCEPT ![w] = old, ![repair] = new] /\ reserved' = reserved
  BY <1>3 DEF AssignRepair
<1>5. new.kind = "repair" /\ new.state = "active" /\ new.parent = w
  BY DEF NewWork, Unissued
<1>6. works[w] \in Work
  BY DEF LedgerInv, TypeOK
<1>7. old.kind = works[w].kind /\ old.scope = works[w].scope /\ old.parent = works[w].parent
      /\ old.state = works[w].state
  BY <1>6 DEF Work
<1> HIDE DEF repair, new, old
<1>8. works'[w] = old /\ works'[repair] = new
      /\ \A x \in WorkID \ {w, repair} : works'[x] = works[x]
  BY <1>1, <1>3, <1>4 DEF LedgerInv, TypeOK
<1>9. \A x \in WorkID \ {repair} : SameShape(x) /\ works'[x].state = works[x].state
  BY <1>2, <1>7, <1>8 DEF SameShape
<1>10. Kin'
  BY <1>1, <1>2, <1>5, <1>8, <1>9, KinNew DEF LedgerInv
<1>11. OneAudit'
  <2>1. ASSUME NEW c \in WorkID, LiveAudit(c)'
        PROVE  /\ LiveAudit(c) /\ works'[c].parent = works[c].parent
               /\ works'[works[c].parent].state = "checking"
    <3>1. c # repair /\ LiveAudit(c)
      BY <1>5, <1>8, <1>9, <2>1 DEF LiveAudit, Live, Issued, SameShape
    <3>2. works[c].parent \in WorkID /\ works[works[c].parent].state = "checking"
      BY <3>1 DEF LedgerInv, OneAudit, Kin, LiveAudit
    <3>3. works[c].parent # repair
      BY <1>1, <3>2 DEF Issued
    <3> QED
      BY <1>9, <3>1, <3>2, <3>3 DEF SameShape
  <2> QED
    BY <2>1, OneAuditKept DEF LedgerInv
<1>12. \A x \in WorkID : HoldsSteps(x)' <=> HoldsSteps(x)
  <2>1. \A x \in WorkID \ {repair} : HoldsSteps(x)' <=> HoldsSteps(x)
    BY <1>9 DEF HoldsSteps, Live, Issued, SameShape
  <2>2. \A x \in WorkID : x = repair => ~HoldsSteps(x) /\ ~HoldsSteps(x)'
    BY <1>1, <1>5, <1>8 DEF HoldsSteps, Live, Holding
  <2> QED
    BY <2>1, <2>2
<1>13. \A x \in WorkID : HoldsSteps(x) => works'[x].scope = works[x].scope
  BY <1>1, <1>9 DEF HoldsSteps, Live, SameShape
<1>14. ReservationExact'
  BY <1>4, <1>12, <1>13, ReservedKept DEF LedgerInv
<1> QED
  BY <1>10, <1>11, <1>14

LEMMA SubmitAuditStep ==
  ASSUME LedgerInv, NEW actor \in Actor, NEW w \in WorkID, NEW verdict \in {"pass", "fail"},
         NEW affected \in SUBSET StepID, SubmitAudit(actor, w, verdict, affected)
  PROVE  (Kin /\ OneAudit /\ ReservationExact)'
<1> DEFINE a == Fresh(FreshAudits)
<1>1. works[w].kind = "audit" /\ LiveAudit(w)
  BY DEF SubmitAudit, LiveAudit, Live, Issued, Terminal
<1>2. PICK o \in WorkID : o = works[w].parent /\ works[o].kind = "implementation"
                          /\ works[o].state = "checking" /\ o # w
  BY <1>1 DEF LedgerInv, Kin, OneAudit
<1>3. /\ works' = [x \in WorkID |-> IF x = o THEN Judged(works[x], verdict, a)
                                    ELSE IF x = w THEN ClosedWork(works[x]) ELSE works[x]]
      /\ reserved' = IF verdict = "pass" THEN Release(works[o].scope) ELSE reserved
  BY <1>2 DEF SubmitAudit
<1> HIDE DEF a
<1>4. works[o] \in Work /\ works[w] \in Work
  BY <1>2 DEF LedgerInv, TypeOK
<1>5. works'[o] = Judged(works[o], verdict, a) /\ works'[w] = ClosedWork(works[w])
      /\ \A x \in WorkID \ {w, o} : works'[x] = works[x]
  BY <1>2, <1>3
<1>6. SameShape(o)
      /\ works'[o].state = IF verdict = "pass" THEN "accepted" ELSE "changes_requested"
  BY <1>2, <1>4, <1>5 DEF SameShape, Judged, Work
<1>7. SameShape(w) /\ works'[w].state = "closed"
  BY <1>1, <1>4, <1>5 DEF SameShape, ClosedWork, Work, LiveAudit, Live, Issued
<1>8. \A x \in WorkID : SameShape(x)
  BY <1>5, <1>6, <1>7 DEF SameShape
<1>9. Kin'
  BY <1>8, KinKept DEF LedgerInv
<1>10. OneAudit'
  <2>1. ASSUME NEW c \in WorkID, LiveAudit(c)'
        PROVE  /\ LiveAudit(c) /\ works'[c].parent = works[c].parent
               /\ works'[works[c].parent].state = "checking"
    <3>1. c # w /\ c # o
      BY <1>2, <1>6, <1>7, <2>1 DEF LiveAudit, Live, Terminal, SameShape
    <3>2. LiveAudit(c) /\ works'[c] = works[c]
      BY <1>5, <2>1, <3>1 DEF LiveAudit, Live, Issued
    <3>3. works[c].parent \in WorkID /\ works[works[c].parent].state = "checking"
          /\ works[works[c].parent].kind = "implementation"
      BY <3>2 DEF LedgerInv, OneAudit, Kin, LiveAudit
    <3>4. works[c].parent # o
      BY <1>1, <1>2, <3>1, <3>2 DEF LedgerInv, OneAudit
    <3> QED
      BY <1>1, <1>5, <3>2, <3>3, <3>4
  <2> QED
    BY <2>1, OneAuditKept DEF LedgerInv
<1>11. \A x \in WorkID \ {o} : HoldsSteps(x)' <=> HoldsSteps(x)
  <2>1. \A x \in WorkID \ {w, o} : HoldsSteps(x)' <=> HoldsSteps(x)
    BY <1>5 DEF HoldsSteps, Live, Issued
  <2>2. ~HoldsSteps(w) /\ ~HoldsSteps(w)'
    BY <1>1, <1>7 DEF HoldsSteps, Holding, SameShape
  <2> QED
    BY <2>1, <2>2
<1>12. HoldsSteps(o)
  BY <1>2 DEF HoldsSteps, Live, Issued, Terminal, Holding
<1>13. CASE verdict = "pass"
  <2>1. ~HoldsSteps(o)'
    BY <1>6, <1>13 DEF HoldsSteps, Live, Terminal
  <2>2. Held(o) = works[o].scope
    <3>1. works[o].scope \subseteq StepID
      BY <1>4 DEF Work
    <3> QED
      BY <1>12, <3>1 DEF LedgerInv, ReservationExact, HoldsSteps, Held
  <2>3. reserved' = Release(Held(o))
    BY <1>3, <1>13, <2>2
  <2>4. ReservationExact'
    BY <1>8, <1>11, <1>12, <2>1, <2>3, ReservedReleased DEF LedgerInv, SameShape
  <2> QED
    BY <1>9, <1>10, <2>4
<1>14. CASE verdict = "fail"
  <2>1. HoldsSteps(o)'
    BY <1>2, <1>6, <1>14 DEF HoldsSteps, Live, Issued, Terminal, Holding, SameShape
  <2>2. reserved' = reserved
    BY <1>3, <1>14
  <2>3. ReservationExact'
    BY <1>8, <1>11, <1>12, <2>1, <2>2, ReservedKept DEF LedgerInv, SameShape
  <2> QED
    BY <1>9, <1>10, <2>3
<1> QED
  BY <1>13, <1>14

\* A cancelled record keeps its shape.
LEMMA CancelledShape ==
  ASSUME NEW r \in Work, r.state # "unissued"
  PROVE  /\ CancelledWork(r).kind = r.kind /\ CancelledWork(r).scope = r.scope
         /\ CancelledWork(r).parent = r.parent /\ CancelledWork(r).state = "cancelled"
  BY DEF CancelledWork, Work

LEMMA CancelImplementationStep ==
  ASSUME LedgerInv, NEW w \in WorkID, works[w].kind = "implementation", CancelImplementation(w)
  PROVE  (Kin /\ OneAudit /\ ReservationExact)'
<1> DEFINE gone == Children(w) \cup {w}
<1>1. \A x \in gone : x \in WorkID /\ Issued(x)
  BY DEF LedgerInv, Kin, Children, Live, Issued
<1>2. /\ works' = [x \in WorkID |-> IF x \in gone THEN CancelledWork(works[x]) ELSE works[x]]
      /\ reserved' = Release(Held(w))
  BY DEF CancelImplementation, SettleScope
<1>3. \A x \in gone : SameShape(x) /\ works'[x].state = "cancelled"
  BY <1>1, <1>2, CancelledShape DEF LedgerInv, TypeOK, SameShape, Issued
<1>4. \A x \in WorkID \ gone : works'[x] = works[x]
  BY <1>2
<1>5. \A x \in WorkID : SameShape(x)
  BY <1>3, <1>4 DEF SameShape
<1>6. \A x \in gone : ~Live(x)'
  BY <1>3 DEF Live, Terminal
<1>7. Kin'
  BY <1>5, KinKept DEF LedgerInv
<1>8. OneAudit'
  <2>1. ASSUME NEW c \in WorkID, LiveAudit(c)'
        PROVE  /\ LiveAudit(c) /\ works'[c].parent = works[c].parent
               /\ works'[works[c].parent].state = "checking"
    <3>1. c \notin gone /\ LiveAudit(c) /\ works'[c] = works[c]
      BY <1>4, <1>6, <2>1 DEF LiveAudit, Live, Issued
    <3>2. works[c].parent \in WorkID /\ works[works[c].parent].state = "checking"
          /\ works[works[c].parent].kind = "implementation"
      BY <3>1 DEF LedgerInv, OneAudit, Kin, LiveAudit
    <3>3. works[c].parent \notin gone
      <4>1. works[c].parent # w
        BY <3>1 DEF Children, LiveAudit
      <4>2. works[c].parent \notin Children(w)
        BY <3>2, StoreAssumption DEF Children, LedgerInv, Kin
      <4> QED
        BY <4>1, <4>2
    <3> QED
      BY <1>4, <3>1, <3>2, <3>3
  <2> QED
    BY <2>1, OneAuditKept DEF LedgerInv
<1>9. \A x \in WorkID : HoldsSteps(x)' <=> HoldsSteps(x) /\ x # w
  <2>1. \A x \in Children(w) : ~HoldsSteps(x) /\ x # w
    BY StoreAssumption DEF Children, HoldsSteps, Holding, LedgerInv, Kin
  <2> QED
    BY <1>4, <1>6, <2>1 DEF HoldsSteps, Live, Issued
<1>10. ReservationExact'
  BY <1>2, <1>5, <1>9, ReservedReleased DEF LedgerInv, SameShape
<1> QED
  BY <1>7, <1>8, <1>10

LEMMA CancelAuditStep ==
  ASSUME LedgerInv, NEW w \in WorkID, LiveAudit(w), CancelAudit(w)
  PROVE  (Kin /\ OneAudit /\ ReservationExact)'
<1>1. PICK o \in WorkID : o = works[w].parent /\ works[o].kind = "implementation"
                          /\ works[o].state = "checking" /\ o # w
  BY DEF LedgerInv, Kin, OneAudit, LiveAudit
<1> DEFINE old == [works[o] EXCEPT !.state = "needs_check", !.revision = @ + 1]
<1>2. works' = [works EXCEPT ![w] = CancelledWork(works[w]), ![o] = old] /\ reserved' = reserved
  BY <1>1 DEF CancelAudit
<1>3. works[o] \in Work /\ works[w] \in Work
  BY DEF LedgerInv, TypeOK
<1>4. old.kind = works[o].kind /\ old.scope = works[o].scope /\ old.parent = works[o].parent
      /\ old.state = "needs_check"
  BY <1>3 DEF Work
<1> HIDE DEF old
<1>5. works'[w] = CancelledWork(works[w]) /\ works'[o] = old
      /\ \A x \in WorkID \ {w, o} : works'[x] = works[x]
  BY <1>1, <1>2 DEF LedgerInv, TypeOK
<1>6. SameShape(w) /\ works'[w].state = "cancelled"
  BY <1>3, <1>5, CancelledShape DEF SameShape, LiveAudit, Live, Issued
<1>7. \A x \in WorkID : SameShape(x)
  BY <1>1, <1>4, <1>5, <1>6 DEF SameShape
<1>8. Kin'
  BY <1>7, KinKept DEF LedgerInv
<1>9. OneAudit'
  <2>1. ASSUME NEW c \in WorkID, LiveAudit(c)'
        PROVE  /\ LiveAudit(c) /\ works'[c].parent = works[c].parent
               /\ works'[works[c].parent].state = "checking"
    <3>1. c # w /\ c # o
      BY <1>1, <1>6, <1>7, <2>1 DEF LiveAudit, Live, Terminal, SameShape
    <3>2. LiveAudit(c) /\ works'[c] = works[c]
      BY <1>5, <2>1, <3>1 DEF LiveAudit, Live, Issued
    <3>3. works[c].parent \in WorkID /\ works[works[c].parent].state = "checking"
          /\ works[works[c].parent].kind = "implementation"
      BY <3>2 DEF LedgerInv, OneAudit, Kin, LiveAudit
    <3>4. works[c].parent # o
      BY <1>1, <3>1, <3>2 DEF LedgerInv, OneAudit
    <3>5. works[c].parent # w
      BY <3>3 DEF LiveAudit
    <3> QED
      BY <1>5, <3>2, <3>3, <3>4, <3>5
  <2> QED
    BY <2>1, OneAuditKept DEF LedgerInv
<1>10. \A x \in WorkID : HoldsSteps(x)' <=> HoldsSteps(x)
  <2>1. \A x \in WorkID \ {w, o} : HoldsSteps(x)' <=> HoldsSteps(x)
    BY <1>5 DEF HoldsSteps, Live, Issued
  <2>2. HoldsSteps(o)' <=> HoldsSteps(o)
    BY <1>1, <1>4, <1>5 DEF HoldsSteps, Live, Issued, Terminal
  <2>3. ~HoldsSteps(w) /\ ~HoldsSteps(w)'
    BY <1>6 DEF HoldsSteps, Holding, SameShape, LiveAudit
  <2> QED
    BY <2>1, <2>2, <2>3
<1>11. ReservationExact'
  BY <1>2, <1>7, <1>10, ReservedKept DEF LedgerInv, SameShape
<1> QED
  BY <1>8, <1>9, <1>11

LEMMA CancelHoldingStep ==
  ASSUME LedgerInv, NEW w \in WorkID, Live(w), works[w].kind \in {"investigation", "experiment"},
         CancelHolding(w)
  PROVE  (Kin /\ OneAudit /\ ReservationExact)'
<1>1. works' = [works EXCEPT ![w] = CancelledWork(works[w])] /\ reserved' = Release(Held(w))
  BY DEF CancelHolding, SettleScope
<1>2. works[w] \in Work
  BY DEF LedgerInv, TypeOK
<1>3. works'[w] = CancelledWork(works[w]) /\ \A x \in WorkID \ {w} : works'[x] = works[x]
  BY <1>1 DEF LedgerInv, TypeOK
<1>4. SameShape(w) /\ works'[w].state = "cancelled"
  BY <1>2, <1>3, CancelledShape DEF SameShape, Live, Issued
<1>5. \A x \in WorkID : SameShape(x)
  BY <1>3, <1>4 DEF SameShape
<1>6. Kin'
  BY <1>5, KinKept DEF LedgerInv
<1>7. OneAudit'
  <2>1. ASSUME NEW c \in WorkID, LiveAudit(c)'
        PROVE  /\ LiveAudit(c) /\ works'[c].parent = works[c].parent
               /\ works'[works[c].parent].state = "checking"
    <3>1. c # w
      BY <1>4, <2>1 DEF LiveAudit, Live, Terminal
    <3>2. LiveAudit(c) /\ works'[c] = works[c]
      BY <1>3, <2>1, <3>1 DEF LiveAudit, Live, Issued
    <3>3. works[c].parent \in WorkID /\ works[works[c].parent].state = "checking"
          /\ works[works[c].parent].kind = "implementation"
      BY <3>2 DEF LedgerInv, OneAudit, Kin, LiveAudit
    <3> QED
      BY <1>3, <3>2, <3>3
  <2> QED
    BY <2>1, OneAuditKept DEF LedgerInv
<1>8. \A x \in WorkID : HoldsSteps(x)' <=> HoldsSteps(x) /\ x # w
  BY <1>3, <1>4 DEF HoldsSteps, Live, Issued, Terminal
<1>9. ReservationExact'
  BY <1>1, <1>5, <1>8, ReservedReleased DEF LedgerInv, SameShape
<1> QED
  BY <1>6, <1>7, <1>9

LEMMA CancelStep ==
  ASSUME LedgerInv, NEW actor \in Actor, NEW w \in WorkID, Cancel(actor, w)
  PROVE  (Kin /\ OneAudit /\ ReservationExact)'
<1>1. Live(w)
  BY DEF Cancel
<1>2. CASE works[w].kind = "implementation" /\ CancelImplementation(w)
  BY <1>2, CancelImplementationStep
<1>3. CASE works[w].kind = "repair" /\ CancelImplementation(works[w].parent)
  <2>1. works[w].parent \in WorkID /\ works[works[w].parent].kind = "implementation"
    BY <1>3 DEF LedgerInv, Kin
  <2> QED
    BY <1>3, <2>1, CancelImplementationStep
<1>4. CASE works[w].kind \in {"investigation", "experiment"} /\ CancelHolding(w)
  BY <1>1, <1>4, CancelHoldingStep
<1>5. CASE works[w].kind = "audit" /\ CancelAudit(w)
  BY <1>1, <1>5, CancelAuditStep DEF LiveAudit
<1> QED
  BY <1>2, <1>3, <1>4, <1>5 DEF Cancel

----------------------------------------------------------------------------
(* The invariant of the ledger. *)

LEMMA InitLedgerInv == Init => LedgerInv
<1> SUFFICES ASSUME Init PROVE LedgerInv
  OBVIOUS
<1>1. \A w \in WorkID : works[w].kind = "none" /\ works[w].state = "unissued"
                        /\ works[w].parent = None
  BY DEF Init, Unissued
<1>2. Kin
  BY <1>1 DEF Kin
<1>3. \A w \in WorkID : ~Live(w)
  BY <1>1 DEF Live, Issued
<1>4. OneAudit
  BY <1>3 DEF OneAudit, LiveAudit
<1>5. ReservationExact
  BY <1>3, StoreAssumption DEF ReservationExact, Init
<1> QED
  BY <1>2, <1>4, <1>5, InitTypeOK DEF LedgerInv

LEMMA WorkingInv ==
  ASSUME LedgerInv, Working
  PROVE  TypeOK' /\ (Kin /\ OneAudit /\ ReservationExact)'
<1>1. PICK actor \in Actor, w \in WorkID :
        \/ \E blocked \in BOOLEAN, steps \in SUBSET StepID :
             \E status \in [steps -> ReportedStatus] :
               ReportWorkProgress(actor, w, blocked, steps, status)
        \/ RecordHypothesis(actor, w) \/ RecordResult(actor, w)
        \/ SubmitBrief(actor, w) \/ SubmitExperiment(actor, w)
        \/ SubmitWork(actor, w)
        \/ \E verdict \in {"pass", "fail"}, affected \in SUBSET StepID :
             SubmitAudit(actor, w, verdict, affected)
        \/ Cancel(actor, w)
  BY DEF Working
<1>2. TypeOK /\ Kin
  BY DEF LedgerInv
<1>3. CASE \E blocked \in BOOLEAN, steps \in SUBSET StepID :
             \E status \in [steps -> ReportedStatus] :
               ReportWorkProgress(actor, w, blocked, steps, status)
  BY <1>2, <1>3, ReportType, ReportStep
<1>4. CASE RecordHypothesis(actor, w) \/ RecordResult(actor, w)
  BY <1>2, <1>4, HypothesisType, HypothesisStep
<1>5. CASE SubmitBrief(actor, w) \/ SubmitExperiment(actor, w)
  BY <1>2, <1>5, DeliverType, DeliverStep
<1>6. CASE SubmitWork(actor, w)
  BY <1>2, <1>6, SubmitWorkType, SubmitWorkStep
<1>7. CASE \E verdict \in {"pass", "fail"}, affected \in SUBSET StepID :
             SubmitAudit(actor, w, verdict, affected)
  BY <1>2, <1>7, SubmitAuditType, SubmitAuditStep
<1>8. CASE Cancel(actor, w)
  BY <1>2, <1>8, CancelType, CancelStep
<1> QED
  BY <1>1, <1>3, <1>4, <1>5, <1>6, <1>7, <1>8

LEMMA AssigningInv ==
  ASSUME LedgerInv, Assigning
  PROVE  TypeOK' /\ (Kin /\ OneAudit /\ ReservationExact)'
<1>1. PICK actor \in Manager, assignee \in Actor :
        \/ \E scope \in SUBSET StepID, kind \in Holding : Assign(kind, actor, assignee, scope)
        \/ \E w \in WorkID : AssignAudit(actor, w, assignee) \/ AssignRepair(actor, w, assignee)
  BY DEF Assigning, AssignWork, AssignInvestigation, AssignExperiment, Holding
<1>2. TypeOK
  BY DEF LedgerInv
<1>3. CASE \E scope \in SUBSET StepID, kind \in Holding : Assign(kind, actor, assignee, scope)
  BY <1>2, <1>3, AssignType, AssignStep
<1>4. CASE \E w \in WorkID : AssignAudit(actor, w, assignee)
  BY <1>2, <1>4, AssignAuditType, AssignAuditStep
<1>5. CASE \E w \in WorkID : AssignRepair(actor, w, assignee)
  BY <1>2, <1>5, AssignRepairType, AssignRepairStep
<1> QED
  BY <1>1, <1>3, <1>4, <1>5

LEMMA PlanningInv ==
  ASSUME LedgerInv, Planning
  PROVE  TypeOK' /\ (Kin /\ OneAudit /\ ReservationExact)'
<1>1. TypeOK'
  BY CreatePlanType, UpdatePlanType DEF Planning, LedgerInv
<1> QED
  BY <1>1, PlanningStep

LEMMA NextLedgerInv == LedgerInv /\ [Next]_vars => LedgerInv'
<1> SUFFICES ASSUME LedgerInv, [Next]_vars PROVE LedgerInv'
  OBVIOUS
<1>1. CASE Next
  BY <1>1, PlanningInv, AssigningInv, WorkingInv DEF Next, LedgerInv
<1>2. CASE UNCHANGED vars
  <2>1. (Kin /\ OneAudit /\ ReservationExact)'
    BY <1>2 DEF LedgerInv, vars, Kin, OneAudit, ReservationExact, LiveAudit, Live, Issued
  <2> QED
    BY <1>2, <2>1, StutterType DEF LedgerInv
<1> QED
  BY <1>1, <1>2

\* The ledger's types, the kinship of its works, the uniqueness of live audits and
\* the reservations hold in every reachable state.
THEOREM LedgerInvariant == Spec => []LedgerInv
  BY InitLedgerInv, NextLedgerInv, PTL DEF Spec

\* Every record keeps its type, and every id names a record of its kind.
THEOREM TypeCorrect == Spec => []TypeOK
<1>1. LedgerInv => TypeOK
  BY DEF LedgerInv
<1> QED
  BY <1>1, LedgerInvariant, PTL

\* The reservations are exactly the scopes of the live work that completes steps,
\* for any number of agents, plans, steps and works: reserve, settleScope, the
\* release in SubmitAudit and the cascade of Cancel never double-book a step,
\* lose a reservation or leak one.
THEOREM ReservationsExact == Spec => []ReservationExact
<1>1. LedgerInv => ReservationExact
  BY DEF LedgerInv
<1> QED
  BY <1>1, LedgerInvariant, PTL

----------------------------------------------------------------------------
(* Effects. *)

\* x goes on as the same work, one revision later.
Continues(x) ==
  /\ works'[x].kind = works[x].kind /\ works'[x].scope = works[x].scope
  /\ works'[x].parent = works[x].parent /\ works'[x].assignee = works[x].assignee
  /\ works'[x].subject = works[x].subject /\ works'[x].requestedBy = works[x].requestedBy
  /\ works'[x].revision = works[x].revision + 1

Turns(x, state, sub, audit, repair) ==
  /\ Continues(x)
  /\ works'[x].state = state /\ works'[x].latestSubmission = sub
  /\ works'[x].latestAudit = audit /\ works'[x].activeRepair = repair

Moves(x, state) ==
  Turns(x, state, works[x].latestSubmission, works[x].latestAudit, works[x].activeRepair)

Begins(x, kind, assignee, scope, parent, subject, requestedBy) ==
  /\ ~Issued(x)
  /\ works'[x].kind = kind /\ works'[x].state = "active" /\ works'[x].assignee = assignee
  /\ works'[x].scope = scope /\ works'[x].parent = parent /\ works'[x].subject = subject
  /\ works'[x].requestedBy = requestedBy
  /\ works'[x].latestSubmission = None /\ works'[x].latestAudit = None
  /\ works'[x].activeRepair = None

Others(S) == \A x \in WorkID \ S : works'[x] = works[x]

Planned(edit, cancel) ==
  /\ UNCHANGED <<works, reserved, submissions, audits>>
  /\ \A s \in edit \cup cancel : reserved[s] = None /\ stepStatus[s] # "completed"
  /\ \A s \in StepID \ edit : stepCriteria'[s] = stepCriteria[s]
  /\ \A s \in StepID \ cancel : stepStatus'[s] = stepStatus[s]
  /\ \A s \in cancel : stepStatus'[s] = "cancelled"

Assigned(w, kind, assignee, scope) ==
  /\ Begins(w, kind, assignee, scope, None, None, None) /\ Others({w})
  /\ \A s \in scope : Assignable(s)
  /\ reserved' = Reserve(w, scope)
  /\ Announce("work_assigned", w, None) \in emitted'
  /\ UNCHANGED <<stepStatus, stepCriteria, submissions, audits>>

Worked(w, steps) ==
  /\ works[w].state = "active" /\ Moves(w, "active") /\ Others({w})
  /\ steps \subseteq Reportable(w)
  /\ \A s \in StepID \ steps : stepStatus'[s] = stepStatus[s]
  /\ \A s \in steps : stepStatus'[s] \in ReportableStatus
  /\ UNCHANGED <<reserved, stepCriteria, submissions, audits>>

Delivers(w) ==
  /\ works[w].state = "active" /\ works[w].kind \in {"investigation", "experiment"}
  /\ Moves(w, "delivered") /\ Others({w})
  /\ reserved' = Release(Held(w)) /\ stepStatus' = WithStatus(Held(w), "completed")
  /\ UNCHANGED <<stepCriteria, submissions, audits>>

\* A submission, by w itself (w = o) or by the repair w of o.
Submits(actor, w, o, sub) ==
  /\ works[w].assignee = actor /\ works[w].state = "active"
  /\ works[o].kind = "implementation" /\ works[o].state \in {"active", "changes_requested"}
  /\ w # o => /\ works[w].kind = "repair" /\ works[w].parent = o /\ works[o].activeRepair = w
              /\ Moves(w, "closed")
  /\ Turns(o, "needs_check", sub, works[o].latestAudit, None) /\ Others({w, o})
  /\ submissions[sub].work = None
  /\ submissions' = [submissions EXCEPT ![sub] =
       [work |-> o, by |-> actor, supersedes |-> works[o].latestSubmission,
        criteria |-> stepCriteria]]
  /\ \A s \in works[o].scope : stepStatus[s] \in {"pending", "in_progress", "ready_for_review"}
  /\ stepStatus' = WithStatus(works[o].scope, "ready_for_review")
  /\ Announce("review_requested", o, sub) \in emitted'
  /\ UNCHANGED <<reserved, stepCriteria, audits>>

AuditBegins(w, c, auditor) ==
  /\ works[w].kind = "implementation" /\ works[w].state = "needs_check"
  /\ works[w].latestSubmission # None /\ Independent(auditor, w)
  /\ Moves(w, "checking") /\ Others({w, c}) /\ w # c
  /\ Begins(c, "audit", auditor, works[w].scope, w, works[w].latestSubmission, None)
  /\ Announce("work_assigned", c, None) \in emitted'
  /\ UNCHANGED <<reserved, stepStatus, stepCriteria, submissions, audits>>

Outcome(verdict) == IF verdict = "pass" THEN "accepted" ELSE "changes_requested"

Judges(w, o, a, verdict, affected) ==
  /\ works[w].state = "active" /\ works[w].kind = "audit" /\ works[w].parent = o
  /\ works[o].kind = "implementation" /\ works[o].state = "checking"
  /\ works[o].latestSubmission = works[w].subject
  /\ affected \subseteq works[o].scope
  /\ Turns(o, Outcome(verdict), works[o].latestSubmission, a, works[o].activeRepair)
  /\ Moves(w, "closed") /\ Others({w, o}) /\ w # o
  /\ audits[a].work = None
  /\ audits' = [audits EXCEPT ![a] =
       [work |-> w, submission |-> works[w].subject, by |-> works[w].assignee,
        verdict |-> verdict, affected |-> affected]]
  /\ stepStatus' = IF verdict = "pass" THEN WithStatus(works[o].scope, "completed")
                                       ELSE WithStatus(affected, "pending")
  /\ reserved' = IF verdict = "pass" THEN Release(works[o].scope) ELSE reserved
  /\ UNCHANGED <<stepCriteria, submissions>>

RepairBegins(w, r, assignee, scope) ==
  /\ works[w].kind = "implementation" /\ works[w].state = "changes_requested"
  /\ works[w].activeRepair = None /\ scope \subseteq works[w].scope
  /\ Turns(w, "changes_requested", works[w].latestSubmission, works[w].latestAudit, r)
  /\ Begins(r, "repair", assignee, scope, w, None, works[w].latestAudit)
  /\ Others({w, r}) /\ w # r
  /\ Announce("work_assigned", r, None) \in emitted'
  /\ UNCHANGED <<reserved, stepStatus, stepCriteria, submissions, audits>>

\* The cycle of w ends with its live audits and repairs.
CycleEnds(w) ==
  /\ works[w].kind = "implementation" /\ Live(w)
  /\ Turns(w, "cancelled", works[w].latestSubmission, works[w].latestAudit, None)
  /\ \A c \in Children(w) : c # w /\ Moves(c, "cancelled")
  /\ Others(Children(w) \cup {w})
  /\ \A x \in Children(w) \cup {w} : \E e \in emitted' : e.kind = "work_cancelled" /\ e.work = x
  /\ reserved' = Release(Held(w)) /\ stepStatus' = WithStatus(Held(w), "pending")
  /\ UNCHANGED <<stepCriteria, submissions, audits>>

AuditEnds(w, o) ==
  /\ LiveAudit(w) /\ works[w].parent = o /\ works[o].kind = "implementation" /\ w # o
  /\ works[o].state = "checking"
  /\ Moves(w, "cancelled") /\ Moves(o, "needs_check") /\ Others({w, o})
  /\ Announce("review_requested", o, works[o].latestSubmission) \in emitted'
  /\ Announce("work_cancelled", w, None) \in emitted'
  /\ UNCHANGED <<reserved, stepStatus, stepCriteria, submissions, audits>>

HoldingEnds(w) ==
  /\ Live(w) /\ works[w].kind \in {"investigation", "experiment"}
  /\ Moves(w, "cancelled") /\ Others({w})
  /\ Announce("work_cancelled", w, None) \in emitted'
  /\ reserved' = Release(Held(w)) /\ stepStatus' = WithStatus(Held(w), "pending")
  /\ UNCHANGED <<stepCriteria, submissions, audits>>

----------------------------------------------------------------------------
(* The operations have these effects. *)

\* Plans are created and edited.
LEMMA PlanningEffect ==
  ASSUME LedgerInv, Planning
  PROVE  \E edit, cancel \in SUBSET StepID : Planned(edit, cancel)
<1>1. CASE \E actor \in Manager, n \in 1..Cardinality(StepID) : CreatePlan(actor, n)
  <2>1. Planned({}, {})
    BY <1>1 DEF CreatePlan, AddSteps, WithStatus, Planned, LedgerInv, TypeOK
  <2> QED
    BY <2>1
<1>2. CASE \E actor \in Manager, p \in PlanID, n \in 0..Cardinality(StepID),
             edit, cancel \in SUBSET StepID, criteria \in Criteria :
             UpdatePlan(actor, p, n, edit, cancel, criteria)
  <2>1. PICK actor \in Manager, p \in PlanID, n \in 0..Cardinality(StepID),
             edit \in SUBSET StepID, cancel \in SUBSET StepID, criteria \in Criteria :
             UpdatePlan(actor, p, n, edit, cancel, criteria)
    BY <1>2
  <2>2. Planned(edit, cancel)
    BY <2>1 DEF UpdatePlan, AddSteps, WithStatus, Planned, Editable
  <2> QED
    BY <2>2
<1> QED
  BY <1>1, <1>2 DEF Planning

\* Work that holds its steps is assigned.
LEMMA AssignEffect ==
  ASSUME LedgerInv, NEW kind \in Holding, NEW actor \in Manager, NEW assignee \in Actor,
         NEW scope \in SUBSET StepID, Assign(kind, actor, assignee, scope)
  PROVE  \E w \in WorkID : Assigned(w, kind, assignee, scope)
<1> DEFINE w == Fresh(FreshWorks)
           r == NewWork(kind, actor, assignee, scope)
<1>1. w \in WorkID /\ ~Issued(w)
  BY FreshIn DEF Assign, FreshWorks
<1>2. /\ works' = [works EXCEPT ![w] = r] /\ reserved' = Reserve(w, scope)
      /\ CheckScope(actor, scope) /\ emitted' = {Announce("work_assigned", w, None)}
      /\ UNCHANGED <<stepStatus, stepCriteria, submissions, audits>>
  BY DEF Assign, planVars
<1>3. /\ r.kind = kind /\ r.state = "active" /\ r.assignee = assignee /\ r.scope = scope
      /\ r.parent = None /\ r.subject = None /\ r.requestedBy = None
      /\ r.latestSubmission = None /\ r.latestAudit = None /\ r.activeRepair = None
  BY DEF NewWork, Unissued
<1> HIDE DEF w, r
<1>4. works'[w] = r /\ Others({w})
  BY <1>1, <1>2 DEF LedgerInv, TypeOK, Others
<1>5. \A s \in scope : Assignable(s)
  BY <1>2 DEF CheckScope
<1>6. Begins(w, kind, assignee, scope, None, None, None)
  BY <1>1, <1>3, <1>4 DEF Begins
<1>7. Assigned(w, kind, assignee, scope)
  BY <1>2, <1>4, <1>5, <1>6 DEF Assigned
<1> QED
  BY <1>1, <1>7

\* Progress is reported.
LEMMA ReportEffect ==
  ASSUME LedgerInv, NEW actor \in Actor, NEW w \in WorkID, NEW blocked \in BOOLEAN,
         NEW steps \in SUBSET StepID, NEW status \in [steps -> ReportedStatus],
         ReportWorkProgress(actor, w, blocked, steps, status)
  PROVE  Worked(w, steps)
<1>1. works[w] \in Work
  BY DEF LedgerInv, TypeOK
<1>2. works'[w] = [works[w] EXCEPT !.blocked = blocked, !.revision = @ + 1] /\ Others({w})
  BY <1>1 DEF ReportWorkProgress, LedgerInv, TypeOK, Others
<1>3. Moves(w, works[w].state)
  BY <1>1, <1>2 DEF Moves, Turns, Continues, Work
<1>4. \A s \in steps : stepStatus'[s] \in ReportableStatus
  BY StoreAssumption DEF ReportWorkProgress, ReportableStatus
<1> QED
  BY <1>2, <1>3, <1>4 DEF ReportWorkProgress, Worked

\* A hypothesis or a result is recorded.
LEMMA HypothesisEffect ==
  ASSUME LedgerInv, NEW actor \in Actor, NEW w \in WorkID,
         RecordHypothesis(actor, w) \/ RecordResult(actor, w)
  PROVE  Worked(w, {})
<1>1. works[w] \in Work
  BY DEF LedgerInv, TypeOK
<1>2. Others({w})
  BY <1>1 DEF RecordHypothesis, RecordResult, LedgerInv, TypeOK, Others
<1>3. Moves(w, works[w].state)
  BY <1>1 DEF RecordHypothesis, RecordResult, LedgerInv, TypeOK, Moves, Turns, Continues, Work
<1> QED
  BY <1>2, <1>3 DEF RecordHypothesis, RecordResult, Worked, planVars

\* A brief or an experiment is submitted.
LEMMA DeliverEffect ==
  ASSUME LedgerInv, NEW actor \in Actor, NEW w \in WorkID,
         SubmitBrief(actor, w) \/ SubmitExperiment(actor, w)
  PROVE  Delivers(w)
<1>1. works[w] \in Work
  BY DEF LedgerInv, TypeOK
<1>2. PICK event : Deliver(w, event)
  BY DEF SubmitBrief, SubmitExperiment
<1>3. works'[w] = Delivered(works[w]) /\ Others({w})
  BY <1>2 DEF Deliver, LedgerInv, TypeOK, Others
<1>4. Moves(w, "delivered")
  BY <1>1, <1>3 DEF Delivered, Moves, Turns, Continues, Work
<1> QED
  BY <1>2, <1>3, <1>4 DEF Deliver, SettleScope, SubmitBrief, SubmitExperiment, Delivers

\* What the rewritten forms of a record leave of it.
LEMMA ClosedFields ==
  ASSUME NEW x \in WorkID, works[x] \in Work, works'[x] = ClosedWork(works[x])
  PROVE  Moves(x, "closed")
  BY DEF ClosedWork, Moves, Turns, Continues, Work

LEMMA SubmittedFields ==
  ASSUME NEW x \in WorkID, NEW sub, works[x] \in Work, works'[x] = Submitted(works[x], sub)
  PROVE  Turns(x, "needs_check", sub, works[x].latestAudit, None)
  BY DEF Submitted, Turns, Continues, Work

LEMMA JudgedFields ==
  ASSUME NEW x \in WorkID, NEW verdict, NEW a, works[x] \in Work,
         works'[x] = Judged(works[x], verdict, a)
  PROVE  Turns(x, Outcome(verdict), works[x].latestSubmission, a, works[x].activeRepair)
<1> DEFINE state == Outcome(verdict)
<1>1. works'[x] = [works[x] EXCEPT !.state = state, !.latestAudit = a, !.revision = @ + 1]
  BY DEF Judged, Outcome
<1> HIDE DEF state
<1>2. Turns(x, state, works[x].latestSubmission, a, works[x].activeRepair)
  BY <1>1 DEF Turns, Continues, Work
<1> QED
  BY <1>2 DEF state

LEMMA NextStateFields ==
  ASSUME NEW x \in WorkID, NEW state, works[x] \in Work,
         works'[x] = [works[x] EXCEPT !.state = state, !.revision = @ + 1]
  PROVE  Moves(x, state)
  BY DEF Moves, Turns, Continues, Work

LEMMA CancelledRecord ==
  ASSUME NEW x \in WorkID, works[x] \in Work, works'[x] = CancelledWork(works[x])
  PROVE  Turns(x, "cancelled", works[x].latestSubmission, works[x].latestAudit,
               IF works[x].kind = "implementation" THEN None ELSE works[x].activeRepair)
<1> DEFINE repair == IF works[x].kind = "implementation" THEN None ELSE works[x].activeRepair
<1>1. works'[x] = [works[x] EXCEPT !.state = "cancelled", !.blocked = FALSE, !.revision = @ + 1,
                                   !.activeRepair = repair]
  BY DEF CancelledWork
<1> HIDE DEF repair
<1>2. Turns(x, "cancelled", works[x].latestSubmission, works[x].latestAudit, repair)
  BY <1>1 DEF Turns, Continues, Work
<1> QED
  BY <1>2 DEF repair

\* An implementation or a repair is submitted.
LEMMA SubmitEffect ==
  ASSUME LedgerInv, NEW actor \in Actor, NEW w \in WorkID, SubmitWork(actor, w)
  PROVE  \E o \in WorkID, sub \in SubmissionID : Submits(actor, w, o, sub)
<1> DEFINE o == Original(w)
           sub == Fresh(FreshSubmissions)
<1>1. sub \in SubmissionID /\ submissions[sub].work = None
  BY FreshIn DEF SubmitWork, FreshSubmissions
<1>2. /\ o \in WorkID /\ works[o].kind = "implementation"
      /\ works[o].state \in {"active", "changes_requested"}
      /\ w # o => works[w].kind = "repair" /\ works[w].parent = o /\ works[o].activeRepair = w
  BY DEF SubmitWork, Original, LedgerInv, Kin
<1>3. works[o] \in Work /\ works[w] \in Work
  BY <1>2 DEF LedgerInv, TypeOK
<1>4. works' = [x \in WorkID |-> IF x = o THEN Submitted(works[x], sub)
                                 ELSE IF x = w THEN ClosedWork(works[x]) ELSE works[x]]
  BY DEF SubmitWork
<1>5. /\ works[w].assignee = actor /\ works[w].state = "active"
      /\ submissions' = [submissions EXCEPT ![sub] =
           [work |-> o, by |-> actor, supersedes |-> works[o].latestSubmission,
            criteria |-> stepCriteria]]
      /\ stepStatus' = WithStatus(works[o].scope, "ready_for_review")
      /\ \A s \in works[o].scope : stepStatus[s] \in {"pending", "in_progress", "ready_for_review"}
      /\ emitted' = {Announce("review_requested", o, sub)}
      /\ UNCHANGED <<reserved, stepCriteria, audits>>
  BY DEF SubmitWork, Submittable
<1> HIDE DEF o, sub
<1>6. Turns(o, "needs_check", sub, works[o].latestAudit, None)
  BY <1>2, <1>3, <1>4, SubmittedFields
<1>7. w # o => Moves(w, "closed")
  BY <1>3, <1>4, ClosedFields
<1>8. Others({w, o})
  BY <1>4 DEF Others
<1>9. Submits(actor, w, o, sub)
  BY <1>1, <1>2, <1>5, <1>6, <1>7, <1>8 DEF Submits
<1> QED
  BY <1>1, <1>2, <1>9

\* An audit is assigned.
LEMMA AuditEffect ==
  ASSUME LedgerInv, NEW actor \in Manager, NEW w \in WorkID, NEW auditor \in Actor,
         AssignAudit(actor, w, auditor)
  PROVE  \E c \in WorkID : AuditBegins(w, c, auditor)
<1> DEFINE c == Fresh(FreshWorks)
           base == NewWork("audit", works[w].owner, auditor, works[w].scope)
           new == [base EXCEPT !.parent = w, !.subject = works[w].latestSubmission]
           old == [works[w] EXCEPT !.state = "checking", !.revision = @ + 1]
<1>1. c \in WorkID /\ ~Issued(c)
  BY FreshIn DEF AssignAudit, FreshWorks
<1>2. /\ works[w].kind = "implementation" /\ works[w].state = "needs_check"
      /\ works[w].latestSubmission # None /\ Independent(auditor, w)
      /\ emitted' = {Announce("work_assigned", c, None)}
      /\ UNCHANGED <<reserved, stepStatus, stepCriteria, submissions, audits>>
  BY DEF AssignAudit, planVars
<1>3. c # w
  BY <1>1, <1>2 DEF Issued
<1>4. works' = [works EXCEPT ![w] = old, ![c] = new]
  BY <1>3 DEF AssignAudit
<1>5. /\ new.kind = "audit" /\ new.state = "active" /\ new.assignee = auditor
      /\ new.scope = works[w].scope /\ new.parent = w /\ new.subject = works[w].latestSubmission
      /\ new.requestedBy = None /\ new.latestSubmission = None /\ new.latestAudit = None
      /\ new.activeRepair = None
  BY DEF NewWork, Unissued
<1>6. works[w] \in Work
  BY DEF LedgerInv, TypeOK
<1> HIDE DEF c, base, new
<1>7. works'[w] = old /\ works'[c] = new /\ Others({w, c})
  <2> HIDE DEF old
  <2> QED
    BY <1>1, <1>3, <1>4 DEF LedgerInv, TypeOK, Others
<1>8. Moves(w, "checking")
  BY <1>6, <1>7, NextStateFields
<1>9. Begins(c, "audit", auditor, works[w].scope, w, works[w].latestSubmission, None)
  BY <1>1, <1>5, <1>7 DEF Begins
<1>10. AuditBegins(w, c, auditor)
  BY <1>2, <1>3, <1>7, <1>8, <1>9 DEF AuditBegins
<1> QED
  BY <1>1, <1>10

\* A verdict is submitted.
LEMMA JudgeEffect ==
  ASSUME LedgerInv, NEW actor \in Actor, NEW w \in WorkID, NEW verdict \in {"pass", "fail"},
         NEW affected \in SUBSET StepID, SubmitAudit(actor, w, verdict, affected)
  PROVE  \E o \in WorkID, a \in AuditID : Judges(w, o, a, verdict, affected)
<1> DEFINE a == Fresh(FreshAudits)
           o == works[w].parent
<1>1. a \in AuditID /\ audits[a].work = None
  BY FreshIn DEF SubmitAudit, FreshAudits
<1>2. /\ works[w].kind = "audit" /\ works[w].state = "active" /\ works[w].assignee = actor
      /\ o \in WorkID /\ works[o].kind = "implementation" /\ o # w
  BY DEF SubmitAudit, LedgerInv, Kin
<1>3. /\ works[o].state = "checking" /\ works[o].latestSubmission = works[w].subject
      /\ affected \subseteq works[o].scope
      /\ audits' = [audits EXCEPT ![a] =
           [work |-> w, submission |-> works[w].subject, by |-> actor, verdict |-> verdict,
            affected |-> affected]]
      /\ stepStatus' = IF verdict = "pass" THEN WithStatus(works[o].scope, "completed")
                                           ELSE WithStatus(affected, "pending")
      /\ reserved' = IF verdict = "pass" THEN Release(works[o].scope) ELSE reserved
      /\ works' = [x \in WorkID |-> IF x = o THEN Judged(works[x], verdict, a)
                                    ELSE IF x = w THEN ClosedWork(works[x]) ELSE works[x]]
      /\ UNCHANGED <<stepCriteria, submissions>>
  BY DEF SubmitAudit
<1>4. works[o] \in Work /\ works[w] \in Work
  BY <1>2 DEF LedgerInv, TypeOK
<1> HIDE DEF a, o
<1>5. Turns(o, Outcome(verdict), works[o].latestSubmission, a, works[o].activeRepair)
  BY <1>2, <1>3, <1>4, JudgedFields
<1>6. Moves(w, "closed")
  BY <1>2, <1>3, <1>4, ClosedFields
<1>7. Others({w, o})
  BY <1>3 DEF Others
<1>8. Judges(w, o, a, verdict, affected)
  BY <1>1, <1>2, <1>3, <1>5, <1>6, <1>7 DEF Judges, o
<1> QED
  BY <1>1, <1>2, <1>8

\* A repair is assigned.
LEMMA RepairEffect ==
  ASSUME LedgerInv, NEW actor \in Manager, NEW w \in WorkID, NEW assignee \in Actor,
         AssignRepair(actor, w, assignee)
  PROVE  \E r \in WorkID, scope \in SUBSET StepID : RepairBegins(w, r, assignee, scope)
<1> DEFINE a == works[w].latestAudit
           r == Fresh(FreshWorks)
           scope == works[w].scope \cap audits[a].affected
           new == [NewWork("repair", works[w].owner, assignee, scope) EXCEPT
                     !.parent = w, !.requestedBy = a]
           old == [works[w] EXCEPT !.activeRepair = r, !.revision = @ + 1]
<1>1. r \in WorkID /\ ~Issued(r)
  BY FreshIn DEF AssignRepair, FreshWorks
<1>2. /\ works[w].kind = "implementation" /\ works[w].state = "changes_requested"
      /\ works[w].activeRepair = None
      /\ emitted' = {Announce("work_assigned", r, None)}
      /\ UNCHANGED <<reserved, stepStatus, stepCriteria, submissions, audits>>
  BY DEF AssignRepair, planVars
<1>3. r # w
  BY <1>1, <1>2 DEF Issued
<1>4. works' = [works EXCEPT ![w] = old, ![r] = new]
  BY <1>3 DEF AssignRepair
<1>5. /\ new.kind = "repair" /\ new.state = "active" /\ new.assignee = assignee
      /\ new.scope = scope /\ new.parent = w /\ new.subject = None /\ new.requestedBy = a
      /\ new.latestSubmission = None /\ new.latestAudit = None /\ new.activeRepair = None
  BY DEF NewWork, Unissued
<1>6. works[w] \in Work
  BY DEF LedgerInv, TypeOK
<1>7. scope \in SUBSET StepID /\ scope \subseteq works[w].scope
  BY <1>6 DEF Work
<1> HIDE DEF r, new, scope
<1>8. works'[w] = old /\ works'[r] = new /\ Others({w, r})
  <2> HIDE DEF old
  <2> QED
    BY <1>1, <1>3, <1>4 DEF LedgerInv, TypeOK, Others
<1>9. Turns(w, "changes_requested", works[w].latestSubmission, works[w].latestAudit, r)
  BY <1>2, <1>6, <1>8 DEF Turns, Continues, Work
<1>10. Begins(r, "repair", assignee, scope, w, None, works[w].latestAudit)
  BY <1>1, <1>5, <1>8 DEF Begins
<1>11. RepairBegins(w, r, assignee, scope)
  BY <1>2, <1>3, <1>7, <1>8, <1>9, <1>10 DEF RepairBegins
<1> QED
  BY <1>1, <1>7, <1>11

\* An implementation is cancelled, or a repair and with it the implementation.
LEMMA CycleEndsEffect ==
  ASSUME LedgerInv, NEW w \in WorkID, works[w].kind = "implementation", Live(w),
         CancelImplementation(w), UNCHANGED <<submissions, audits>>
  PROVE  CycleEnds(w)
<1> DEFINE gone == Children(w) \cup {w}
<1>1. \A c \in Children(w) : c \in WorkID /\ c # w /\ works[c].kind # "implementation"
  BY StoreAssumption DEF Children, LedgerInv, Kin
<1>2. works' = [x \in WorkID |-> IF x \in gone THEN CancelledWork(works[x]) ELSE works[x]]
  BY DEF CancelImplementation
<1>3. \A x \in WorkID : works[x] \in Work
  BY DEF LedgerInv, TypeOK
<1>4. Turns(w, "cancelled", works[w].latestSubmission, works[w].latestAudit, None)
  BY <1>2, <1>3, CancelledRecord
<1>5. \A c \in Children(w) : c # w /\ Moves(c, "cancelled")
  BY <1>1, <1>2, <1>3, CancelledRecord DEF Moves
<1>6. Others(gone)
  BY <1>2 DEF Others
<1>7. ASSUME NEW x \in gone PROVE \E e \in emitted' : e.kind = "work_cancelled" /\ e.work = x
  <2> DEFINE e == Announce("work_cancelled", x, works[x].latestSubmission)
  <2>1. e \in emitted'
    BY DEF CancelImplementation
  <2>2. e.kind = "work_cancelled" /\ e.work = x
    BY DEF Announce
  <2> QED
    BY <2>1, <2>2
<1> QED
  BY <1>4, <1>5, <1>6, <1>7 DEF CancelImplementation, SettleScope, CycleEnds

\* An audit is cancelled.
LEMMA AuditEndsEffect ==
  ASSUME LedgerInv, NEW w \in WorkID, LiveAudit(w), CancelAudit(w), UNCHANGED <<submissions,
         audits>>
  PROVE  \E o \in WorkID : AuditEnds(w, o)
<1>1. PICK o \in WorkID : o = works[w].parent /\ works[o].kind = "implementation"
                          /\ works[o].state = "checking" /\ o # w
  BY DEF LedgerInv, Kin, OneAudit, LiveAudit
<1> DEFINE old == [works[o] EXCEPT !.state = "needs_check", !.revision = @ + 1]
<1>2. works' = [works EXCEPT ![w] = CancelledWork(works[w]), ![o] = old]
  BY <1>1 DEF CancelAudit
<1>3. works[o] \in Work /\ works[w] \in Work
  BY DEF LedgerInv, TypeOK
<1>4. works'[w] = CancelledWork(works[w]) /\ works'[o] = old /\ Others({w, o})
  <2> HIDE DEF old
  <2> QED
    BY <1>1, <1>2 DEF LedgerInv, TypeOK, Others
<1>5. Moves(o, "needs_check")
  BY <1>3, <1>4, NextStateFields
<1>6. Moves(w, "cancelled")
  BY <1>3, <1>4, CancelledRecord DEF Moves, LiveAudit
<1> QED
  BY <1>1, <1>4, <1>5, <1>6 DEF CancelAudit, AuditEnds, planVars

\* An investigation or an experiment is cancelled.
LEMMA HoldingEndsEffect ==
  ASSUME LedgerInv, NEW w \in WorkID, Live(w), works[w].kind \in {"investigation", "experiment"},
         CancelHolding(w), UNCHANGED <<submissions, audits>>
  PROVE  HoldingEnds(w)
<1>1. works[w] \in Work
  BY DEF LedgerInv, TypeOK
<1>2. works'[w] = CancelledWork(works[w]) /\ Others({w})
  BY DEF CancelHolding, LedgerInv, TypeOK, Others
<1>3. Moves(w, "cancelled")
  BY <1>1, <1>2, CancelledRecord DEF Moves
<1> QED
  BY <1>2, <1>3 DEF CancelHolding, SettleScope, HoldingEnds

----------------------------------------------------------------------------
(* Who contributed, and who audits. *)

\* Who contributed to a submission does not depend on the ones made after it.
LEMMA ContributorKept ==
  ASSUME submissions' = submissions, NEW actor, NEW sub
  PROVE  Contributor(actor, sub)' <=> Contributor(actor, sub)
  BY DEF Contributor, Chain, Superseded

\* The submissions that were made.
MadeSubmissions == {s \in SubmissionID : submissions[s].work # None}

\* What a submission supersedes has been made, so the submissions made are closed.
LEMMA MadeClosed ==
  ASSUME LedgerInv, Minted
  PROVE  Superseded(MadeSubmissions)
<1>1. ASSUME NEW s \in MadeSubmissions
      PROVE  submissions[s].supersedes \in MadeSubmissions \cup {None}
  <2>1. submissions[s] \in Submission
    BY DEF MadeSubmissions, LedgerInv, TypeOK
  <2> QED
    BY <2>1 DEF MadeSubmissions, Minted, SupersededMinted, Submission
<1> QED
  BY <1>1 DEF Superseded

\* A new submission changes the contributors of none that was made.
LEMMA ContributorFixed ==
  ASSUME LedgerInv, Minted, NEW n \in SubmissionID, submissions[n].work = None, NEW v,
         submissions' = [submissions EXCEPT ![n] = v],
         NEW actor, NEW sub \in MadeSubmissions
  PROVE  Contributor(actor, sub)' <=> Contributor(actor, sub)
<1>1. sub # None
  BY StoreAssumption DEF MadeSubmissions
<1>2. PICK I \in SUBSET SubmissionID : I = MadeSubmissions
  BY DEF MadeSubmissions
<1>3. \A s \in I : submissions'[s] = submissions[s]
                   /\ submissions[s].supersedes \in I \cup {None}
  BY <1>2, MadeClosed DEF Superseded, MadeSubmissions, LedgerInv, TypeOK
<1>4. ASSUME NEW S \in SUBSET SubmissionID, sub \in S, Superseded(S)
      PROVE  sub \in S \cap I /\ Superseded(S \cap I)'
  BY <1>3, <1>2, <1>4 DEF Superseded
<1>5. ASSUME NEW S \in SUBSET SubmissionID, sub \in S, Superseded(S)'
      PROVE  sub \in S \cap I /\ Superseded(S \cap I)
  BY <1>3, <1>2, <1>5 DEF Superseded
<1>6. Chain(sub)' = Chain(sub)
  <2>1. ASSUME NEW x \in Chain(sub)' PROVE x \in Chain(sub)
    BY <1>1, <1>4, <2>1 DEF Chain
  <2>2. ASSUME NEW x \in Chain(sub) PROVE x \in Chain(sub)'
    BY <1>1, <1>5, <2>2 DEF Chain
  <2> QED
    BY <2>1, <2>2
<1>7. Chain(sub) \subseteq I
  BY <1>3, <1>2 DEF Chain, Superseded
<1> QED
  BY <1>3, <1>6, <1>7 DEF Contributor

\* An audit, if it is one after, was one before, by the same agent on the same submission.
AuditContinues(c) ==
  works'[c].kind = "audit" =>
    /\ works[c].kind = "audit"
    /\ works'[c].assignee = works[c].assignee /\ works'[c].subject = works[c].subject

\* Auditors stay apart while no submission is made and no audit begins.
LEMMA AuditorsContinue ==
  ASSUME submissions' = submissions, AuditorsApart, \A c \in WorkID : AuditContinues(c)
  PROVE  NotAContributor'
  BY ContributorKept DEF AuditContinues, AuditorsApart, NotAContributor

\* A submission leaves the audits as they were.
LEMMA SubmitsApart ==
  ASSUME StoreInv, NEW actor \in Actor, NEW w \in WorkID, NEW o \in WorkID,
         NEW sub \in SubmissionID, Submits(actor, w, o, sub)
  PROVE  NotAContributor'
<1>1. ASSUME NEW c \in WorkID, works'[c].kind = "audit"
      PROVE  ~Contributor(works[c].assignee, works[c].subject)'
  <2>1. AuditContinues(c)
    BY DEF Submits, AuditContinues, Moves, Turns, Continues, Others
  <2>2. works[c].kind = "audit" /\ works[c].subject \in MadeSubmissions
    BY <2>1, <1>1 DEF AuditContinues, MadeSubmissions, StoreInv, Minted, SubjectMinted,
       LedgerInv, TypeOK, Work
  <2>3. ~Contributor(works[c].assignee, works[c].subject)
    BY <2>2 DEF StoreInv, AuditorsApart, NotAContributor
  <2>4. LedgerInv /\ Minted /\ submissions[sub].work = None 
    BY DEF StoreInv, Submits
  <2>5. PICK v : submissions' = [submissions EXCEPT ![sub] = v]
    BY DEF Submits
  <2>6. \A a, s : s \in MadeSubmissions => (Contributor(a, s)' <=> Contributor(a, s))
    BY <2>4, <2>5, ContributorFixed
  <2>7. \A a, s : works'[c].assignee = a /\ works'[c].subject = s => ~Contributor(a, s)'
    BY <1>1, <2>1, <2>2, <2>3, <2>6 DEF AuditContinues
  <2> QED
    BY <2>7
<1> QED
  BY <1>1 DEF NotAContributor

----------------------------------------------------------------------------
(* Leaves that need an argument of their own. *)

\* The work that begins is in no cycle.
LEMMA AssignedCycle ==
  ASSUME StoreInv, NEW kind \in Holding, NEW assignee \in Actor, NEW scope \in SUBSET StepID,
         NEW w \in WorkID, Assigned(w, kind, assignee, scope)
  PROVE CycleRecord'
<1> USE StoreAssumption DEF StoreInv, LedgerInv, Assigned, Begins, Others
<1>1. /\ ~Issued(w) /\ works'[w].state = "active" /\ works'[w].activeRepair = None
      /\ \A x \in WorkID \ {w} : works'[x] = works[x]
  OBVIOUS
<1>2. \A x \in WorkID : Live(x) => x # w /\ works'[x] = works[x]
  BY <1>1 DEF Live
<1>9. \A x \in WorkID : works[x].activeRepair \in WorkID \cup {None}
  BY DEF TypeOK, Work
<1> QED BY <1>9, <1>1, <1>2 DEF CycleRecord, LiveRepair, LiveAudit, Live, Issued, Terminal

\* The cycle of the one submitted has neither audit nor repair,
\* and the others are as they were.
LEMMA SubmitsCycle ==
  ASSUME StoreInv, NEW actor \in Actor, NEW w \in WorkID, NEW o \in WorkID,
         NEW sub \in SubmissionID, Submits(actor, w, o, sub)
  PROVE CycleRecord'
<1> USE StoreAssumption DEF StoreInv, LedgerInv
<1>1. /\ works'[o].state = "needs_check" /\ works'[o].activeRepair = None
      /\ works[o].kind = "implementation"
  BY DEF Submits, Turns
<1>2. \A x \in WorkID : x # o /\ works'[x].kind = "implementation" => x # w /\ works'[x] = works[x]
  BY DEF Submits, Moves, Turns, Continues, Others
<1>3. \A x \in WorkID : Live(x) /\ works[x].kind \in {"audit",
"repair"} /\ works[x].parent # o => works'[x] = works[x]
  BY <1>1 DEF Submits, Moves, Turns, Continues, Others
<1>9. \A x \in WorkID : works[x].activeRepair \in WorkID \cup {None}
  BY DEF TypeOK, Work
<1> QED BY <1>9, <1>1, <1>2, <1>3 DEF CycleRecord, LiveRepair, LiveAudit, Live, Issued, Terminal

\* What ends is in no cycle.
LEMMA HoldingEndsCycle ==
  ASSUME StoreInv, NEW w \in WorkID, HoldingEnds(w)
  PROVE CycleRecord'
<1> USE StoreAssumption DEF StoreInv, LedgerInv
<1>1. \A x \in WorkID : works'[x].kind \in {"audit", "repair",
"implementation"} => works'[x] = works[x]
  BY DEF HoldingEnds, Moves, Turns, Continues, Others
<1>2. \A x \in WorkID : works[x].kind \in {"audit", "repair",
"implementation"} => works'[x] = works[x]
  BY DEF HoldingEnds, Moves, Turns, Continues, Others
<1>9. \A x \in WorkID : works[x].activeRepair \in WorkID \cup {None}
  BY DEF TypeOK, Work
<1> QED BY <1>9, <1>1, <1>2 DEF CycleRecord, LiveRepair, LiveAudit, Live, Issued, Terminal

\* Verdicts stay their own while the audits that were assigned stay as they are.
LEMMA OwnVerdictKept ==
  ASSUME StoreInv, audits' = audits,
         \A c \in WorkID : works[c].kind = "audit" =>
           works'[c].assignee = works[c].assignee /\ works'[c].subject = works[c].subject
  PROVE  OwnVerdict'
<1>1. ASSUME NEW a \in AuditID, audits[a].work # None
      PROVE  audits[a].work \in WorkID /\ works[audits[a].work].kind = "audit"
  BY <1>1 DEF StoreInv, LedgerInv, TypeOK, Audit, Minted, VerdictOfAudit
<1> QED
  BY <1>1 DEF OwnVerdict, StoreInv, AuditorsApart

\* Accepted work stays earned while no verdict is made and nothing is accepted.
LEMMA AcceptedKept ==
  ASSUME StoreInv, audits' = audits,
         \A x \in WorkID : works'[x].state = "accepted" => works'[x] = works[x],
         \A x \in WorkID : works[x].kind = "audit" => works'[x].parent = works[x].parent
  PROVE  AcceptedEarned'
<1>1. ASSUME NEW x \in WorkID, works[x].state = "accepted"
      PROVE  /\ audits[works[x].latestAudit].work \in WorkID
             /\ works[audits[works[x].latestAudit].work].kind = "audit"
  <2>1. works[x].latestAudit \in AuditID /\ audits[works[x].latestAudit].work # None
    BY <1>1 DEF StoreInv, LedgerInv, TypeOK, Work, AcceptedEarned, Minted, VerdictMinted
  <2> QED
    BY <2>1 DEF StoreInv, LedgerInv, TypeOK, Audit, Minted, VerdictOfAudit
<1> QED
  BY <1>1 DEF AcceptedEarned, StoreInv

LEMMA SubmitsEarned ==
  ASSUME StoreInv, NEW actor \in Actor, NEW w \in WorkID, NEW o \in WorkID,
         NEW sub \in SubmissionID, Submits(actor, w, o, sub)
  PROVE AcceptedEarned'
<1>1. ASSUME NEW x \in WorkID, works'[x].state = "accepted"
      PROVE  works'[x] = works[x]
  BY <1>1 DEF Submits, Moves, Turns, Others
<1>2. audits' = audits /\ \A x \in WorkID : works'[x].parent = works[x].parent
  BY DEF Submits, Moves, Turns, Continues, Others
<1> QED
  BY <1>1, <1>2, AcceptedKept

\* A verdict that accepts is the pass of an audit of what was submitted last.
LEMMA JudgesEarned ==
  ASSUME StoreInv, NEW w \in WorkID, NEW o \in WorkID, NEW a \in AuditID,
         NEW verdict \in {"pass", "fail"}, NEW affected \in SUBSET StepID,
         Judges(w, o, a, verdict, affected)
  PROVE  AcceptedEarned'
<1> DEFINE v == [work |-> w, submission |-> works[w].subject, by |-> works[w].assignee,
                 verdict |-> verdict, affected |-> affected]
<1>1. /\ \A x \in WorkID : works'[x].parent = works[x].parent
      /\ \A x \in WorkID : works'[x].state = "accepted" /\ x # o => works'[x] = works[x]
  BY DEF Judges, Moves, Turns, Continues, Others
<1>2. /\ audits' = [audits EXCEPT ![a] = v] /\ audits[a].work = None
      /\ works'[o].latestAudit = a /\ works'[o].state = Outcome(verdict)
      /\ works'[o].latestSubmission = works[w].subject
      /\ works[w].parent = o
  BY DEF Judges, Turns
<1>3. a # None /\ audits'[a] = v /\ \A b \in AuditID \ {a} : audits'[b] = audits[b]
  <2> HIDE DEF v
  <2> QED
    BY <1>2, StoreAssumption DEF StoreInv, LedgerInv, TypeOK
<1>4. ASSUME works'[o].state = "accepted"
      PROVE  /\ v.verdict = "pass" /\ v.submission = works'[o].latestSubmission
             /\ works'[v.work].parent = o
  BY <1>1, <1>2, <1>4 DEF Outcome
<1>5. ASSUME NEW x \in WorkID, works[x].state = "accepted"
      PROVE  /\ works[x].latestAudit \in AuditID \ {a}
             /\ audits[works[x].latestAudit].work \in WorkID
  <2>1. works[x].latestAudit \in AuditID /\ audits[works[x].latestAudit].work # None
    BY <1>5 DEF StoreInv, LedgerInv, TypeOK, Work, AcceptedEarned, Minted, VerdictMinted
  <2> QED
    BY <1>2, <2>1 DEF StoreInv, LedgerInv, TypeOK, Audit
<1> HIDE DEF v
<1>6. ASSUME NEW x \in WorkID, works'[x].state = "accepted"
      PROVE  (LET b == works[x].latestAudit IN
              /\ b # None /\ audits[b].verdict = "pass"
              /\ audits[b].submission = works[x].latestSubmission
              /\ works[audits[b].work].parent = x)'
  <2>1. CASE x = o
    BY <1>2, <1>3, <1>4, <1>6, <2>1
  <2>2. CASE x # o
    BY <1>1, <1>3, <1>5, <1>6, <2>2 DEF StoreInv, AcceptedEarned
  <2> QED
    BY <2>1, <2>2
<1> QED
  BY <1>6 DEF AcceptedEarned

LEMMA SubmitsVerdict ==
  ASSUME StoreInv, NEW actor \in Actor, NEW w \in WorkID, NEW o \in WorkID,
         NEW sub \in SubmissionID, Submits(actor, w, o, sub)
  PROVE OwnVerdict'
<1>1. \A c \in WorkID : works'[c].assignee = works[c].assignee /\ works'[c].subject = works[c].subject
  BY DEF Submits, Moves, Turns, Continues, Others
<1> QED
  BY <1>1, OwnVerdictKept DEF Submits

LEMMA AuditEndsVerdict ==
  ASSUME StoreInv, NEW w \in WorkID, NEW o \in WorkID, AuditEnds(w, o)
  PROVE OwnVerdict'
<1>1. \A c \in WorkID : works'[c].assignee = works[c].assignee /\ works'[c].subject = works[c].subject
  BY DEF AuditEnds, Moves, Turns, Continues, Others
<1> QED
  BY <1>1, OwnVerdictKept DEF AuditEnds

LEMMA AssignedVerdict ==
  ASSUME StoreInv, NEW kind \in Holding, NEW assignee \in Actor, NEW scope \in SUBSET StepID,
         NEW w \in WorkID, Assigned(w, kind, assignee, scope)
  PROVE OwnVerdict'
<1>1. works[w].kind # "audit"
  BY DEF Assigned, Begins, Issued, StoreInv, LedgerInv, Kin
<1>2. \A c \in WorkID : works[c].kind = "audit" => works'[c] = works[c]
  BY <1>1 DEF Assigned, Others
<1> QED
  BY <1>2, OwnVerdictKept DEF Assigned

\* The agent of a new audit is not that of the work it is to check.
LEMMA AuditBeginsIndependent ==
  ASSUME StoreInv, NEW w \in WorkID, NEW c \in WorkID, NEW auditor \in Actor, AuditBegins(w, c,
         auditor)
  PROVE NotTheImplementer'
<1>1. /\ auditor # works[w].assignee /\ w # c
      /\ works'[c].assignee = auditor /\ works'[c].parent = w
      /\ works'[w].assignee = works[w].assignee
  BY DEF AuditBegins, Begins, Moves, Turns, Continues, Independent
<1>2. \A d \in WorkID : d # c => /\ works'[d].kind = works[d].kind /\ works'[d].parent = works[d].parent
                                 /\ works'[d].assignee = works[d].assignee
  BY DEF AuditBegins, Moves, Turns, Continues, Others
<1>3. works[c].kind = "none"
  BY DEF AuditBegins, Begins, Issued, StoreInv, LedgerInv, Kin
<1>4. \A d \in WorkID : works[d].kind = "audit" =>
        /\ works[d].parent \in WorkID /\ works[d].parent # c
        /\ works[d].assignee # works[works[d].parent].assignee
  BY <1>3 DEF StoreInv, LedgerInv, Kin, AuditorsApart, NotTheImplementer
<1> QED
  BY <1>1, <1>2, <1>4 DEF NotTheImplementer

\* Nor did it contribute to what it is to check.
LEMMA AuditBeginsApart ==
  ASSUME StoreInv, NEW w \in WorkID, NEW c \in WorkID, NEW auditor \in Actor, AuditBegins(w, c,
         auditor)
  PROVE NotAContributor'
<1>1. \A d \in WorkID : works'[d].subject =
        IF d = c THEN works[w].latestSubmission ELSE works[d].subject
  BY DEF AuditBegins, Begins, Moves, Turns, Continues, Others
<1>2. \A d \in WorkID : works'[d].assignee = IF d = c THEN auditor ELSE works[d].assignee
  BY DEF AuditBegins, Begins, Moves, Turns, Continues, Others
<1>3. ~Contributor(auditor, works[w].latestSubmission)
  BY DEF AuditBegins, Independent
<1>4. \A d \in WorkID : d # c /\ works'[d].kind = "audit" => ~Contributor(works[d].assignee,
works[d].subject)
  BY DEF StoreInv, AuditorsApart, NotAContributor, AuditBegins, Moves, Turns, Continues, Others
<1>5. submissions' = submissions
  BY DEF AuditBegins
<1>6. ASSUME NEW d \in WorkID, works'[d].kind = "audit"
      PROVE  ~Contributor(works'[d].assignee, works'[d].subject)
  <2>1. CASE d = c
    BY <1>1, <1>2, <1>3, <2>1
  <2>2. CASE d # c
    BY <1>1, <1>2, <1>4, <1>6, <2>2
  <2> QED
    BY <2>1, <2>2
<1>7. \A actor, sub : Contributor(actor, sub)' <=> Contributor(actor, sub)
  BY <1>5, ContributorKept
<1>8. ASSUME NEW d \in WorkID, works'[d].kind = "audit"
      PROVE  ~Contributor(works[d].assignee, works[d].subject)'
  <2>1. PICK actor, sub : actor = works'[d].assignee /\ sub = works'[d].subject
    OBVIOUS
  <2>2. Contributor(works[d].assignee, works[d].subject)' <=> Contributor(actor, sub)'
    BY <2>1
  <2> QED
    BY <1>6, <1>7, <1>8, <2>1, <2>2
<1> QED
  BY <1>8 DEF NotAContributor

----------------------------------------------------------------------------
(* Every step has one of the effects. *)

\* One of them.
Effect ==
  \/ \E edit, cancel \in SUBSET StepID : Planned(edit, cancel)
  \/ \E w \in WorkID :
       \/ \E kind \in Holding, assignee \in Actor, scope \in SUBSET StepID :
            Assigned(w, kind, assignee, scope)
       \/ \E steps \in SUBSET StepID : Worked(w, steps)
       \/ Delivers(w)
       \/ \E actor \in Actor, o \in WorkID, sub \in SubmissionID : Submits(actor, w, o, sub)
       \/ \E c \in WorkID, auditor \in Actor : AuditBegins(w, c, auditor)
       \/ \E o \in WorkID, a \in AuditID, verdict \in {"pass", "fail"}, affected \in SUBSET StepID :
            Judges(w, o, a, verdict, affected)
       \/ \E r \in WorkID, assignee \in Actor, scope \in SUBSET StepID :
            RepairBegins(w, r, assignee, scope)
       \/ CycleEnds(w)
       \/ \E o \in WorkID : AuditEnds(w, o)
       \/ HoldingEnds(w)

\* A cancellation ends a cycle, an audit or what holds its steps.
LEMMA CancelEffect ==
  ASSUME LedgerInv, OneRepair, NEW actor \in Actor, NEW w \in WorkID, Cancel(actor, w)
  PROVE  Effect
<1>1. Live(w) /\ UNCHANGED <<submissions, audits>>
  BY DEF Cancel
<1>2. CASE works[w].kind = "implementation" /\ CancelImplementation(w)
  BY <1>1, <1>2, CycleEndsEffect DEF Effect
<1>3. CASE works[w].kind = "repair" /\ CancelImplementation(works[w].parent)
  <2>1. PICK o \in WorkID : o = works[w].parent /\ works[o].kind = "implementation"
    BY <1>3 DEF LedgerInv, Kin
  <2>2. Live(o)
    BY <1>1, <1>3, <2>1 DEF OneRepair, LiveRepair, Live, Issued, Terminal
  <2>3. CycleEnds(o)
    BY <1>1, <1>3, <2>1, <2>2, CycleEndsEffect
  <2> QED
    BY <2>3 DEF Effect
<1>4. CASE works[w].kind \in {"investigation", "experiment"} /\ CancelHolding(w)
  BY <1>1, <1>4, HoldingEndsEffect DEF Effect
<1>5. CASE works[w].kind = "audit" /\ CancelAudit(w)
  <2>1. \E o \in WorkID : AuditEnds(w, o)
    BY <1>1, <1>5, AuditEndsEffect DEF LiveAudit
  <2> QED
    BY <2>1 DEF Effect
<1> QED
  BY <1>2, <1>3, <1>4, <1>5 DEF Cancel

\* Assignments.
LEMMA AssigningEffect ==
  ASSUME LedgerInv, Assigning
  PROVE  Effect
<1>1. PICK actor \in Manager, assignee \in Actor :
        \/ \E scope \in SUBSET StepID, kind \in Holding : Assign(kind, actor, assignee, scope)
        \/ \E w \in WorkID : \/ AssignAudit(actor, w, assignee)
                             \/ AssignRepair(actor, w, assignee)
  BY DEF Assigning, AssignWork, AssignInvestigation, AssignExperiment, Holding
<1>2. CASE \E scope \in SUBSET StepID, kind \in Holding : Assign(kind, actor, assignee, scope)
  BY <1>2, AssignEffect DEF Effect
<1>3. ASSUME NEW w \in WorkID, AssignAudit(actor, w, assignee) PROVE Effect
  BY <1>3, AuditEffect DEF Effect
<1>4. ASSUME NEW w \in WorkID, AssignRepair(actor, w, assignee) PROVE Effect
  BY <1>4, RepairEffect DEF Effect
<1> QED
  BY <1>1, <1>2, <1>3, <1>4

\* What an agent calls about its work.
LEMMA WorkingEffect ==
  ASSUME LedgerInv, OneRepair, Working
  PROVE  Effect
<1>1. PICK actor \in Actor, w \in WorkID :
        \/ \E blocked \in BOOLEAN, steps \in SUBSET StepID :
             \E status \in [steps -> ReportedStatus] :
               ReportWorkProgress(actor, w, blocked, steps, status)
        \/ RecordHypothesis(actor, w) \/ RecordResult(actor, w)
        \/ SubmitBrief(actor, w) \/ SubmitExperiment(actor, w)
        \/ SubmitWork(actor, w)
        \/ \E verdict \in {"pass", "fail"}, affected \in SUBSET StepID :
             SubmitAudit(actor, w, verdict, affected)
        \/ Cancel(actor, w)
  BY DEF Working
<1>2. ASSUME NEW blocked \in BOOLEAN, NEW steps \in SUBSET StepID,
             NEW status \in [steps -> ReportedStatus],
             ReportWorkProgress(actor, w, blocked, steps, status)
      PROVE  Effect
  BY <1>2, ReportEffect DEF Effect
<1>3. CASE RecordHypothesis(actor, w) \/ RecordResult(actor, w)
  BY <1>3, HypothesisEffect DEF Effect
<1>4. CASE SubmitBrief(actor, w) \/ SubmitExperiment(actor, w)
  BY <1>4, DeliverEffect DEF Effect
<1>5. CASE SubmitWork(actor, w)
  BY <1>5, SubmitEffect DEF Effect
<1>6. ASSUME NEW verdict \in {"pass", "fail"}, NEW affected \in SUBSET StepID,
             SubmitAudit(actor, w, verdict, affected)
      PROVE  Effect
  BY <1>6, JudgeEffect DEF Effect
<1>7. CASE Cancel(actor, w)
  BY <1>7, CancelEffect
<1> QED
  BY <1>1, <1>2, <1>3, <1>4, <1>5, <1>6, <1>7

\* A step that changes nothing has the effect of a plan edited in nothing.
LEMMA EveryEffect ==
  ASSUME StoreInv, [Next]_vars
  PROVE  Effect
<1>1. CASE Next
  BY <1>1, PlanningEffect, AssigningEffect, WorkingEffect DEF Next, StoreInv, Effect
<1>2. CASE UNCHANGED vars
  <2>1. Planned({}, {})
    BY <1>2 DEF vars, Planned
  <2> QED
    BY <2>1 DEF Effect
<1> QED
  BY <1>1, <1>2

----------------------------------------------------------------------------
(* Each effect keeps the invariant. *)

\* A plan is edited: no work changes, and the steps edited or cancelled are not held.
LEMMA PlannedKeeps ==
  ASSUME StoreInv,
         NEW edit \in SUBSET StepID, NEW cancel \in SUBSET StepID, Planned(edit, cancel)
  PROVE  LedgerInv' => StoreInv'
<1>1. OneRepair'
  BY DEF Planned, StoreInv, Live, Issued, OneRepair, LiveRepair
<1>2. CycleRecord'
  BY DEF Planned, StoreInv, Live, Issued, CycleRecord, LiveRepair, LiveAudit
<1>3. ActiveWhileLive'
  BY DEF Planned, StoreInv, Live, Issued, ActiveWhileLive
<1>4. ScopeWithin'
  BY DEF Planned, StoreInv, ScopeWithin
<1>5. LatestMinted'
  BY DEF Planned, StoreInv, Minted, LatestMinted
<1>6. SubjectMinted'
  BY DEF Planned, StoreInv, Minted, SubjectMinted
<1>7. VerdictMinted'
  BY DEF Planned, StoreInv, Minted, VerdictMinted
<1>8. SupersededMinted'
  BY DEF Planned, StoreInv, Minted, SupersededMinted
<1>9. VerdictOfAudit'
  BY DEF Planned, StoreInv, Minted, VerdictOfAudit
<1>10. HeldOpen'
  BY DEF Planned, StoreInv, HeldOpen
<1>11. CompletedEarned'
  BY DEF Planned, StoreInv, CompletedEarned
<1>12. UnderReviewFrozen'
  BY StoreAssumption DEF Planned, StoreInv, LedgerInv, Live, Issued, Terminal,
        UnderReviewFrozen, CompletedEarned, ReservationExact, CycleRecord, Holding, TypeOK,
        Work
<1>13. AcceptedEarned'
  BY DEF Planned, StoreInv, AcceptedEarned
<1>14. NotTheImplementer'
  BY DEF Planned, StoreInv, AuditorsApart, NotTheImplementer
<1>15. NotAContributor'
  BY AuditorsContinue DEF Planned, AuditContinues, StoreInv
<1>16. AuditsOnce'
  BY DEF Planned, StoreInv, AuditorsApart, AuditsOnce
<1>17. OwnVerdict'
  BY DEF Planned, StoreInv, AuditorsApart, OwnVerdict
<1> QED
  BY <1>1, <1>2, <1>3, <1>4, <1>5, <1>6, <1>7, <1>8, <1>9, <1>10, <1>11, <1>12, <1>13,
        <1>14, <1>15, <1>16, <1>17 DEF StoreInv, Minted, AuditorsApart

\* Work that holds its steps begins.
LEMMA AssignedKeeps ==
  ASSUME StoreInv,
         NEW kind \in Holding, NEW assignee \in Actor, NEW scope \in SUBSET StepID,
         NEW w \in WorkID, Assigned(w, kind, assignee, scope)
  PROVE  LedgerInv' => StoreInv'
<1>1. OneRepair'
  BY DEF Assigned, Begins, Others, StoreInv, LedgerInv, Live, Issued, OneRepair,
        LiveRepair, Kin, Holding
<1>2. CycleRecord'
  BY AssignedCycle
<1>3. ActiveWhileLive'
  BY DEF Assigned, Begins, Others, StoreInv, Live, Issued, ActiveWhileLive
<1>4. ScopeWithin'
  BY DEF Assigned, Begins, Others, StoreInv, LedgerInv, Issued, ScopeWithin, Kin, Holding
<1>5. LatestMinted'
  BY DEF Assigned, Begins, Others, StoreInv, Minted, LatestMinted
<1>6. SubjectMinted'
  BY DEF Assigned, Begins, Others, StoreInv, Minted, SubjectMinted, Holding
<1>7. VerdictMinted'
  BY DEF Assigned, Begins, Others, StoreInv, Minted, VerdictMinted
<1>8. SupersededMinted'
  BY DEF Assigned, Begins, StoreInv, Minted, SupersededMinted
<1>9. VerdictOfAudit'
  BY DEF Assigned, Begins, Others, StoreInv, LedgerInv, Issued, Minted, VerdictOfAudit,
        Kin, TypeOK, Audit
<1>10. HeldOpen'
  BY DEF Assigned, Begins, StoreInv, HeldOpen, Reserve, Assignable
<1>11. CompletedEarned'
  BY StoreAssumption DEF Assigned, Begins, Others, StoreInv, Issued, CompletedEarned,
        Holding
<1>12. UnderReviewFrozen'
  BY DEF Assigned, Begins, Others, StoreInv, Issued, UnderReviewFrozen
<1>13. AcceptedEarned'
  BY DEF Assigned, Begins, Others, StoreInv, LedgerInv, Issued, AcceptedEarned, Minted,
        VerdictMinted, Kin, TypeOK, Work, Audit
<1>14. NotTheImplementer'
  BY DEF Assigned, Begins, Others, StoreInv, LedgerInv, Issued, AuditorsApart,
        NotTheImplementer, Kin, Holding
<1>15. NotAContributor'
  BY AuditorsContinue DEF Assigned, Begins, Others, StoreInv, LedgerInv, Kin, Issued,
        Holding, AuditContinues
<1>16. AuditsOnce'
  BY DEF Assigned, Begins, Others, StoreInv, AuditorsApart, AuditsOnce, Holding
<1>17. OwnVerdict'
  BY AssignedVerdict
<1> QED
  BY <1>1, <1>2, <1>3, <1>4, <1>5, <1>6, <1>7, <1>8, <1>9, <1>10, <1>11, <1>12, <1>13,
        <1>14, <1>15, <1>16, <1>17 DEF StoreInv, Minted, AuditorsApart

\* Work is reported on, or a hypothesis or a result recorded.
LEMMA WorkedKeeps ==
  ASSUME StoreInv,
         NEW w \in WorkID, NEW steps \in SUBSET StepID, Worked(w, steps)
  PROVE  LedgerInv' => StoreInv'
<1>1. OneRepair'
  BY DEF Worked, Moves, Turns, Continues, Others, StoreInv, LedgerInv, Live, Issued,
        OneRepair, LiveRepair, Kin
<1>2. CycleRecord'
  BY DEF Worked, Moves, Turns, Continues, Others, StoreInv, LedgerInv, Live, Issued,
        CycleRecord, OneRepair, LiveRepair, LiveAudit, TypeOK, Work
<1>3. ActiveWhileLive'
  BY DEF Worked, Moves, Turns, Others, StoreInv, Live, Issued, ActiveWhileLive
<1>4. ScopeWithin'
  BY DEF Worked, Moves, Turns, Continues, Others, StoreInv, LedgerInv, ScopeWithin, Kin
<1>5. LatestMinted'
  BY DEF Worked, Moves, Turns, Others, StoreInv, Minted, LatestMinted
<1>6. SubjectMinted'
  BY DEF Worked, Moves, Turns, Continues, Others, StoreInv, Minted, SubjectMinted
<1>7. VerdictMinted'
  BY DEF Worked, Moves, Turns, Others, StoreInv, Minted, VerdictMinted
<1>8. SupersededMinted'
  BY DEF Worked, Moves, Turns, StoreInv, Minted, SupersededMinted
<1>9. VerdictOfAudit'
  BY DEF Worked, Moves, Turns, Continues, Others, StoreInv, LedgerInv, Minted,
        VerdictOfAudit, TypeOK, Audit
<1>10. HeldOpen'
  BY DEF Worked, Moves, Turns, StoreInv, HeldOpen, ReportableStatus
<1>11. CompletedEarned'
  BY StoreAssumption DEF Worked, Moves, Turns, Others, StoreInv, LedgerInv, Live, Issued,
        Terminal, CompletedEarned, HeldOpen, ReservationExact, ScopeWithin, OneRepair,
        LiveRepair, Kin, Reserve, Release, Held, WithStatus, Assignable, Reportable,
        Holding, ReportableStatus, Children, Outcome
<1>12. UnderReviewFrozen'
  BY DEF Worked, Moves, Turns, Continues, Others, StoreInv, LedgerInv, Live, Issued,
        Terminal, UnderReviewFrozen, ReservationExact, ScopeWithin, OneRepair, LiveRepair,
        Kin, Reportable, Holding, TypeOK, Work
<1>13. AcceptedEarned'
  BY AcceptedKept DEF Worked, Moves, Turns, Continues, Others, StoreInv, LedgerInv, Kin
<1>14. NotTheImplementer'
  BY DEF Worked, Moves, Turns, Continues, Others, StoreInv, LedgerInv, AuditorsApart,
        NotTheImplementer, Kin
<1>15. NotAContributor'
  BY AuditorsContinue DEF Worked, Moves, Turns, Continues, Others, AuditContinues, StoreInv
<1>16. AuditsOnce'
  BY DEF Worked, Moves, Turns, Continues, Others, StoreInv, AuditorsApart, AuditsOnce
<1>17. OwnVerdict'
  BY DEF Worked, Moves, Turns, Continues, Others, StoreInv, LedgerInv, AuditorsApart,
        OwnVerdict, Kin, TypeOK, Audit
<1> QED
  BY <1>1, <1>2, <1>3, <1>4, <1>5, <1>6, <1>7, <1>8, <1>9, <1>10, <1>11, <1>12, <1>13,
        <1>14, <1>15, <1>16, <1>17 DEF StoreInv, Minted, AuditorsApart

\* An investigation or an experiment is delivered.
LEMMA DeliversKeeps ==
  ASSUME StoreInv,
         NEW w \in WorkID, Delivers(w)
  PROVE  LedgerInv' => StoreInv'
<1>1. OneRepair'
  BY StoreAssumption DEF Delivers, Moves, Turns, Continues, Others, StoreInv, LedgerInv,
        Live, Issued, Terminal, OneRepair, LiveRepair, Kin, Children, Outcome, Holding
<1>2. CycleRecord'
  BY DEF Delivers, Moves, Turns, Continues, Others, StoreInv, LedgerInv, Live, Issued,
        CycleRecord, LiveRepair, LiveAudit, TypeOK, Work
<1>3. ActiveWhileLive'
  BY DEF Delivers, Moves, Turns, Others, StoreInv, Live, Issued, Terminal, ActiveWhileLive
<1>4. ScopeWithin'
  BY DEF Delivers, Moves, Turns, Continues, Others, StoreInv, LedgerInv, ScopeWithin, Kin
<1>5. LatestMinted'
  BY DEF Delivers, Moves, Turns, Others, StoreInv, Minted, LatestMinted
<1>6. SubjectMinted'
  BY DEF Delivers, Moves, Turns, Continues, Others, StoreInv, Minted, SubjectMinted
<1>7. VerdictMinted'
  BY DEF Delivers, Moves, Turns, Others, StoreInv, Minted, VerdictMinted
<1>8. SupersededMinted'
  BY DEF Delivers, Moves, Turns, StoreInv, Minted, SupersededMinted
<1>9. VerdictOfAudit'
  BY DEF Delivers, Moves, Turns, Others, StoreInv, LedgerInv, Minted, VerdictOfAudit,
        TypeOK, Audit
<1>10. HeldOpen'
  BY DEF Delivers, Moves, Turns, StoreInv, HeldOpen, Release, WithStatus
<1>11. CompletedEarned'
  BY DEF Delivers, Moves, Turns, Continues, Others, StoreInv, LedgerInv, Live, Issued,
        Terminal, CompletedEarned, ReservationExact, Release, Held, WithStatus
<1>12. UnderReviewFrozen'
  BY DEF Delivers, Moves, Turns, Continues, Others, StoreInv, LedgerInv, Live, Issued,
        Terminal, UnderReviewFrozen, ReservationExact, Held, WithStatus, Holding, TypeOK,
        Work
<1>13. AcceptedEarned'
  BY AcceptedKept DEF Delivers, Moves, Turns, Continues, Others, StoreInv, LedgerInv, Kin
<1>14. NotTheImplementer'
  BY DEF Delivers, Moves, Turns, Continues, Others, StoreInv, LedgerInv, AuditorsApart,
        NotTheImplementer, Kin
<1>15. NotAContributor'
  BY AuditorsContinue DEF Delivers, Moves, Turns, Continues, Others, AuditContinues,
        StoreInv
<1>16. AuditsOnce'
  BY DEF Delivers, Moves, Turns, Continues, Others, StoreInv, AuditorsApart, AuditsOnce
<1>17. OwnVerdict'
  BY DEF Delivers, Moves, Turns, Continues, Others, StoreInv, LedgerInv, Terminal,
        AuditorsApart, AuditsOnce, OwnVerdict, Minted, SubjectMinted, SupersededMinted,
        Kin, Children, Independent, Holding, TypeOK, Audit
<1> QED
  BY <1>1, <1>2, <1>3, <1>4, <1>5, <1>6, <1>7, <1>8, <1>9, <1>10, <1>11, <1>12, <1>13,
        <1>14, <1>15, <1>16, <1>17 DEF StoreInv, Minted, AuditorsApart

\* An implementation is submitted, by itself or by its repair.
LEMMA SubmitsKeeps ==
  ASSUME StoreInv,
         NEW actor \in Actor, NEW w \in WorkID, NEW o \in WorkID, NEW sub \in SubmissionID,
         Submits(actor, w, o, sub)
  PROVE  LedgerInv' => StoreInv'
<1>1. OneRepair'
  BY DEF Submits, Moves, Turns, Continues, Others, StoreInv, LedgerInv, Live, Issued,
        Terminal, OneRepair, LiveRepair, Kin, CycleRecord, LiveAudit, Children, Outcome,
        Holding
<1>2. CycleRecord'
  BY SubmitsCycle
<1>3. ActiveWhileLive'
  BY DEF Submits, Moves, Turns, Continues, Others, StoreInv, Live, Issued, Terminal,
        ActiveWhileLive
<1>4. ScopeWithin'
  BY DEF Submits, Moves, Turns, Continues, Others, StoreInv, LedgerInv, ScopeWithin, Kin
<1>5. LatestMinted'
  BY StoreAssumption DEF Submits, Moves, Turns, Others, StoreInv, LedgerInv, Minted,
        LatestMinted, TypeOK
<1>6. SubjectMinted'
  BY DEF Submits, Moves, Turns, Continues, Others, StoreInv, Minted, SubjectMinted
<1>7. VerdictMinted'
  BY DEF Submits, Moves, Turns, Others, StoreInv, Minted, SubjectMinted, VerdictMinted
<1>8. SupersededMinted'
  BY DEF Submits, Moves, Turns, StoreInv, Minted, LatestMinted, SupersededMinted
<1>9. VerdictOfAudit'
  BY DEF Submits, Moves, Turns, Others, StoreInv, LedgerInv, Minted, VerdictOfAudit,
        TypeOK, Audit
<1>10. HeldOpen'
  BY DEF Submits, Moves, Turns, StoreInv, HeldOpen, WithStatus
<1>11. CompletedEarned'
  BY DEF Submits, Moves, Turns, Others, StoreInv, Live, CompletedEarned, WithStatus
<1>12. UnderReviewFrozen'
  BY DEF Submits, Moves, Turns, Continues, Others, StoreInv, LedgerInv, Issued,
        UnderReviewFrozen, WithStatus, TypeOK, Work
<1>13. AcceptedEarned'
  BY SubmitsEarned
<1>14. NotTheImplementer'
  BY DEF Submits, Moves, Turns, Continues, Others, StoreInv, LedgerInv, AuditorsApart,
        NotTheImplementer, Kin
<1>15. NotAContributor'
  BY SubmitsApart
<1>16. AuditsOnce'
  BY DEF Submits, Moves, Turns, Continues, Others, StoreInv, AuditorsApart, AuditsOnce
<1>17. OwnVerdict'
  BY SubmitsVerdict
<1> QED
  BY <1>1, <1>2, <1>3, <1>4, <1>5, <1>6, <1>7, <1>8, <1>9, <1>10, <1>11, <1>12, <1>13,
        <1>14, <1>15, <1>16, <1>17 DEF StoreInv, Minted, AuditorsApart

\* An audit begins.
LEMMA AuditBeginsKeeps ==
  ASSUME StoreInv,
         NEW w \in WorkID, NEW c \in WorkID, NEW auditor \in Actor, AuditBegins(w, c, auditor)
  PROVE  LedgerInv' => StoreInv'
<1>1. OneRepair'
  BY DEF AuditBegins, Begins, Moves, Turns, Continues, Others, StoreInv, LedgerInv, Live,
        Issued, OneRepair, LiveRepair, Kin, Children, Outcome, Holding
<1>2. CycleRecord'
  BY DEF AuditBegins, Begins, Moves, Turns, Continues, Others, StoreInv, LedgerInv, Live,
        Issued, Terminal, CycleRecord, LiveRepair, LiveAudit, Outcome, TypeOK, Work
<1>3. ActiveWhileLive'
  BY DEF AuditBegins, Begins, Moves, Turns, Continues, Others, StoreInv, Live, Issued,
        ActiveWhileLive
<1>4. ScopeWithin'
  BY DEF AuditBegins, Begins, Moves, Turns, Continues, Others, StoreInv, LedgerInv, Issued,
        ScopeWithin, Kin
<1>5. LatestMinted'
  BY DEF AuditBegins, Begins, Moves, Turns, Others, StoreInv, Minted, LatestMinted
<1>6. SubjectMinted'
  BY DEF AuditBegins, Begins, Moves, Turns, Continues, Others, StoreInv, Minted,
        LatestMinted, SubjectMinted
<1>7. VerdictMinted'
  BY DEF AuditBegins, Begins, Moves, Turns, Others, StoreInv, Minted, VerdictMinted
<1>8. SupersededMinted'
  BY DEF AuditBegins, Begins, Moves, Turns, StoreInv, Minted, SupersededMinted
<1>9. VerdictOfAudit'
  BY DEF AuditBegins, Begins, Moves, Turns, Others, StoreInv, LedgerInv, Minted,
        VerdictOfAudit, TypeOK, Audit
<1>10. HeldOpen'
  BY DEF AuditBegins, Begins, Moves, Turns, StoreInv, HeldOpen
<1>11. CompletedEarned'
  BY DEF AuditBegins, Begins, Moves, Turns, Others, StoreInv, Live, Issued, Terminal,
        CompletedEarned, ReservationExact, OneRepair, LiveRepair
<1>12. UnderReviewFrozen'
  BY DEF AuditBegins, Begins, Moves, Turns, Continues, Others, StoreInv, Issued,
        UnderReviewFrozen
<1>13. AcceptedEarned'
  BY StoreAssumption DEF AuditBegins, Begins, Moves, Turns, Continues, Others, StoreInv,
        LedgerInv, Issued, AcceptedEarned, Minted, VerdictMinted, Kin, TypeOK, Work, Audit
<1>14. NotTheImplementer'
  BY AuditBeginsIndependent
<1>15. NotAContributor'
  BY AuditBeginsApart
<1>16. AuditsOnce'
  BY DEF AuditBegins, Begins, Moves, Turns, Continues, Others, StoreInv, AuditorsApart,
        AuditsOnce, Independent, HeldWork
<1>17. OwnVerdict'
  BY StoreAssumption DEF AuditBegins, Begins, Moves, Turns, Continues, Others, StoreInv,
        LedgerInv, Issued, AuditorsApart, NotTheImplementer, OwnVerdict, Minted,
        LatestMinted, SubjectMinted, SupersededMinted, VerdictOfAudit, Kin, TypeOK, Audit
<1> QED
  BY <1>1, <1>2, <1>3, <1>4, <1>5, <1>6, <1>7, <1>8, <1>9, <1>10, <1>11, <1>12, <1>13,
        <1>14, <1>15, <1>16, <1>17 DEF StoreInv, Minted, AuditorsApart

\* An audit ends with its verdict.
LEMMA JudgesKeeps ==
  ASSUME StoreInv,
         NEW w \in WorkID, NEW o \in WorkID, NEW a \in AuditID, NEW verdict \in {"pass",
         "fail"}, NEW affected \in SUBSET StepID, Judges(w, o, a, verdict, affected)
  PROVE  LedgerInv' => StoreInv'
<1>1. OneRepair'
  BY DEF Judges, Moves, Turns, Continues, Others, StoreInv, LedgerInv, Live, Issued,
        OneRepair, LiveRepair, Kin
<1>2. CycleRecord'
  BY DEF Judges, Moves, Turns, Continues, Others, Outcome, StoreInv, LedgerInv, Live,
        Issued, CycleRecord, LiveRepair, LiveAudit, TypeOK, Work
<1>3. ActiveWhileLive'
  BY DEF Judges, Moves, Turns, Continues, Others, StoreInv, Live, Issued, Terminal,
        ActiveWhileLive
<1>4. ScopeWithin'
  BY DEF Judges, Moves, Turns, Continues, Others, StoreInv, LedgerInv, ScopeWithin, Kin
<1>5. LatestMinted'
  BY DEF Judges, Moves, Turns, Others, StoreInv, Minted, LatestMinted
<1>6. SubjectMinted'
  BY StoreAssumption DEF Judges, Moves, Turns, Continues, Others, StoreInv, Minted,
        SubjectMinted
<1>7. VerdictMinted'
  BY StoreAssumption DEF Judges, Moves, Turns, Others, StoreInv, LedgerInv, Minted,
        VerdictMinted, Kin, TypeOK
<1>8. SupersededMinted'
  BY DEF Judges, Moves, Turns, StoreInv, Minted, SupersededMinted
<1>9. VerdictOfAudit'
  BY DEF Judges, Moves, Turns, Continues, Others, StoreInv, LedgerInv, Minted,
        VerdictOfAudit, TypeOK, Audit
<1>10. HeldOpen'
  BY DEF Judges, Moves, Turns, StoreInv, HeldOpen, Release, WithStatus
<1>11. CompletedEarned'
  BY StoreAssumption DEF Judges, Moves, Turns, Continues, Others, Outcome, StoreInv,
        LedgerInv, Live, Issued, Terminal, CompletedEarned, HeldOpen, ReservationExact,
        ScopeWithin, LiveRepair, Release, WithStatus, Holding
<1>12. UnderReviewFrozen'
  BY DEF Judges, Moves, Turns, Continues, Others, Outcome, StoreInv, LedgerInv, Live,
        Issued, Terminal, UnderReviewFrozen, ReservationExact, WithStatus, Holding, TypeOK,
        Work
<1>13. AcceptedEarned'
  BY JudgesEarned
<1>14. NotTheImplementer'
  BY StoreAssumption DEF Judges, Moves, Turns, Continues, Others, StoreInv, LedgerInv,
        AuditorsApart, NotTheImplementer, SubjectMinted, VerdictOfAudit, Kin
<1>15. NotAContributor'
  BY AuditorsContinue DEF Judges, Moves, Turns, Continues, Others, AuditContinues, StoreInv
<1>16. AuditsOnce'
  BY StoreAssumption DEF Judges, Moves, Turns, Continues, Others, StoreInv, AuditorsApart,
        AuditsOnce, LatestMinted
<1>17. OwnVerdict'
  BY DEF Judges, Moves, Turns, Continues, Others, StoreInv, LedgerInv, AuditorsApart,
        OwnVerdict, TypeOK, Audit
<1> QED
  BY <1>1, <1>2, <1>3, <1>4, <1>5, <1>6, <1>7, <1>8, <1>9, <1>10, <1>11, <1>12, <1>13,
        <1>14, <1>15, <1>16, <1>17 DEF StoreInv, Minted, AuditorsApart

\* A repair begins.
LEMMA RepairBeginsKeeps ==
  ASSUME StoreInv,
         NEW w \in WorkID, NEW r \in WorkID, NEW assignee \in Actor,
         NEW scope \in SUBSET StepID, RepairBegins(w, r, assignee, scope)
  PROVE  LedgerInv' => StoreInv'
<1>1. OneRepair'
  BY StoreAssumption DEF RepairBegins, Begins, Turns, Continues, Others, StoreInv,
        LedgerInv, Live, Issued, OneRepair, LiveRepair, Kin
<1>2. CycleRecord'
  BY DEF RepairBegins, Begins, Turns, Others, StoreInv, LedgerInv, Live, Issued, Terminal,
        CycleRecord, LiveRepair, LiveAudit, TypeOK, Work
<1>3. ActiveWhileLive'
  BY DEF RepairBegins, Begins, Turns, Continues, Others, StoreInv, Live, Issued,
        ActiveWhileLive
<1>4. ScopeWithin'
  BY DEF RepairBegins, Begins, Turns, Continues, Others, StoreInv, LedgerInv, Issued,
        ScopeWithin, Kin
<1>5. LatestMinted'
  BY DEF RepairBegins, Begins, Turns, Others, StoreInv, Minted, LatestMinted
<1>6. SubjectMinted'
  BY DEF RepairBegins, Begins, Turns, Continues, Others, StoreInv, Minted, SubjectMinted
<1>7. VerdictMinted'
  BY DEF RepairBegins, Begins, Turns, Others, StoreInv, Minted, VerdictMinted
<1>8. SupersededMinted'
  BY DEF RepairBegins, Begins, Turns, StoreInv, Minted, SupersededMinted
<1>9. VerdictOfAudit'
  BY DEF RepairBegins, Begins, Turns, Others, StoreInv, LedgerInv, Issued, Minted,
        VerdictOfAudit, Kin, TypeOK, Audit
<1>10. HeldOpen'
  BY DEF RepairBegins, Begins, Turns, StoreInv, HeldOpen
<1>11. CompletedEarned'
  BY DEF RepairBegins, Begins, Turns, Others, StoreInv, Issued, CompletedEarned, HeldOpen,
        Kin, Reportable
<1>12. UnderReviewFrozen'
  BY DEF RepairBegins, Begins, Turns, Continues, Others, StoreInv, Issued, UnderReviewFrozen
<1>13. AcceptedEarned'
  BY AcceptedKept DEF RepairBegins, Begins, Turns, Continues, Others, Issued, StoreInv,
        LedgerInv, Kin
<1>14. NotTheImplementer'
  BY DEF RepairBegins, Begins, Turns, Continues, Others, StoreInv, LedgerInv, Issued,
        AuditorsApart, NotTheImplementer, Kin
<1>15. NotAContributor'
  BY AuditorsContinue DEF RepairBegins, Begins, Turns, Continues, Others, StoreInv,
        LedgerInv, Kin, Issued, AuditContinues
<1>16. AuditsOnce'
  BY DEF RepairBegins, Begins, Turns, Continues, Others, StoreInv, AuditorsApart, AuditsOnce
<1>17. OwnVerdict'
  BY DEF RepairBegins, Begins, Turns, Others, StoreInv, LedgerInv, Issued, AuditorsApart,
        OwnVerdict, Minted, VerdictOfAudit, Kin, TypeOK, Audit
<1> QED
  BY <1>1, <1>2, <1>3, <1>4, <1>5, <1>6, <1>7, <1>8, <1>9, <1>10, <1>11, <1>12, <1>13,
        <1>14, <1>15, <1>16, <1>17 DEF StoreInv, Minted, AuditorsApart

\* A cycle is cancelled, with the audit or repair in it.
LEMMA CycleEndsKeeps ==
  ASSUME StoreInv,
         NEW w \in WorkID, CycleEnds(w)
  PROVE  LedgerInv' => StoreInv'
<1>1. OneRepair'
  BY DEF CycleEnds, Moves, Turns, Others, Children, StoreInv, LedgerInv, Live, Issued,
        Terminal, OneRepair, LiveRepair, Kin
<1>2. CycleRecord'
  BY DEF CycleEnds, Moves, Turns, Continues, Others, Children, StoreInv, LedgerInv, Live,
        Issued, CycleRecord, LiveRepair, Kin, LiveAudit, TypeOK, Work
<1>3. ActiveWhileLive'
  BY DEF CycleEnds, Moves, Turns, Others, StoreInv, Live, Issued, Terminal, ActiveWhileLive
<1>4. ScopeWithin'
  BY DEF CycleEnds, Moves, Turns, Continues, Others, StoreInv, LedgerInv, ScopeWithin, Kin
<1>5. LatestMinted'
  BY DEF CycleEnds, Moves, Turns, Others, StoreInv, Minted, LatestMinted
<1>6. SubjectMinted'
  BY DEF CycleEnds, Moves, Turns, Continues, Others, StoreInv, Minted, SubjectMinted
<1>7. VerdictMinted'
  BY DEF CycleEnds, Moves, Turns, Others, StoreInv, Minted, VerdictMinted
<1>8. SupersededMinted'
  BY DEF CycleEnds, Moves, Turns, StoreInv, Minted, SupersededMinted
<1>9. VerdictOfAudit'
  BY DEF CycleEnds, Moves, Turns, Continues, Others, StoreInv, LedgerInv, Minted,
        VerdictOfAudit, TypeOK, Audit
<1>10. HeldOpen'
  BY DEF CycleEnds, Moves, Turns, StoreInv, HeldOpen, Release, WithStatus
<1>11. CompletedEarned'
  BY StoreAssumption DEF CycleEnds, Moves, Turns, Continues, Others, Children, StoreInv,
        Live, Issued, Terminal, CompletedEarned, HeldOpen, Reserve, Release, Held,
        WithStatus, Reportable, ReportableStatus, TypeOK, Outcome
<1>12. UnderReviewFrozen'
  BY DEF CycleEnds, Moves, Turns, Others, StoreInv, LedgerInv, Live, Issued, Terminal,
        UnderReviewFrozen, ReservationExact, Held, WithStatus, TypeOK, Work
<1>13. AcceptedEarned'
  BY StoreAssumption DEF CycleEnds, Moves, Turns, Others, Children, StoreInv, LedgerInv,
        Live, Issued, AcceptedEarned, Minted, LatestMinted, VerdictMinted, Kin, Outcome,
        TypeOK, Work, Audit
<1>14. NotTheImplementer'
  BY DEF CycleEnds, Moves, Turns, Continues, Others, StoreInv, LedgerInv, AuditorsApart,
        NotTheImplementer, Kin
<1>15. NotAContributor'
  BY AuditorsContinue DEF CycleEnds, Moves, Turns, Continues, Others, AuditContinues,
        StoreInv
<1>16. AuditsOnce'
  BY DEF CycleEnds, Moves, Turns, Continues, Others, StoreInv, AuditorsApart, AuditsOnce
<1>17. OwnVerdict'
  BY DEF CycleEnds, Moves, Turns, Continues, Others, StoreInv, LedgerInv, AuditorsApart,
        OwnVerdict, TypeOK, Audit
<1> QED
  BY <1>1, <1>2, <1>3, <1>4, <1>5, <1>6, <1>7, <1>8, <1>9, <1>10, <1>11, <1>12, <1>13,
        <1>14, <1>15, <1>16, <1>17 DEF StoreInv, Minted, AuditorsApart

\* An audit is cancelled.
LEMMA AuditEndsKeeps ==
  ASSUME StoreInv,
         NEW w \in WorkID, NEW o \in WorkID, AuditEnds(w, o)
  PROVE  LedgerInv' => StoreInv'
<1>1. OneRepair'
  BY StoreAssumption DEF AuditEnds, Moves, Turns, Continues, Others, LiveAudit, StoreInv,
        LedgerInv, Live, Issued, Terminal, OneRepair, LiveRepair, Kin, OneAudit, Children,
        Outcome, TypeOK, Work
<1>2. CycleRecord'
  BY DEF AuditEnds, Moves, Turns, Continues, Others, LiveAudit, StoreInv, LedgerInv, Live,
        Issued, CycleRecord, LiveRepair, TypeOK, Work
<1>3. ActiveWhileLive'
  BY DEF AuditEnds, Moves, Turns, Continues, Others, StoreInv, Live, Issued, Terminal,
        ActiveWhileLive
<1>4. ScopeWithin'
  BY DEF AuditEnds, Moves, Turns, Continues, Others, StoreInv, LedgerInv, ScopeWithin, Kin
<1>5. LatestMinted'
  BY DEF AuditEnds, Moves, Turns, Others, StoreInv, Minted, LatestMinted
<1>6. SubjectMinted'
  BY DEF AuditEnds, Moves, Turns, Continues, Others, StoreInv, Live, Minted, SubjectMinted
<1>7. VerdictMinted'
  BY DEF AuditEnds, Moves, Turns, Others, StoreInv, Minted, VerdictMinted
<1>8. SupersededMinted'
  BY DEF AuditEnds, Moves, Turns, StoreInv, Minted, SupersededMinted
<1>9. VerdictOfAudit'
  BY DEF AuditEnds, Moves, Turns, Continues, Others, StoreInv, LedgerInv, Issued, Terminal,
        Minted, SupersededMinted, VerdictOfAudit, TypeOK, Audit
<1>10. HeldOpen'
  BY DEF AuditEnds, Moves, Turns, StoreInv, HeldOpen
<1>11. CompletedEarned'
  BY DEF AuditEnds, Moves, Turns, Continues, Others, LiveAudit, StoreInv, Live, Issued,
        Terminal, CompletedEarned, HeldOpen, ReservationExact, ScopeWithin, OneRepair,
        LiveRepair, Kin, Release, Held, Assignable, Reportable, Holding, Children, Outcome
<1>12. UnderReviewFrozen'
  BY DEF AuditEnds, Moves, Turns, Continues, Others, StoreInv, Issued, UnderReviewFrozen
<1>13. AcceptedEarned'
  BY AcceptedKept DEF AuditEnds, Moves, Turns, Continues, Others, LiveAudit, StoreInv,
        LedgerInv, Kin
<1>14. NotTheImplementer'
  BY DEF AuditEnds, Moves, Turns, Continues, Others, StoreInv, LedgerInv, AuditorsApart,
        NotTheImplementer, Kin
<1>15. NotAContributor'
  BY AuditorsContinue DEF AuditEnds, Moves, Turns, Continues, Others, AuditContinues,
        StoreInv
<1>16. AuditsOnce'
  BY DEF AuditEnds, Moves, Turns, Continues, Others, StoreInv, AuditorsApart, AuditsOnce
<1>17. OwnVerdict'
  BY AuditEndsVerdict
<1> QED
  BY <1>1, <1>2, <1>3, <1>4, <1>5, <1>6, <1>7, <1>8, <1>9, <1>10, <1>11, <1>12, <1>13,
        <1>14, <1>15, <1>16, <1>17 DEF StoreInv, Minted, AuditorsApart

\* An investigation or an experiment is cancelled.
LEMMA HoldingEndsKeeps ==
  ASSUME StoreInv,
         NEW w \in WorkID, HoldingEnds(w)
  PROVE  LedgerInv' => StoreInv'
<1>1. OneRepair'
  BY StoreAssumption DEF HoldingEnds, Moves, Turns, Others, StoreInv, LedgerInv, Live,
        Issued, Terminal, OneRepair, LiveRepair, Kin, CycleRecord, OneAudit, LiveAudit,
        Children
<1>2. CycleRecord'
  BY HoldingEndsCycle
<1>3. ActiveWhileLive'
  BY DEF HoldingEnds, Moves, Turns, Others, StoreInv, Live, Issued, Terminal,
        ActiveWhileLive
<1>4. ScopeWithin'
  BY DEF HoldingEnds, Moves, Turns, Continues, Others, StoreInv, LedgerInv, ScopeWithin, Kin
<1>5. LatestMinted'
  BY DEF HoldingEnds, Moves, Turns, Others, StoreInv, Minted, LatestMinted
<1>6. SubjectMinted'
  BY DEF HoldingEnds, Moves, Turns, Continues, Others, StoreInv, Minted, SubjectMinted
<1>7. VerdictMinted'
  BY DEF HoldingEnds, Moves, Turns, Others, StoreInv, Minted, VerdictMinted
<1>8. SupersededMinted'
  BY DEF HoldingEnds, Moves, Turns, StoreInv, Minted, SupersededMinted
<1>9. VerdictOfAudit'
  BY DEF HoldingEnds, Moves, Turns, Others, StoreInv, LedgerInv, Minted, VerdictOfAudit,
        TypeOK, Audit
<1>10. HeldOpen'
  BY DEF HoldingEnds, Moves, Turns, StoreInv, HeldOpen, Release, WithStatus
<1>11. CompletedEarned'
  BY StoreAssumption DEF HoldingEnds, Moves, Turns, Continues, Others, StoreInv, LedgerInv,
        Live, Issued, Terminal, CompletedEarned, HeldOpen, ReservationExact, OneRepair,
        LiveRepair, Kin, Reserve, Release, Held, WithStatus, Assignable, Holding,
        ReportableStatus, TypeOK, Work, Children, Outcome
<1>12. UnderReviewFrozen'
  BY DEF HoldingEnds, Moves, Turns, Others, StoreInv, LedgerInv, Live, Issued, Terminal,
        UnderReviewFrozen, ReservationExact, Held, WithStatus, Holding, TypeOK, Work
<1>13. AcceptedEarned'
  BY AcceptedKept DEF HoldingEnds, Moves, Turns, Continues, Others, StoreInv, LedgerInv, Kin
<1>14. NotTheImplementer'
  BY DEF HoldingEnds, Moves, Turns, Continues, Others, StoreInv, LedgerInv, AuditorsApart,
        NotTheImplementer, Kin
<1>15. NotAContributor'
  BY AuditorsContinue DEF HoldingEnds, Moves, Turns, Continues, Others, AuditContinues,
        StoreInv
<1>16. AuditsOnce'
  BY DEF HoldingEnds, Moves, Turns, Continues, Others, StoreInv, AuditorsApart, AuditsOnce
<1>17. OwnVerdict'
  BY DEF HoldingEnds, Moves, Turns, Continues, Others, StoreInv, LedgerInv, Terminal,
        AuditorsApart, NotTheImplementer, OwnVerdict, Minted, SubjectMinted,
        SupersededMinted, VerdictOfAudit, Kin, Children, Holding, TypeOK, Audit
<1> QED
  BY <1>1, <1>2, <1>3, <1>4, <1>5, <1>6, <1>7, <1>8, <1>9, <1>10, <1>11, <1>12, <1>13,
        <1>14, <1>15, <1>16, <1>17 DEF StoreInv, Minted, AuditorsApart

----------------------------------------------------------------------------
(* What the invariant says of a state. *)

\* The children of an implementation are its live audit or repair,
\* so the records decide them.
LEMMA CycleAgrees == StoreInv => ReviewCycle
<1> SUFFICES ASSUME StoreInv, NEW w \in WorkID, works[w].kind = "implementation"
             PROVE  CycleOf(w)
  BY DEF ReviewCycle
<1>1. \A c \in Children(w) : LiveAudit(c) \/ LiveRepair(c)
  BY StoreAssumption DEF Children, StoreInv, LedgerInv, Kin, LiveAudit, LiveRepair, Kind, TypeOK,
     Work
<1>2. \A c \in Children(w) :
        /\ LiveAudit(c) => works[w].state = "checking"
        /\ LiveRepair(c) => /\ works[w].state = "changes_requested" /\ works[w].activeRepair = c
                            /\ works[c].requestedBy = works[w].latestAudit
  BY DEF Children, StoreInv, LedgerInv, OneAudit, OneRepair
<1>3. ASSUME works[w].state = "checking"
      PROVE  /\ works[w].activeRepair = None
             /\ \E c \in WorkID : /\ Children(w) = {c} /\ works[c].kind = "audit"
                                  /\ works[c].subject = works[w].latestSubmission
  <2>1. PICK c \in WorkID : LiveAudit(c) /\ works[c].parent = w
                            /\ works[c].subject = works[w].latestSubmission
    BY <1>3 DEF StoreInv, CycleRecord
  <2>2. \A d \in Children(w) : d = c
    BY <1>1, <1>2, <1>3, <2>1 DEF Children, StoreInv, LedgerInv, OneAudit
  <2>3. c \in Children(w)
    BY <2>1 DEF Children, LiveAudit
  <2> QED
    BY <1>3, <2>1, <2>2, <2>3 DEF StoreInv, CycleRecord, LiveAudit
<1>4. ASSUME works[w].state = "changes_requested"
      PROVE  IF works[w].activeRepair = None THEN Children(w) = {}
             ELSE /\ Children(w) = {works[w].activeRepair}
                  /\ works[works[w].activeRepair].kind = "repair"
                  /\ works[works[w].activeRepair].requestedBy = works[w].latestAudit
                  /\ works[works[w].activeRepair].scope \subseteq works[w].scope
  <2>1. \A c \in Children(w) : c \in WorkID /\ c = works[w].activeRepair
    BY <1>1, <1>2, <1>4 DEF Children
  <2>2. CASE works[w].activeRepair = None
    BY <2>1, <2>2, StoreAssumption
  <2>3. CASE works[w].activeRepair # None
    <3>1. PICK r \in WorkID : r = works[w].activeRepair
      BY <2>3 DEF StoreInv, LedgerInv, TypeOK, Work
    <3>2. LiveRepair(r) /\ works[r].parent = w
      BY <2>3, <3>1 DEF StoreInv, CycleRecord
    <3>3. r \in Children(w) /\ works[r].kind = "repair"
      BY <3>2 DEF Children, LiveRepair
    <3>4. works[r].scope \subseteq works[w].scope
      BY <3>2, <3>3 DEF StoreInv, ScopeWithin
    <3> QED
      BY <1>2, <2>1, <2>3, <3>1, <3>2, <3>3, <3>4
  <2> QED
    BY <2>2, <2>3
<1>5. ASSUME works[w].state \notin {"checking", "changes_requested"}
      PROVE  Children(w) = {} /\ works[w].activeRepair = None
  BY <1>1, <1>2, <1>5 DEF StoreInv, CycleRecord
<1> QED
  BY <1>3, <1>4, <1>5 DEF CycleOf

\* A verdict is that of its audit, whose agent is independent.
LEMMA VerdictsApart == StoreInv => IndependentReview
<1> SUFFICES ASSUME StoreInv PROVE IndependentReview
  OBVIOUS
<1>1. ASSUME NEW a \in AuditID, audits[a].work # None
      PROVE  /\ ~Contributor(audits[a].by, audits[a].submission)
             /\ audits[a].by # works[works[audits[a].work].parent].assignee
  <2>1. PICK c \in WorkID : c = audits[a].work
    BY <1>1 DEF StoreInv, LedgerInv, TypeOK, Audit
  <2>2. works[c].kind = "audit"
    BY <1>1, <2>1 DEF StoreInv, Minted, VerdictOfAudit
  <2>3. audits[a].by = works[c].assignee /\ audits[a].submission = works[c].subject
    BY <1>1, <2>1 DEF StoreInv, AuditorsApart, OwnVerdict
  <2>4. /\ works[c].assignee # works[works[c].parent].assignee
        /\ ~Contributor(works[c].assignee, works[c].subject)
    BY <2>2 DEF StoreInv, AuditorsApart, NotTheImplementer, NotAContributor
  <2> QED
    BY <2>1, <2>3, <2>4
<1> QED
  BY <1>1 DEF IndependentReview, StoreInv, AuditorsApart, AuditsOnce

\* Of the live work over a step, what reserves it ranks first.
LEMMA StateBlock == StoreInv => StateBlockAgrees
<1> SUFFICES ASSUME StoreInv, NEW s \in StepID PROVE ShownReservation(s) = reserved[s]
  BY DEF StateBlockAgrees
<1> DEFINE covering == {w \in WorkID : Live(w) /\ s \in works[w].scope}
<1>1. ASSUME NEW v \in covering
      PROVE  \/ works[v].kind \in Holding /\ reserved[s] = v
             \/ /\ works[v].kind \in {"audit", "repair"}
                /\ reserved[s] \in WorkID /\ works[reserved[s]].kind = "implementation"
  <2>1. works[v].kind \in Kind
    BY DEF StoreInv, LedgerInv, TypeOK, Work, Kin, Live, Issued
  <2>2. CASE works[v].kind \in Holding
    BY <2>2 DEF StoreInv, LedgerInv, ReservationExact
  <2>3. CASE works[v].kind \in {"audit", "repair"}
    <3>1. PICK w \in WorkID : w = works[v].parent /\ works[w].kind = "implementation"
      BY <2>3 DEF StoreInv, LedgerInv, Kin
    <3>2. Live(w)
      BY <2>3, <3>1 DEF StoreInv, LedgerInv, OneAudit, OneRepair, LiveAudit, LiveRepair, Live,
         Issued, Terminal
    <3>3. s \in works[w].scope
      BY <2>3, <3>1 DEF StoreInv, ScopeWithin
    <3>4. reserved[s] = w
      BY <3>1, <3>2, <3>3 DEF StoreInv, LedgerInv, ReservationExact, Holding
    <3> QED
      BY <2>3, <3>1, <3>4
  <2> QED
    BY <2>1, <2>2, <2>3 DEF Kind
<1>2. reserved[s] # None => reserved[s] \in covering /\ works[reserved[s]].kind \in Holding
  BY DEF StoreInv, LedgerInv, TypeOK, ReservationExact
<1>3. CASE covering = {}
  BY <1>2, <1>3 DEF ShownReservation
<1>4. CASE covering # {}
  <2>1. reserved[s] \in covering /\ works[reserved[s]].kind \in Holding
    BY <1>1, <1>2, <1>4, StoreAssumption
  <2>2. \A v \in covering : ReservesBefore(reserved[s], v)
    BY <1>1, <2>1 DEF ReservesBefore, Rank, Holding
  <2>3. ASSUME NEW w \in covering, \A v \in covering : ReservesBefore(w, v)
        PROVE  w = reserved[s]
    <3>1. ReservesBefore(w, reserved[s])
      BY <2>1, <2>3
    <3> QED
      BY <1>1, <2>1, <3>1 DEF ReservesBefore, Rank
  <2> QED
    BY <1>4, <2>1, <2>2, <2>3 DEF ShownReservation
<1> QED
  BY <1>3, <1>4

----------------------------------------------------------------------------
(* Each effect is allowed. *)

\* What the ledger and the recorder's machines say of a step.
Allowed ==
  /\ WorkStays /\ StepsStay /\ RevisionsMove /\ StatesAnnounced
  /\ WorksMove /\ StepsComplete /\ StepsMove

\* A plan is edited: no work changes, and the steps edited or cancelled are not held.
LEMMA PlannedAllowed ==
  ASSUME StoreInv,
         NEW edit \in SUBSET StepID, NEW cancel \in SUBSET StepID, Planned(edit, cancel)
  PROVE  Allowed
<1>1. WorkStays
  BY DEF WorkStays, Planned, StoreInv
<1>2. StepsStay
  BY DEF StepsStay, Planned, StoreInv
<1>3. RevisionsMove
  BY DEF RevisionsMove, Planned, StoreInv
<1>4. StatesAnnounced
  BY DEF StatesAnnounced, Planned, StoreInv
<1>5. WorksMove
  BY DEF WorksMove, Planned, StoreInv
<1>6. StepsComplete
  BY DEF StepsComplete, Planned, StoreInv
<1>7. StepsMove
  <2>1. ASSUME NEW s \in StepID, stepStatus'[s] # stepStatus[s]
        PROVE  <<stepStatus[s], stepStatus'[s]>> \in StepMachine
    <3>1. stepStatus'[s] = "cancelled" /\ stepStatus[s] # "completed" /\ stepStatus[s] \in StepStatus
      BY <2>1 DEF Planned, StoreInv, LedgerInv, TypeOK
    <3>2. stepStatus[s] \in {"pending", "in_progress", "blocked", "ready_for_review"}
      BY <2>1, <3>1 DEF StepStatus, ReportableStatus
    <3> QED
      BY <3>1, <3>2 DEF StepMachine
  <2> QED
    BY <2>1 DEF StepsMove
<1> QED
  BY <1>1, <1>2, <1>3, <1>4, <1>5, <1>6, <1>7 DEF Allowed

\* Work that holds its steps begins.
LEMMA AssignedAllowed ==
  ASSUME StoreInv,
         NEW kind \in Holding, NEW assignee \in Actor, NEW scope \in SUBSET StepID,
         NEW w \in WorkID, Assigned(w, kind, assignee, scope)
  PROVE  Allowed
<1>1. WorkStays
  BY DEF WorkStays, Assigned, Begins, Others, StoreInv, Issued, Terminal
<1>2. StepsStay
  BY DEF StepsStay, Assigned, Begins, StoreInv
<1>3. RevisionsMove
  BY DEF RevisionsMove, Assigned, Begins, Others, StoreInv
<1>4. StatesAnnounced
  BY DEF StatesAnnounced, Assigned, Begins, Others, StoreInv
<1>5. WorksMove
  BY DEF WorksMove, Assigned, Begins, Others, StoreInv
<1>6. StepsComplete
  BY DEF StepsComplete, Assigned, Begins, StoreInv
<1>7. StepsMove
  BY StoreAssumption DEF StepsMove, Assigned, StoreInv
<1> QED
  BY <1>1, <1>2, <1>3, <1>4, <1>5, <1>6, <1>7 DEF Allowed

\* Work is reported on, or a hypothesis or a result recorded.
LEMMA WorkedAllowed ==
  ASSUME StoreInv,
         NEW w \in WorkID, NEW steps \in SUBSET StepID, Worked(w, steps)
  PROVE  Allowed
<1>1. WorkStays
  BY DEF WorkStays, Worked, Moves, Turns, Others, StoreInv, Terminal
<1>2. StepsStay
  BY StoreAssumption DEF StepsStay, Worked, Moves, Turns, StoreInv, LedgerInv, Live,
        Issued, Terminal, Kin, OneRepair, LiveRepair, HeldOpen, ReservationExact,
        ScopeWithin, Reportable, Holding
<1>3. RevisionsMove
  BY DEF RevisionsMove, Worked, Moves, Turns, Continues, Others, StoreInv
<1>4. StatesAnnounced
  BY DEF StatesAnnounced, Worked, Moves, Turns, Others, StoreInv
<1>5. WorksMove
  BY DEF WorksMove, Worked, Moves, Turns, Others, StoreInv
<1>6. StepsComplete
  BY DEF StepsComplete, Worked, Moves, Turns, StoreInv, WithStatus, ReportableStatus
<1>7. StepsMove
  <2>1. ASSUME NEW s \in StepID, stepStatus'[s] # stepStatus[s]
        PROVE  <<stepStatus[s], stepStatus'[s]>> \in StepMachine \/ TakenBack(s)
    <3>1. /\ s \in Reportable(w) /\ stepStatus'[s] \in ReportableStatus
          /\ stepStatus[s] \notin {"completed", "cancelled"} /\ stepStatus[s] \in StepStatus
      BY <1>2, <2>1 DEF Worked, StoreInv, LedgerInv, TypeOK, StepsStay
    <3>2. CASE stepStatus[s] = "ready_for_review" /\ stepStatus'[s] = "blocked"
      BY <3>1, <3>2 DEF TakenBack, Worked, Moves, Turns, Continues
    <3>3. CASE ~(stepStatus[s] = "ready_for_review" /\ stepStatus'[s] = "blocked")
      BY <2>1, <3>1, <3>3 DEF StepMachine, StepStatus, ReportableStatus
    <3> QED
      BY <3>2, <3>3
  <2> QED
    BY <2>1 DEF StepsMove
<1> QED
  BY <1>1, <1>2, <1>3, <1>4, <1>5, <1>6, <1>7 DEF Allowed

\* An investigation or an experiment is delivered.
LEMMA DeliversAllowed ==
  ASSUME StoreInv,
         NEW w \in WorkID, Delivers(w)
  PROVE  Allowed
<1>1. WorkStays
  BY DEF WorkStays, Delivers, Moves, Turns, Others, StoreInv, Terminal
<1>2. StepsStay
  BY StoreAssumption DEF StepsStay, Delivers, Moves, Turns, StoreInv, HeldOpen, WithStatus,
        Held
<1>3. RevisionsMove
  BY DEF RevisionsMove, Delivers, Moves, Turns, Continues, Others, StoreInv
<1>4. StatesAnnounced
  BY DEF StatesAnnounced, Delivers, Moves, Turns, Others, StoreInv
<1>5. WorksMove
  BY DEF WorksMove, Delivers, Moves, Turns, Others, StoreInv, WorkMachine, Investigated
<1>6. StepsComplete
  BY DEF StepsComplete, Delivers, Moves, Turns, StoreInv, LedgerInv, WithStatus, Held,
        ReservationExact, Completes
<1>7. StepsMove
  BY StoreAssumption DEF StepsMove, Delivers, StoreInv, LedgerInv, TypeOK, StepMachine, StepStatus, ReportableStatus, HeldOpen, WithStatus, Held, ReservationExact
<1> QED
  BY <1>1, <1>2, <1>3, <1>4, <1>5, <1>6, <1>7 DEF Allowed

\* An implementation is submitted, by itself or by its repair.
LEMMA SubmitsAllowed ==
  ASSUME StoreInv,
         NEW actor \in Actor, NEW w \in WorkID, NEW o \in WorkID, NEW sub \in SubmissionID,
         Submits(actor, w, o, sub)
  PROVE  Allowed
<1>1. WorkStays
  BY DEF WorkStays, Submits, Moves, Turns, Others, StoreInv, Terminal
<1>2. StepsStay
  BY DEF StepsStay, Submits, Moves, Turns, StoreInv, WithStatus
<1>3. RevisionsMove
  BY DEF RevisionsMove, Submits, Moves, Turns, Continues, Others, StoreInv
<1>4. StatesAnnounced
  BY DEF StatesAnnounced, Submits, Moves, Turns, Others, StoreInv
<1>5. WorksMove
  BY DEF WorksMove, Submits, Moves, Turns, Others, StoreInv, WorkMachine
<1>6. StepsComplete
  BY DEF StepsComplete, Submits, Moves, Turns, StoreInv, WithStatus
<1>7. StepsMove
  BY StoreAssumption DEF StepsMove, Submits, WithStatus, StepMachine, StoreInv
<1> QED
  BY <1>1, <1>2, <1>3, <1>4, <1>5, <1>6, <1>7 DEF Allowed

\* An audit begins.
LEMMA AuditBeginsAllowed ==
  ASSUME StoreInv,
         NEW w \in WorkID, NEW c \in WorkID, NEW auditor \in Actor, AuditBegins(w, c, auditor)
  PROVE  Allowed
<1>1. WorkStays
  BY DEF WorkStays, AuditBegins, Begins, Moves, Turns, Others, StoreInv, Issued, Terminal
<1>2. StepsStay
  BY DEF StepsStay, AuditBegins, Begins, Moves, Turns, StoreInv
<1>3. RevisionsMove
  BY DEF RevisionsMove, AuditBegins, Begins, Moves, Turns, Continues, Others, StoreInv
<1>4. StatesAnnounced
  BY DEF StatesAnnounced, AuditBegins, Begins, Moves, Turns, Others, StoreInv
<1>5. WorksMove
  BY DEF WorksMove, AuditBegins, Begins, Moves, Turns, Others, StoreInv, WorkMachine
<1>6. StepsComplete
  BY DEF StepsComplete, AuditBegins, Begins, Moves, Turns, StoreInv
<1>7. StepsMove
  BY StoreAssumption DEF StepsMove, AuditBegins, StoreInv
<1> QED
  BY <1>1, <1>2, <1>3, <1>4, <1>5, <1>6, <1>7 DEF Allowed

\* An audit ends with its verdict.
LEMMA JudgesAllowed ==
  ASSUME StoreInv,
         NEW w \in WorkID, NEW o \in WorkID, NEW a \in AuditID, NEW verdict \in {"pass",
         "fail"}, NEW affected \in SUBSET StepID, Judges(w, o, a, verdict, affected)
  PROVE  Allowed
<1>1. WorkStays
  BY DEF WorkStays, Judges, Moves, Turns, Others, StoreInv, Terminal
<1>2. StepsStay
  BY StoreAssumption DEF StepsStay, Judges, Moves, Turns, StoreInv, LedgerInv, Live,
        Issued, Terminal, HeldOpen, ReservationExact, WithStatus, Holding
<1>3. RevisionsMove
  BY DEF RevisionsMove, Judges, Moves, Turns, Continues, Others, StoreInv
<1>4. StatesAnnounced
  BY DEF StatesAnnounced, Judges, Moves, Turns, Others, Outcome, StoreInv
<1>5. WorksMove
  BY DEF WorksMove, Judges, Moves, Turns, Others, Outcome, StoreInv, WorkMachine
<1>6. StepsComplete
  BY DEF StepsComplete, Judges, Moves, Turns, Outcome, StoreInv, Issued, WithStatus,
        UnderReviewFrozen, Completes
<1>7. StepsMove
  BY StoreAssumption DEF StepsMove, Judges, WithStatus, StepMachine, StoreInv, UnderReviewFrozen, Outcome, Issued, Turns, Moves
<1> QED
  BY <1>1, <1>2, <1>3, <1>4, <1>5, <1>6, <1>7 DEF Allowed

\* A repair begins.
LEMMA RepairBeginsAllowed ==
  ASSUME StoreInv,
         NEW w \in WorkID, NEW r \in WorkID, NEW assignee \in Actor,
         NEW scope \in SUBSET StepID, RepairBegins(w, r, assignee, scope)
  PROVE  Allowed
<1>1. WorkStays
  BY DEF WorkStays, RepairBegins, Begins, Turns, Others, StoreInv, Issued, Terminal
<1>2. StepsStay
  BY DEF StepsStay, RepairBegins, Begins, Turns, StoreInv
<1>3. RevisionsMove
  BY DEF RevisionsMove, RepairBegins, Begins, Turns, Continues, Others, StoreInv
<1>4. StatesAnnounced
  BY DEF StatesAnnounced, RepairBegins, Begins, Turns, Others, StoreInv
<1>5. WorksMove
  BY DEF WorksMove, RepairBegins, Begins, Turns, Others, StoreInv
<1>6. StepsComplete
  BY DEF StepsComplete, RepairBegins, Begins, Turns, StoreInv
<1>7. StepsMove
  BY StoreAssumption DEF StepsMove, RepairBegins, StoreInv
<1> QED
  BY <1>1, <1>2, <1>3, <1>4, <1>5, <1>6, <1>7 DEF Allowed

\* A cycle is cancelled, with the audit or repair in it.
LEMMA CycleEndsAllowed ==
  ASSUME StoreInv,
         NEW w \in WorkID, CycleEnds(w)
  PROVE  Allowed
<1>1. WorkStays
  BY DEF WorkStays, CycleEnds, Moves, Turns, Others, Children, StoreInv, Live
<1>2. StepsStay
  BY StoreAssumption DEF StepsStay, CycleEnds, Moves, Turns, Continues, Others, Children,
        StoreInv, LedgerInv, Live, Issued, TypeOK, Work, Kin, OneRepair, LiveRepair,
        HeldOpen, ReservationExact, ScopeWithin, WithStatus, Held, Reportable, Holding
<1>3. RevisionsMove
  BY DEF RevisionsMove, CycleEnds, Moves, Turns, Continues, Others, StoreInv
<1>4. StatesAnnounced
  BY DEF StatesAnnounced, CycleEnds, Moves, Turns, Others, StoreInv
<1>5. WorksMove
  BY DEF WorksMove, CycleEnds, Moves, Turns, Others, Children, StoreInv, LedgerInv, Live,
        TypeOK, Work, State, Kin, WorkMachine, ActiveWhileLive
<1>6. StepsComplete
  BY DEF StepsComplete, CycleEnds, Moves, Turns, StoreInv, WithStatus
<1>7. StepsMove
  BY StoreAssumption DEF StepsMove, CycleEnds, StoreInv, LedgerInv, TypeOK, StepMachine, StepStatus, ReportableStatus, HeldOpen, WithStatus, Held
<1> QED
  BY <1>1, <1>2, <1>3, <1>4, <1>5, <1>6, <1>7 DEF Allowed

\* An audit is cancelled.
LEMMA AuditEndsAllowed ==
  ASSUME StoreInv,
         NEW w \in WorkID, NEW o \in WorkID, AuditEnds(w, o)
  PROVE  Allowed
<1>1. WorkStays
  BY DEF WorkStays, AuditEnds, Moves, Turns, Others, LiveAudit, StoreInv, Live, Terminal
<1>2. StepsStay
  BY DEF StepsStay, AuditEnds, Moves, Turns, StoreInv
<1>3. RevisionsMove
  BY DEF RevisionsMove, AuditEnds, Moves, Turns, Continues, Others, StoreInv
<1>4. StatesAnnounced
  BY DEF StatesAnnounced, AuditEnds, Moves, Turns, Others, StoreInv, Announce
<1>5. WorksMove
  BY DEF WorksMove, AuditEnds, Moves, Turns, Others, LiveAudit, StoreInv, WorkMachine,
        Reaudit, AuditWithdrawn, ActiveWhileLive
<1>6. StepsComplete
  BY DEF StepsComplete, AuditEnds, Moves, Turns, StoreInv
<1>7. StepsMove
  BY StoreAssumption DEF StepsMove, AuditEnds, StoreInv
<1> QED
  BY <1>1, <1>2, <1>3, <1>4, <1>5, <1>6, <1>7 DEF Allowed

\* An investigation or an experiment is cancelled.
LEMMA HoldingEndsAllowed ==
  ASSUME StoreInv,
         NEW w \in WorkID, HoldingEnds(w)
  PROVE  Allowed
<1>1. WorkStays
  BY DEF WorkStays, HoldingEnds, Moves, Turns, Others, StoreInv, Live
<1>2. StepsStay
  BY StoreAssumption DEF StepsStay, HoldingEnds, Moves, Turns, StoreInv, HeldOpen,
        WithStatus, Held
<1>3. RevisionsMove
  BY DEF RevisionsMove, HoldingEnds, Moves, Turns, Continues, Others, StoreInv
<1>4. StatesAnnounced
  BY DEF StatesAnnounced, HoldingEnds, Moves, Turns, Others, StoreInv, Announce
<1>5. WorksMove
  BY DEF WorksMove, HoldingEnds, Moves, Turns, Others, StoreInv, WorkMachine, Investigated,
        ActiveWhileLive
<1>6. StepsComplete
  BY DEF StepsComplete, HoldingEnds, Moves, Turns, StoreInv, WithStatus
<1>7. StepsMove
  BY StoreAssumption DEF StepsMove, HoldingEnds, StoreInv, LedgerInv, TypeOK, StepMachine, StepStatus, ReportableStatus, HeldOpen, WithStatus, Held
<1> QED
  BY <1>1, <1>2, <1>3, <1>4, <1>5, <1>6, <1>7 DEF Allowed

----------------------------------------------------------------------------
(* The invariant, and what follows from it. *)

\* The ledger begins empty.
LEMMA InitStoreInv == Init => StoreInv
<1> SUFFICES ASSUME Init PROVE StoreInv
  OBVIOUS
<1>1. LedgerInv
  BY InitLedgerInv
<1>2. \A w \in WorkID : works[w] = Unissued
  BY DEF Init
<1>3. /\ \A s \in SubmissionID : submissions[s].work = None
      /\ \A a \in AuditID : audits[a].work = None
  BY DEF Init, NoSubmission, NoAudit
<1>4. /\ \A s \in StepID : reserved[s] = None /\ stepStatus[s] # "completed"
  BY DEF Init
<1>5. OneRepair /\ CycleRecord /\ ActiveWhileLive /\ ScopeWithin
  BY <1>2 DEF Unissued, OneRepair, CycleRecord, ActiveWhileLive, ScopeWithin, LiveRepair, Live,
     Issued
<1>6. Minted
  BY <1>2, <1>3 DEF Unissued, Minted, LatestMinted, SubjectMinted, VerdictMinted,
        SupersededMinted, VerdictOfAudit
<1>7. HeldOpen /\ CompletedEarned /\ UnderReviewFrozen /\ AcceptedEarned
  BY <1>2, <1>4 DEF Unissued, HeldOpen, CompletedEarned, UnderReviewFrozen, AcceptedEarned, Issued
<1>8. AuditorsApart
  BY <1>2, <1>3 DEF Unissued, AuditorsApart, NotTheImplementer, NotAContributor, AuditsOnce,
     OwnVerdict
<1> QED
  BY <1>1, <1>5, <1>6, <1>7, <1>8 DEF StoreInv

\* Every step has one of the effects, and each of them keeps the invariant.
LEMMA NextStoreInv == StoreInv /\ [Next]_vars => StoreInv'
<1> SUFFICES ASSUME StoreInv, [Next]_vars PROVE StoreInv'
  OBVIOUS
<1>1. LedgerInv'
  BY NextLedgerInv DEF StoreInv
<1>2. Effect
  BY EveryEffect
<1> QED
  BY <1>1, <1>2, PlannedKeeps, AssignedKeeps, WorkedKeeps, DeliversKeeps, SubmitsKeeps,
        AuditBeginsKeeps, JudgesKeeps, RepairBeginsKeeps, CycleEndsKeeps, AuditEndsKeeps,
        HoldingEndsKeeps DEF Effect

\* Every step has one of the effects, and each of them is allowed.
LEMMA NextAllowed == StoreInv /\ [Next]_vars => Allowed
<1> SUFFICES ASSUME StoreInv, [Next]_vars PROVE Allowed
  OBVIOUS
<1>1. Effect
  BY EveryEffect
<1> QED
  BY <1>1, PlannedAllowed, AssignedAllowed, WorkedAllowed, DeliversAllowed, SubmitsAllowed,
        AuditBeginsAllowed, JudgesAllowed, RepairBeginsAllowed, CycleEndsAllowed,
        AuditEndsAllowed, HoldingEndsAllowed DEF Effect

\* Every state of the ledger satisfies the invariant, for every set of agents, plans,
\* steps and ids, whatever operations are called and in whatever order.
THEOREM StoreInvariant == Spec => []StoreInv
  BY InitStoreInv, NextStoreInv, PTL DEF Spec

\* The review cycle of an implementation and the audits and repairs in it always agree
\* (AssignAudit, SubmitAudit, AssignRepair, SubmitWork and Cancel).
THEOREM CycleAlwaysAgrees == Spec => []ReviewCycle
  BY StoreInvariant, CycleAgrees, PTL

\* Accepted work passed an audit of its latest submission, and no verdict is that of an
\* agent who contributed to what it judges, nor of one that audited before
\* (independentAuditor, SubmitAudit).
THEOREM ReviewAlwaysEarned == Spec => []ReviewEarned
<1>1. StoreInv => ReviewEarned
  BY VerdictsApart DEF StoreInv, ReviewEarned
<1> QED
  BY <1>1, StoreInvariant, PTL

\* A step shows the work that holds it, completes with an accepted implementation or a
\* delivery, and is not edited while it is under review.
THEOREM StepsAlwaysHonest == Spec => []StepsAreHonest
<1>1. StoreInv => StepsAreHonest
  BY StateBlock DEF StoreInv, StepsAreHonest
<1> QED
  BY <1>1, StoreInvariant, PTL

\* No step of the ledger rewrites what is settled, changes a record without moving its
\* revision, or leaves whoever must act next unaware.
THEOREM StepsAlwaysAccounted == Spec => EveryStepAccounted
<1>1. StoreInv /\ [Next]_vars => [WorkStays /\ StepsStay]_vars
  BY NextAllowed DEF Allowed
<1>2. StoreInv /\ [Next]_vars => [RevisionsMove]_vars
  BY NextAllowed DEF Allowed
<1>3. StoreInv /\ [Next]_vars => [StatesAnnounced]_vars
  BY NextAllowed DEF Allowed
<1> QED
  BY <1>1, <1>2, <1>3, StoreInvariant, PTL DEF Spec, EveryStepAccounted, SettledIsFinal,
        RevisionFences, HandoffAnnounced

\* Every step of the ledger is one that workMachine and stepMachine of the recorder allow, but for
\* active work that takes back, as blocked, a step it had called ready for review.
THEOREM WorkAlwaysObeys == Spec => WorkObeysMachine
<1>1. StoreInv /\ [Next]_vars => [WorksMove /\ StepsComplete /\ StepsMove]_vars
  BY NextAllowed DEF Allowed
<1> QED
  BY <1>1, StoreInvariant, PTL DEF Spec, WorkObeysMachine
=============================================================================
