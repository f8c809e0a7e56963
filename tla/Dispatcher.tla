----------------------------- MODULE Dispatcher -----------------------------
(***************************************************************************)
(* workflow.Session: the goroutine that turns events of the work ledger    *)
(* into messages, and the receipts and exits of agents into                *)
(* acknowledgements and reports of failure.                                *)
(*                                                                         *)
(* The ledger is reduced to what the dispatcher asks of it: is a work      *)
(* still active, may it be audited, which events are pending.  A work is   *)
(* assigned once, so it stands for its binding.  Between the question and  *)
(* the delivery it justifies, the dispatcher holds no lock: agents act and *)
(* leave, and an interruption begins.  `stop` is how far the interruption  *)
(* of harness.Session has come; SessionControl models it in full.          *)
(***************************************************************************)
EXTENDS Integers, Sequences, SequencesExt, FiniteSets

CONSTANTS
  Work,            \* ids of works
  Worker,          \* implementors
  Auditor,         \* the auditors the workflow may create
  manager,         \* the owner of all work
  NoWork,
  MaxInside,       \* bounds the agents an interruption finds inside an operation
  Scenarios        \* [auto, assigned, interrupts, leaves]: WithAutoAudit, and bounds on
                   \* assignments, interruptions and the agents that may leave

ASSUME DispatcherAssumption ==
  /\ Work \subseteq Nat /\ IsFiniteSet(Work)
  /\ NoWork \notin Work /\ NoWork \notin Auditor

Agent == Worker \cup Auditor \cup {manager}

VARIABLES
  work,        \* what the ledger knows of each work
  events,      \* the ledger's pending events
  minted,      \* how many it has appended
  ready,       \* the coalesced wakeup
  inside,      \* the agents an interruption found inside an operation
  stop,        \* the interruption of the session
  life,        \* the life of each agent
  mail,        \* the mailboxes
  incoming,    \* receipts and exits the dispatcher has not read
  pc,          \* where the dispatcher is
  batch,       \* the pending events it goes through
  hired,       \* the auditor assignAudit has created
  telling,     \* works whose failure it has to report
  voicing,     \* the work whose failure it is reporting
  scenario,    \* the one at hand
  delivered, failed,   \* works whose instruction was delivered, failed
  attempted, audited,  \* ids of events handled so far
  notifying,   \* ids of events that await their owner
  settles, born, told, letters   \* history

ledgerVars == <<work, events, minted, ready>>
world == <<inside, stop, life>>
post == <<mail, incoming>>
place == <<pc, batch, hired, telling, voicing>>
memory == <<delivered, failed, attempted, audited, notifying>>
history == <<settles, born, told, letters>>
vars == <<ledgerVars, world, post, place, scenario, memory, history>>

----------------------------------------------------------------------------
(* The ledger and its operations, each under a lease of the gate.           *)

Unassigned == [state |-> "none", kind |-> "implementation", assignee |-> manager,
               parent |-> NoWork]

Interrupted == stop \in {"held", "fenced", "settling", "stopped"}
Fenced == stop \in {"fenced", "settling", "stopped", "resuming"}
GateShut == stop \in {"held", "fenced", "settling"}

Event(kind, w, actor, n) == [id |-> minted + n, kind |-> kind, work |-> w, actor |-> actor]

\* A mutation appends its events and wakes the dispatcher (endMutation).
Commit(next, n, appended) ==
  /\ work' = next
  /\ events' = events \cup appended
  /\ minted' = minted + n
  /\ ready' = TRUE

\* begin takes a lease and looks at the fences.  An operation is one step, except
\* that an interruption finds some agents inside one: each ends it then, with what
\* it was to commit or with nothing.
Operating(a) ==
  /\ life[a] = "running"
  /\ stop = "running" \/ a \in inside
Operated(a) ==
  /\ inside' = inside \ {a}
  /\ UNCHANGED <<stop, life, post, place, scenario, memory>>

\* An operation that is refused, or only reads.
End(a) ==
  /\ a \in inside
  /\ inside' = inside \ {a}
  /\ UNCHANGED <<ledgerVars, stop, life, post, place, scenario, memory, history>>

\* Works are numbered in the order of their creation.
Fresh(w) == work[w].state = "none" /\ \A x \in Work : x < w => work[x].state # "none"

\* AssignWork: the assignee was eligible when it was looked at, and may have
\* left since.
AssignWork(w, a) ==
  /\ Operating(manager)
  /\ Fresh(w) /\ w <= scenario.assigned /\ a \in Worker /\ life[a] # "absent"
  /\ Commit([work EXCEPT ![w] = [Unassigned EXCEPT !.state = "active", !.assignee = a]],
            1, {Event("assigned", w, manager, 1)})
  /\ born' = [born EXCEPT ![w] = settles]
  /\ Operated(manager)
  /\ UNCHANGED <<settles, told, letters>>

Submit(w) ==
  /\ Operating(work[w].assignee)
  /\ work[w].state = "active" /\ work[w].kind = "implementation"
  /\ Commit([work EXCEPT ![w].state = "needs_check"],
            1, {Event("review", w, work[w].assignee, 1)})
  /\ Operated(work[w].assignee)
  /\ UNCHANGED history

LiveAudits(w) ==
  {x \in Work : work[x].parent = w /\ work[x].state = "active"}

SubmitAudit(x) ==
  /\ Operating(work[x].assignee)
  /\ work[x].state = "active" /\ work[x].kind = "audit"
  /\ Commit([work EXCEPT ![x].state = "done", ![work[x].parent].state = "done"],
            1, {Event("verdict", work[x].parent, work[x].assignee, 1)})
  /\ Operated(work[x].assignee)
  /\ UNCHANGED history

Endings(closed) ==
  {Event("cancelled", x, manager, Cardinality({y \in closed : y >= x})) : x \in closed}

\* Cancelling an implementation ends its audit first; cancelling an audit alone
\* announces the submission again.
Cancelled(w) ==
  LET closed == {w} \cup LiveAudits(w)
      parent == work[w].parent
      next == [x \in Work |-> IF x \in closed THEN [work[x] EXCEPT !.state = "cancelled"]
                              ELSE IF x = parent THEN [work[x] EXCEPT !.state = "needs_check"]
                              ELSE work[x]]
      gone == Endings(closed)
      n == Cardinality(closed)
  IN IF parent = NoWork THEN Commit(next, n, gone)
     ELSE Commit(next, n + 1, gone \cup {Event("review", parent, manager, n + 1)})

Live(w) == work[w].state \in {"active", "needs_check", "checking"}

Cancel(w) ==
  /\ Operating(manager)
  /\ Live(w)
  /\ Cancelled(w)
  /\ Operated(manager)
  /\ UNCHANGED history

Acknowledge(ids) ==
  /\ events' = {e \in events : e.id \notin ids}
  /\ UNCHANGED <<work, minted, ready>>

----------------------------------------------------------------------------
(* The controller and the agents.                                           *)

Letter(kind, w, ids) == [kind |-> kind, work |-> w, ids |-> ids]

\* Deliver: refused while the conversation is fenced, or the recipient has left.
Deliverable(a) == ~Fenced /\ life[a] = "running"

Deliver(a, letter) ==
  /\ mail' = [mail EXCEPT ![a] = Append(@, letter)]
  /\ letters' = IF letter.work = NoWork THEN letters
                ELSE [letters EXCEPT ![letter.work] =
                       @ \cup {[kind |-> letter.kind, at |-> settles]}]

\* Receipts the dispatcher looks at: of an instruction that was returned, and of a
\* letter about events.  The rest tell it nothing and are left out.
Receipt(letter, status) == [kind |-> status, letter |-> letter, agent |-> manager]
Returned(a) ==
  LET returned == SelectSeq(mail[a], LAMBDA l : l.kind = "instruction" \/ l.ids # {})
  IN [i \in DOMAIN returned |-> Receipt(returned[i], "undelivered")]

Consume(a) ==
  /\ life[a] = "running" /\ mail[a] # <<>> /\ ~Fenced
  /\ mail' = [mail EXCEPT ![a] = Tail(@)]
  /\ incoming' = IF Head(mail[a]).ids = {} THEN incoming
                  ELSE Append(incoming, Receipt(Head(mail[a]), "consumed"))
  /\ UNCHANGED <<ledgerVars, world, place, scenario, memory, history>>

\* finish: whatever made the agent leave, its mail is returned and its exit told.
\* The manager stays: its exit ends the work of all (Conversation).
Exit(a) ==
  /\ a \in scenario.leaves /\ life[a] \in {"running", "stopping"} /\ a \notin inside
  /\ life' = [life EXCEPT ![a] = "exited"]
  /\ mail' = [mail EXCEPT ![a] = <<>>]
  /\ incoming' = (incoming \o Returned(a))
                   \o <<[kind |-> "exited", letter |-> Letter("none", NoWork, {}), agent |-> a]>>
  /\ UNCHANGED <<ledgerVars, inside, stop, place, scenario, memory, history>>

----------------------------------------------------------------------------
(* The interruption.                                                        *)

Suspend ==
  /\ stop = "running" /\ settles < scenario.interrupts
  /\ stop' = "held"
  /\ inside' \in {S \in SUBSET {a \in Agent : life[a] = "running"} : Cardinality(S) <= MaxInside}
  /\ UNCHANGED <<ledgerVars, life, post, place, scenario, memory, history>>

Fence ==
  /\ stop = "held"
  /\ stop' = "fenced"
  /\ UNCHANGED <<ledgerVars, inside, life, post, place, scenario, memory, history>>

DiscardMail(a) ==
  /\ stop = "fenced" /\ mail[a] # <<>>
  /\ mail' = [mail EXCEPT ![a] = <<>>]
  /\ incoming' = incoming \o Returned(a)
  /\ UNCHANGED <<ledgerVars, world, place, scenario, memory, history>>

\* The dispatcher holds a lease while it assigns an audit.
Hiring == pc \in {"create", "register", "assign"}

\* The agents have settled and the leases are back: SettleInterrupt asks.
AskSettle ==
  /\ stop = "fenced" /\ inside = {} /\ ~Hiring /\ \A a \in Agent : mail[a] = <<>>
  /\ stop' = "settling"
  /\ UNCHANGED <<ledgerVars, inside, life, post, place, scenario, memory, history>>

ResumeInterrupted ==
  /\ stop = "stopped"
  /\ stop' = "resuming"
  /\ UNCHANGED <<ledgerVars, inside, life, post, place, scenario, memory, history>>

\* Send is refused, and suspends the workflow again; or routed, and releases the
\* conversation.
SendReturns ==
  /\ stop = "resuming"
  /\ stop' \in {"stopped", "running"}
  /\ UNCHANGED <<ledgerVars, inside, life, post, place, scenario, memory, history>>

----------------------------------------------------------------------------
(* The dispatcher: drain, one event at a time.                              *)

Current(w) == work[w].state = "active"
Here == CHOOSE e \in batch : \A f \in batch : e.id <= f.id
Pass == batch' = batch \ {Here}

\* Draining an event it may handle: an interrupted dispatcher passes over all.
Draining(kinds) ==
  pc = "drain" /\ batch # {} /\ ~Interrupted /\ Here.kind \in kinds

\* The event stays pending, or is acknowledged and forgotten.
KeepEvent == UNCHANGED ledgerVars
DropEvent == Acknowledge({Here.id})

WakeUp ==
  /\ pc = "select" /\ ready
  /\ ready' = FALSE
  /\ batch' = events /\ pc' = "drain"
  /\ UNCHANGED <<work, events, minted, world, post, hired, telling, voicing, scenario, memory, history>>

Hold ==
  /\ pc = "drain" /\ batch # {} /\ Interrupted
  /\ batch' = {}
  /\ UNCHANGED <<ledgerVars, world, post, pc, hired, telling, voicing, scenario, memory, history>>

Drained ==
  /\ pc = "drain" /\ batch = {}
  /\ pc' = "select"
  /\ UNCHANGED <<ledgerVars, world, post, batch, hired, telling, voicing, scenario, memory, history>>

\* Tell the owner of an event; it stays pending until the owner has read it.
NotifyOwner(e) ==
  /\ attempted' = attempted \cup {e.id}
  /\ IF e.id \in attempted \/ ~Deliverable(manager)
     THEN UNCHANGED <<mail, letters, notifying>>
     ELSE /\ Deliver(manager, Letter(e.kind, e.work, {e.id}))
          /\ notifying' = notifying \cup {e.id}

\* A verdict, and a submission that is not audited automatically.
DrainForOwner ==
  /\ \/ Draining({"verdict"})
     \/ Draining({"review"}) /\ (~scenario.auto \/ Here.id \in audited)
  /\ KeepEvent
  /\ NotifyOwner(Here)
  /\ Pass
  /\ UNCHANGED <<world, incoming, pc, hired, telling, voicing, scenario, delivered, failed, audited,
                 settles, born, told>>

\* Faulty variant: cancelled work is treated like a superseded assignment.
DrainCancelledSilently ==
  /\ Draining({"cancelled"})
  /\ DropEvent
  /\ Pass
  /\ UNCHANGED <<world, post, pc, hired, telling, voicing, scenario, delivered, failed, attempted,
                 audited, notifying, history>>
\* The assignee of cancelled work is told, if it has not left.
DrainCancelled ==
  /\ Draining({"cancelled"})
  /\ LET a == work[Here.work].assignee IN
     IF Deliverable(a) THEN Deliver(a, Letter("revocation", Here.work, {}))
     ELSE UNCHANGED <<mail, letters>>
  /\ DropEvent
  /\ Pass
  /\ UNCHANGED <<world, incoming, pc, hired, telling, voicing, scenario, delivered, failed, attempted,
                 audited, notifying, settles, born, told>>

----------------------------------------------------------------------------
(* The dispatcher: the instruction of an assignment, attempted once.        *)

DrainSuperseded ==
  /\ Draining({"assigned"}) /\ ~Current(Here.work)
  /\ DropEvent
  /\ attempted' = attempted \ {Here.id}
  /\ Pass
  /\ UNCHANGED <<world, post, pc, hired, telling, voicing, scenario, delivered, failed, audited,
                 notifying, history>>

DrainAttempted ==
  /\ Draining({"assigned"}) /\ Current(Here.work) /\ Here.id \in attempted
  /\ KeepEvent
  /\ Pass
  /\ UNCHANGED <<world, post, pc, hired, telling, voicing, scenario, delivered, failed, attempted,
                 audited, notifying, history>>

\* The binding is current: from here to the delivery anything may happen.
DrainAssigned ==
  /\ Draining({"assigned"}) /\ Current(Here.work) /\ Here.id \notin attempted
  /\ KeepEvent
  /\ attempted' = attempted \cup {Here.id}
  /\ pc' = "instruct"
  /\ UNCHANGED <<world, post, batch, hired, telling, voicing, scenario, delivered, failed, audited,
                 notifying, history>>

Instruct ==
  /\ pc = "instruct" /\ Deliverable(work[Here.work].assignee)
  /\ Deliver(work[Here.work].assignee, Letter("instruction", Here.work, {}))
  /\ delivered' = delivered \cup {Here.work}
  /\ attempted' = attempted \ {Here.id}
  /\ Acknowledge({Here.id})
  /\ Pass /\ pc' = "drain"
  /\ UNCHANGED <<world, incoming, hired, telling, voicing, scenario, failed, audited, notifying, settles, born, told>>

\* Faulty variant: a failed delivery is remembered and not reported.
InstructFailsSilently ==
  /\ pc = "instruct" /\ ~Deliverable(work[Here.work].assignee)
  /\ failed' = failed \cup {Here.work}
  /\ Pass /\ pc' = "drain"
  /\ UNCHANGED <<ledgerVars, world, post, hired, telling, voicing, scenario, delivered,
                 attempted, audited, notifying, history>>
\* A definite failure leaves the event pending.
InstructFails ==
  /\ pc = "instruct" /\ ~Deliverable(work[Here.work].assignee)
  /\ failed' = failed \cup {Here.work}
  /\ telling' = {Here.work} /\ pc' = "tell"
  /\ Pass
  /\ UNCHANGED <<ledgerVars, world, post, hired, voicing, scenario, delivered, attempted, audited,
                 notifying, history>>

\* failure: a look at the interruption and the binding, then a message to the owner.
TellSuperseded(w) ==
  /\ pc = "tell" /\ w \in telling /\ (Interrupted \/ ~Current(w))
  /\ telling' = telling \ {w}
  /\ UNCHANGED <<ledgerVars, world, post, pc, batch, hired, voicing, scenario, memory, history>>

TellBegins(w) ==
  /\ pc = "tell" /\ w \in telling /\ ~Interrupted /\ Current(w)
  /\ telling' = telling \ {w} /\ voicing' = w /\ pc' = "deliver_failure"
  /\ UNCHANGED <<ledgerVars, world, post, batch, hired, scenario, memory, history>>

\* The user is told instead of an owner that cannot be reached.
Tell ==
  /\ pc = "deliver_failure"
  /\ told' = [told EXCEPT ![voicing] = @ + 1]
  /\ IF Deliverable(manager) THEN Deliver(manager, Letter("failure", voicing, {}))
     ELSE UNCHANGED <<mail, letters>>
  /\ pc' = "tell" /\ voicing' = NoWork
  /\ UNCHANGED <<ledgerVars, world, incoming, batch, hired, telling, scenario, memory, settles, born>>

AllTold ==
  /\ pc = "tell" /\ telling = {}
  /\ pc' = "drain"
  /\ UNCHANGED <<ledgerVars, world, post, batch, hired, telling, voicing, scenario, memory, history>>

----------------------------------------------------------------------------
(* The dispatcher: an audit assigned on behalf of the owner (assignAudit).  *)

DrainReview ==
  /\ Draining({"review"}) /\ scenario.auto /\ Here.id \notin audited
  /\ audited' = audited \cup {Here.id}
  /\ KeepEvent
  /\ pc' = "look"
  /\ UNCHANGED <<world, post, batch, hired, telling, voicing, scenario, delivered, failed,
                 attempted, notifying, history>>

\* Nothing to audit any more, or it is being audited already.
AuditNeedless ==
  /\ pc = "look" /\ work[Here.work].state # "needs_check"
  /\ DropEvent
  /\ attempted' = attempted \ {Here.id}
  /\ Pass /\ pc' = "drain"
  /\ UNCHANGED <<world, post, hired, telling, voicing, scenario, delivered, failed, audited,
                 notifying, history>>

\* begin refuses while the gate is shut or execution is held: the owner is told.
AuditRefused ==
  /\ pc = "look" /\ work[Here.work].state = "needs_check"
  /\ GateShut \/ Interrupted \/ Fenced
  /\ pc' = "owner"
  /\ UNCHANGED <<ledgerVars, world, post, batch, hired, telling, voicing, scenario, memory, history>>

AuditBegins ==
  /\ pc = "look" /\ work[Here.work].state = "needs_check"
  /\ ~GateShut /\ ~Interrupted /\ ~Fenced
  /\ pc' = "create"
  /\ UNCHANGED <<ledgerVars, world, post, batch, hired, telling, voicing, scenario, memory, history>>

\* The owner hears of the submission as if no audit had been tried.
AuditFailed ==
  /\ pc = "owner"
  /\ KeepEvent
  /\ NotifyOwner(Here)
  /\ Pass /\ pc' = "drain"
  /\ UNCHANGED <<world, incoming, hired, telling, voicing, scenario, delivered, failed, audited,
                 settles, born, told>>

\* The lease is revoked when the gate is shut.
Revoked == GateShut

CreateAuditor ==
  /\ pc = "create" /\ ~Revoked /\ ~Fenced
  /\ \E u \in Auditor :
       /\ life[u] = "absent"
       /\ life' = [life EXCEPT ![u] = "running"] /\ hired' = u
  /\ pc' = "register"
  /\ UNCHANGED <<ledgerVars, inside, stop, post, batch, telling, voicing, scenario, memory, history>>

\* Faulty variant: the event waits for the next drain.
CreateFailsQuietly ==
  /\ pc = "create"
  /\ Revoked \/ Fenced \/ \A u \in Auditor : life[u] # "absent"
  /\ Pass /\ pc' = "drain"
  /\ UNCHANGED <<ledgerVars, inside, stop, life, post, hired, telling, voicing, scenario, memory,
                 history>>
\* Nothing was created; no more auditors than the bound allows.
CreateFails ==
  /\ pc = "create"
  /\ Revoked \/ Fenced \/ \A u \in Auditor : life[u] # "absent"
  /\ pc' = "owner"
  /\ UNCHANGED <<ledgerVars, inside, stop, life, post, batch, hired, telling, voicing, scenario, memory, history>>

Register ==
  /\ pc = "register" /\ ~Revoked
  /\ pc' = "assign"
  /\ UNCHANGED <<ledgerVars, world, post, batch, hired, telling, voicing, scenario, memory, history>>

\* Faulty variant: the auditor of an audit that was not assigned stays.
DismissNobody ==
  /\ hired' = NoWork
  /\ pc' = "owner"
  /\ UNCHANGED life
\* The agent created for nothing is stopped; the owner will be told of the event.
Dismiss ==
  /\ life' = [life EXCEPT ![hired] = IF @ = "running" THEN "stopping" ELSE @]
  /\ hired' = NoWork
  /\ pc' = "owner"

RegisterFails ==
  /\ pc = "register" /\ Revoked
  /\ Dismiss
  /\ UNCHANGED <<ledgerVars, inside, stop, post, batch, telling, voicing, scenario, memory, history>>

\* AssignAudit of the store, at the revision that was read.
AssignAudit ==
  /\ pc = "assign" /\ work[Here.work].state = "needs_check"
  /\ \E x \in Work :
       /\ Fresh(x)
       /\ LET next == [work EXCEPT ![Here.work].state = "checking",
                                   ![x] = [state |-> "active", kind |-> "audit",
                                           assignee |-> hired, parent |-> Here.work]]
          IN /\ work' = next
             /\ events' = {e \in events : e.id # Here.id} \cup {Event("assigned", x, manager, 1)}
             /\ minted' = minted + 1 /\ ready' = TRUE
       /\ born' = [born EXCEPT ![x] = settles]
  /\ attempted' = attempted \ {Here.id}
  /\ hired' = NoWork
  /\ Pass /\ pc' = "drain"
  /\ UNCHANGED <<inside, stop, life, post, telling, voicing, scenario, delivered, failed, audited,
                 notifying, settles, told, letters>>

\* It was cancelled meanwhile; or no more works than the bound allows.
AssignAuditFails ==
  /\ pc = "assign"
  /\ work[Here.work].state # "needs_check" \/ \A x \in Work : work[x].state # "none"
  /\ Dismiss
  /\ UNCHANGED <<ledgerVars, inside, stop, post, batch, telling, voicing, scenario, memory, history>>

----------------------------------------------------------------------------
(* The dispatcher: receipts and exits, and the drain of an interruption.    *)

Reading == pc = "select" /\ incoming # <<>>
News == Head(incoming)

\* Settlement retires what an interrupted session has to say.
Ignore ==
  /\ Reading /\ Interrupted
  /\ incoming' = Tail(incoming)
  /\ UNCHANGED <<ledgerVars, world, mail, place, scenario, memory, history>>

Consumed ==
  /\ Reading /\ ~Interrupted /\ News.kind = "consumed"
  /\ LET ids == News.letter.ids \cap notifying IN
     /\ Acknowledge(ids)
     /\ notifying' = notifying \ ids /\ attempted' = attempted \ ids
  /\ incoming' = Tail(incoming)
  /\ UNCHANGED <<world, mail, place, scenario, delivered, failed, audited, history>>

\* Faulty variant: each sign of a failure is reported.
FailuresAgain(ws) == ws
Failures(ws) == ws \ failed

ReportFailures(ws) ==
  /\ failed' = failed \cup Failures(ws)
  /\ telling' = Failures(ws)
  /\ pc' = IF Failures(ws) = {} THEN "select" ELSE "tell"
  /\ incoming' = Tail(incoming)

Undelivered ==
  /\ Reading /\ ~Interrupted /\ News.kind = "undelivered"
  /\ notifying' = notifying \ News.letter.ids
  /\ ReportFailures(IF News.letter.kind = "instruction" THEN {News.letter.work} \cap delivered
                    ELSE {})
  /\ UNCHANGED <<ledgerVars, world, mail, batch, hired, voicing, scenario, delivered, attempted, audited,
                 history>>

AgentExited ==
  /\ Reading /\ ~Interrupted /\ News.kind = "exited"
  /\ ReportFailures({w \in delivered : work[w].assignee = News.agent})
  /\ UNCHANGED <<ledgerVars, world, mail, batch, hired, voicing, scenario, delivered, attempted, audited,
                 notifying, history>>

\* Faulty variant: what the cancellations announce is left pending.
InterruptDrainKeeping ==
  /\ pc = "select" /\ stop = "settling"
  /\ stop' = "stopped" /\ settles' = settles + 1
  /\ LET ended == {w \in Work : Live(w)} IN
     /\ work' = [w \in Work |-> IF Live(w) THEN [work[w] EXCEPT !.state = "cancelled"]
                                ELSE work[w]]
     /\ events' = Endings(ended)
     /\ minted' = minted + Cardinality(ended) /\ ready' = TRUE
  /\ delivered' = {} /\ failed' = {} /\ attempted' = {}
  /\ notifying' = {}
  /\ UNCHANGED <<inside, life, post, place, scenario, audited, born, told, letters>>

\* cancelInterruptedWork: the manager's live work is cancelled and every pending
\* event acknowledged; the dispatcher forgets all it remembered but the audits.
InterruptDrain ==
  /\ pc = "select" /\ stop = "settling"
  /\ stop' = "stopped" /\ settles' = settles + 1
  /\ work' = [w \in Work |-> IF Live(w) THEN [work[w] EXCEPT !.state = "cancelled"]
                             ELSE work[w]]
  /\ events' = {}
  /\ minted' = minted + Cardinality({w \in Work : Live(w)})
  /\ ready' = (ready \/ \E w \in Work : Live(w))
  /\ delivered' = {} /\ failed' = {} /\ attempted' = {}
  /\ notifying' = {}
  /\ UNCHANGED <<inside, life, post, place, scenario, audited, born, told, letters>>

----------------------------------------------------------------------------
Init ==
  /\ work = [w \in Work |-> Unassigned]
  /\ events = {} /\ minted = 0 /\ ready = FALSE
  /\ inside = {} /\ stop = "running"
  /\ life = [a \in Agent |-> IF a \in Auditor THEN "absent" ELSE "running"]
  /\ mail = [a \in Agent |-> <<>>] /\ incoming = <<>>
  /\ pc = "select" /\ batch = {} /\ hired = NoWork /\ telling = {} /\ voicing = NoWork
  /\ scenario \in Scenarios
  /\ delivered = {} /\ failed = {} /\ attempted = {} /\ audited = {}
  /\ notifying = {}
  /\ settles = 0 /\ born = [w \in Work |-> 0] /\ told = [w \in Work |-> 0]
  /\ letters = [w \in Work |-> {}]

Operation ==
  \/ \E a \in Agent : End(a)
  \/ \E w \in Work :
       \/ Submit(w) \/ SubmitAudit(w) \/ Cancel(w)
       \/ \E a \in Worker : AssignWork(w, a)

Interruption ==
  \/ Suspend \/ Fence \/ AskSettle \/ ResumeInterrupted \/ SendReturns
  \/ \E a \in Agent : DiscardMail(a)

Delivering ==
  \/ WakeUp \/ Hold \/ Drained \/ DrainForOwner \/ DrainCancelled
  \/ DrainSuperseded \/ DrainAttempted \/ DrainAssigned \/ Instruct \/ InstructFails
  \/ Tell \/ AllTold \/ \E w \in Work : TellSuperseded(w) \/ TellBegins(w)

Auditing ==
  \/ DrainReview \/ AuditFailed \/ AuditNeedless \/ AuditRefused \/ AuditBegins \/ CreateAuditor \/ CreateFails
  \/ Register \/ RegisterFails \/ AssignAudit \/ AssignAuditFails

Observing == Ignore \/ Consumed \/ Undelivered \/ AgentExited \/ InterruptDrain

Dispatching == Delivering \/ Auditing \/ Observing

Next ==
  \/ Operation \/ Interruption \/ Dispatching
  \/ \E a \in Agent : Consume(a) \/ Exit(a)

\* The dispatcher's goroutine runs, and the Go select does not pass over a ready
\* case for ever; an operation ends; an interruption under way goes on.
Fairness ==
  /\ WF_vars(Dispatching) /\ SF_vars(WakeUp) /\ SF_vars(Observing)
  /\ WF_vars(\E a \in Agent : End(a)) 
  /\ WF_vars(Fence \/ AskSettle \/ \E a \in Agent : DiscardMail(a))

Spec == Init /\ [][Next]_vars /\ Fairness

----------------------------------------------------------------------------
(* What the dispatcher promises.                                            *)

\* The owner hears at most once that the assignee of a work has failed, whichever
\* of a refused delivery, a returned message and an exit tells the dispatcher first
\* (session.go:500-560, 629-652).
ToldOnce == \A w \in Work : told[w] <= 1

\* An auditor the workflow created has an audit, is being given one, or is
\* dismissed: it never idles for an audit that could not be assigned
\* (operations.go:301-338).
AuditorsEmployed ==
  \A u \in Auditor :
    \/ life[u] # "running"
    \/ hired = u
    \/ \E x \in Work : work[x].kind = "audit" /\ work[x].assignee = u

\* No message is about work of before an interruption: what the drain of the
\* interruption ends, the dispatcher never speaks of again, and once the
\* interruption has settled nothing is live or pending (interrupt.go:13-63).
InterruptionForgets ==
  /\ \A w \in Work : \A l \in letters[w] : l.at = born[w]
  /\ stop = "stopped" => events = {} /\ \A w \in Work : ~Live(w)

\* No failure is told twice, and no auditor idles.
DispatchIsTidy == ToldOnce /\ AuditorsEmployed

\* What makes these inductive.  Types: an event is about known work, and ids were minted.
WorkState == {"none", "active", "needs_check", "checking", "done", "cancelled"}
WorkRecord ==
  [state : WorkState, kind : {"implementation", "audit"}, assignee : Agent,
   parent : Work \cup {NoWork}]

DispatchTypes ==
  /\ work \in [Work -> WorkRecord]
  /\ minted \in Nat /\ settles \in Nat
  /\ inside \subseteq Agent
  /\ life \in [Agent -> {"absent", "running", "stopping", "exited"}]
  /\ born \in [Work -> Nat] /\ told \in [Work -> Nat]
  /\ letters \in [Work -> SUBSET [kind : {"instruction", "revocation", "failure", "review",
                                         "verdict"}, at : Nat]]
  /\ notifying \subseteq 1..minted
  /\ delivered \cup failed \cup telling \subseteq Work
  /\ voicing \in Work \cup {NoWork} /\ hired \in Auditor \cup {NoWork}
  /\ \A e \in events \cup batch : e.id \in 1..minted /\ e.work \in Work

\* Where the dispatcher is says what it holds.
Placed ==
  /\ pc \in {"select", "drain", "instruct", "tell", "deliver_failure", "look", "owner", "create",
             "register", "assign"}
  /\ pc = "select" => batch = {}
  /\ pc = "instruct" => batch # {} /\ Here.kind = "assigned"
  /\ pc \in {"look", "owner", "create", "register", "assign"} => batch # {} /\ Here.kind = "review"
  /\ hired # NoWork <=> pc \in {"register", "assign"}
  /\ telling # {} => pc \in {"tell", "deliver_failure"}
  /\ voicing # NoWork <=> pc = "deliver_failure"

\* Of a work nobody was given nothing is known, and an audit has a work to audit.
Known ==
  /\ \A w \in Work : work[w].state = "none" =>
       /\ work[w].kind = "implementation" /\ told[w] = 0 /\ letters[w] = {}
       /\ w \notin delivered \cup failed /\ voicing # w
       /\ \A e \in events \cup batch : e.work # w
       /\ \A x \in Work : work[x].parent # w
  /\ \A w \in Work : IF work[w].kind = "implementation" THEN work[w].parent = NoWork
                     ELSE /\ work[w].parent \in Work
                          /\ work[work[w].parent].kind = "implementation"
                          /\ work[w].state \in {"active", "done", "cancelled"}

\* A work has one assignment, with an id of its own that no owner is notified of; once
\* its instruction was delivered it is not pending, and until it is tried nothing of
\* it has failed.
InstructedOnce ==
  /\ \A e, f \in events \cup batch :
       e.kind = "assigned" /\ (e.id = f.id \/ (f.kind = "assigned" /\ e.work = f.work)) => e = f
  /\ \A e \in events \cup batch : e.kind = "assigned" =>
       /\ e.id \notin notifying /\ e.work \notin delivered
       /\ e.id \notin attempted => e.work \notin failed /\ told[e.work] = 0
  /\ pc = "instruct" =>
       Here.id \in attempted /\ Here.work \notin failed /\ told[Here.work] = 0

\* What is reported was found to have failed, and not reported before.
Reported ==
  /\ \A w \in telling : w \in failed /\ told[w] = 0 /\ voicing # w
  /\ voicing # NoWork => voicing \in failed /\ told[voicing] = 0
  /\ \A w \in Work : told[w] <= 1 /\ (told[w] > 0 => w \in failed \/ w \notin delivered)

\* What is live, pending or being told dates from after the last interruption.
Contemporary ==
  /\ \A w \in Work : Live(w) =>
       /\ born[w] = settles
       /\ work[w].parent # NoWork => born[work[w].parent] = settles
  /\ \A e \in events \cup batch : born[e.work] = settles
  /\ voicing # NoWork => born[voicing] = settles

\* An interruption that has come to the ledger is alone with it.
SettlesAlone ==
  /\ stop \in {"settling", "stopped", "resuming"} => inside = {} /\ ~Hiring
  /\ stop \in {"stopped", "resuming"} => events = {} /\ \A w \in Work : ~Live(w)

DispatchInv ==
  /\ DispatchTypes /\ Placed /\ Known /\ InstructedOnce /\ Reported /\ Contemporary
  /\ SettlesAlone /\ AuditorsEmployed /\ InterruptionForgets

Heard(kind, w) == \E l \in letters[w] : l.kind = kind

\* Work whose assignee has left does not stay active unnoticed: its owner, or the
\* user in its place, is told, unless the work is over first.
FailureIsTold ==
  \A w \in Work :
    Current(w) /\ life[work[w].assignee] = "exited"
      ~> told[w] > 0 \/ ~Current(w)

\* An assignee that was instructed on work that is cancelled hears of it, even if
\* the cancellation came between the check of the binding and the delivery; unless
\* it leaves, or an interruption ends all work.
RevocationFollows ==
  \A w \in Work :
    (work[w].state = "cancelled" /\ Heard("instruction", w))
      ~> \/ Heard("revocation", w)
         \/ life[work[w].assignee] # "running" \/ born[w] < settles

\* A submission does not wait for ever: an audit is assigned, or its owner is told.
ReviewIsArranged ==
  \A w \in Work :
    work[w].state = "needs_check"
      ~> work[w].state # "needs_check" \/ Heard("review", w)

\* Nothing the dispatcher owes anybody is left undone.
DispatchSettles == FailureIsTold /\ RevocationFollows /\ ReviewIsArranged
-----------------------------------------------------------------------------
\* For TLC, two works: two that a worker leaves, one that an interruption meets, and one with
\* the audit the workflow assigns, interrupted or left.
Scenario(automatic, assigned, interruptions, leavers) ==
  [auto |-> automatic, assigned |-> assigned, interrupts |-> interruptions, leaves |-> leavers]

MCScenarios == {Scenario(FALSE, 2, 0, Worker), Scenario(FALSE, 1, 1, Worker),
                Scenario(TRUE, 1, 1, {}), Scenario(TRUE, 1, 0, Auditor)}
=============================================================================
