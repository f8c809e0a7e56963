# Specifications of strap

TLA+ specifications of strap: the work ledger and its review cycle, the
publication of its events, the dispatcher, the conversation and its agents, the
control of a session (interrupt, send, close), the event log, and the parts
around them that keep state of their own: the language servers, the file tools,
the research engine, replay and recording, the terminal, the evaluation. TLC
checks them on small instances; TLAPS proves the invariants of the core, and of
eight of the parts around it, for all values of the constants. `PROJECT.json`
maps each definition to the lines it models.

Run a model with `tlc -config X.cfg M`, and the proofs of a module with
`tlapm M.tla`.

## The system

A session is a conversation between a user and a tree of agents. A manager
plans work and assigns it; workers submit; auditors judge; the ledger decides
which transition is legal, and a dispatcher turns its events into messages.
Everything is reported to one event log, from which all views are computed. If
the log refuses an event the session stops: nothing runs unobserved.

| Component | State | Operations | Talks to |
| --- | --- | --- | --- |
| `work.Store` | plans, steps, works, submissions, audits, experiments, reservations, revisions, pending events | UpdatePlan, Assign*, ReportWorkProgress, Record*, Submit*, AssignAudit, SubmitAudit, AssignRepair, Cancel | the reporter (log); tools of agents; the dispatcher |
| `work` reporting and read model | emission lock, count of visible events, failure, coalesced wakeup | beginMutation, endMutation, PendingEvents, AcknowledgeEvent; Apply | the log; the dispatcher |
| `internal/workflow.Session` | what it attempted, delivered, failed, revoked; notice queue; bindings | drain, deliver, retire, failure notices, automatic audits, interrupt drain, creation of agents | ledger, controller, roster |
| `conversation.Controller` | agents, receipts, emission and state lock, fence and interruption, closing | CreateAgent, SendContext, Deliver, sender.Send, acknowledge, finish, Interrupt, StopAgent, Close | agents, mailboxes, log |
| `agent.Agent` | thread, life cycle, controls (interrupt, stop, quiesce, pause) | Run: begin, wait, receive, take, exchange, settle, exit | its mailbox, model, tools, controller |
| `inbox.Inbox` | a queue, closed, a wake channel | Send, Receive, Take, Drain, Wait, Close | controller and one agent |
| `admission.Gate` | leases, suspension, seal, two channels | Begin and its release, Suspend, Resume, Seal, Wait | whoever calls a session |
| `harness.Session` | state, interruption attempt, close attempt, resources | New, Send, Interrupt, Close, finalize, Dispose | all of the above |
| `eventlog` | queue and quota, accepted prefix, failure; JSONL file | Publish, Flush, Finish, Read, Subscribe, Dispose; Append, OpenJSONL | every component |
| `roster` | the graph of agents and roles | Register, edges, may-reach | controller, workflow |
| `harness`: workspaces, checks, solo finish | copies of the workspace, the change log, scratch language servers | assignment, write, run, reply | tools, `lsp` |
| `harness`: projection, replay, machine | views; gates of a trace; a timeline | Apply, pages; await, stall; fold, rules | the log |
| `lsp` | a manager, a server process, its diagnostics | queries, hints, refresh, Close | tools, write checks |
| `tool` | readers' labels, the file gate | read, edit, write, shell | agents |
| `research` | questions, scouts, sources, claims, budgets | plan, scout, verify, report | providers, log |
| `internal/tui` | entries, streams, dock, roster, composer, browser | one update at a time | the session, the feed |
| evaluation (`eval`, `internal/evalweb`, `evalcmd`) | jobs, results, attempts, trials, timing | run, cancel, list, analyse, grade | sessions, containers |
| `httpapi`, providers, prompts, content, identity | their own input and output | | |

What is hard about it:

- **Locks that are given up.** The ledger and the controller each have two
  locks: the emission lock spans a whole mutation or routing, the state lock is
  released while an event is published. Interrupts, stops, closes, readers and
  acknowledgements come in between.
- **Cancellation is cooperative** and arrives while agents wait, call a model,
  run a tool, send, or settle; a session waits for all of them.
- **Several fences.** An interruption suspends the gate, holds the workflow and
  fences the controller, in this order, and they are released in another.
- **Stale requests.** Agents act on a state block and quote the revision they
  read; meanwhile plans are edited and work is cancelled. The dispatcher checks
  a binding, releases the lock, and then delivers.
- **The log may fail** in the middle of a mutation, a routing, a creation or an
  interruption; a write may outlive its failure; a process may crash with a torn
  last line.
- **Late results.** The terminal, the browser, the evaluation page and the
  language servers ask, go on, and are answered about a state that has gone.
- **Budgets and capacities**: leases, the log's quota, research budgets, slots
  for scratch servers, retries.

`PROJECT.json` lists 40 hazards at their lines, each with the properties that
would notice it going wrong.

## Modules

The core, where the components interact:

| Module | Models | Uses |
| --- | --- | --- |
| `WorkStore` | `work.Store`: every transition of plans, steps, works, submissions, audits and experiments; the recorder's machines as properties; the symmetry of its two instances | |
| `WorkStoreProofs` | the ledger's inductive invariant, the review cycle | WorkStore |
| `LedgerReplay` | abstract: what a replay of the log may show | |
| `WorkLedger` | `work/reporting.go`, the read model, the dispatcher's loop | implements LedgerReplay |
| `WorkLedgerProofs` | its invariant, and the refinement | WorkLedger |
| `Dispatcher` | `workflow.Session`: delivery, receipts, failure notices, automatic audits, the drain of an interruption; the scenarios of its run | |
| `DispatcherProofs` | its invariant | Dispatcher |
| `ExecutionFence` | abstract: what an interruption promises | |
| `Conversation` | controller, agents' loops, mailboxes | implements ExecutionFence |
| `ConversationProofs` | its invariant, the refinement, final receipts | Conversation |
| `SessionControl` | `admission.Gate`; Interrupt, Send, Close of `harness.Session`, and `begin` of `workflow.Session` | ExecutionFence in place of the controller |
| `EventLog` | `eventlog.Log`, its store, its file, a subscriber, recovery | |
| `LanguageServer` | `lsp.Manager` with one server | |
| `MCSession` | the parts under a session, side by side | SessionControl, WorkLedger, EventLog, LanguageServer |
| `SessionProofs` | the gate, the control, the ledger and the log of a session | MCSession, WorkLedgerProofs |

The components that stand by themselves, all of them instantiated by
`MCComponents` (the header of each module says what it leaves out):

| Module | Models | What must hold |
| --- | --- | --- |
| `Exchange` | one exchange of an agent with its model | every call of every batch has one result before the model is asked again |
| `Replay` | `harness/replay`: gates, stalls, waits that a context ends | the recorded order, or a report of what was skipped, unless a context ended |
| `Projection` | `harness/projection` | views cohere, pages tile, whatever was recorded |
| `Recorder` | `harness/machine`: the timeline and its rules, beside a session that keeps to them | a settled session is at rest, but for agents that are paused or have ended; no rule flags a lawful session |
| `Workspaces` | copies of the workspace, the change log | one copy to an assignment, nothing left behind, no change missed |
| `WriteCheck` | write and shell checks, scratch language servers | an all-clear comes from a server that saw the change, if the server was kept between the lookups of the check |
| `SoloFinish` | how a solo exchange ends: held replies, the tester | no reply slips past an unchecked change |
| `Startup` | New, its failure, Dispose, Close | what was acquired is released once, in order, or stays with a handle |
| `Staff` | roster, creation and registration of agents, automatic audits | graph, log and work agree on who there is; work can be delivered |
| `Experiments` | hypotheses, runs, conclusions | what is concluded was measured for it, after it was predicted |
| `Files`, `FileMerge`, `Diff` | `tool` reads with labels, edits, the merge of a misquoted edit | no agent is overwritten unseen; a label means one line; a merge keeps what is there |
| `LanguageServer` | again, with queries | what is called synchronized belongs to the text it is shown with |
| `Research` | a deep research run | budgets; a source is recorded before what rests on it; the report is verified |
| `Terminal`, `Roster` | feed, agents and commands; the list of agents | queued is what waits; the cursor and the keyboard are never lost |
| `Composer`, `Browser` | drafts with late loads and completions; transcript pages | what was cancelled, or differs when its files arrive, is not sent; pages fit together |
| `Streams`, `PlanDock`, `EvalScreen` | streams of entries, the plan dock, the evaluation screen | unread counts, places, caches and rows |
| `EvalJob`, `ResultsLibrary` | the evaluation page: jobs and results | one job at a time, told to the end; lists and reports as new as asked for, whichever analysis ends last |
| `Attempt`, `Trial`, `Grading`, `Timing` | an attempt, an interaction trial, its grading, the timing of a trace | publishes what is final; grades the first boundary; blames the right party; accounts for all time |

What the last column leaves out, because the code does not give it:

- Replay. ToolStart and sendOrder ignore the error of await (`player.go:556`,
  `:586`): once a context ends, a tool starts or a message is sent ahead of
  earlier points and nothing is reported. OrderOrReport exempts these points
  (`cut`); ActsInPlace, which does not, does not hold.
- LanguageServer. A pull that is refused, is not full or is cancelled in time
  leaves the server up and the query waits for a publication; changes are
  announced only to a server that registered for them. What it was not told of
  (`untold`) no property promises.
- ResultsLibrary. Analyses run side by side, one for each stamp that was asked
  for, and each stores its report when it ends: an older one may overwrite a newer,
  and one may store after its run was renamed or deleted. A reader who asks for
  the newer stamp then finds the older and analyses again, which is why
  ReportsAreCurrent holds. That a request reads the stamp and looks up the analysis
  is one step of the model. A scan does not fail: the callback of `discover`
  returns no error (`index.go:101`), so WalkDir has none to return.
- WriteCheck. A server may make room between the two lookups of a check; the
  all-clear then is that of another (EveryAllClearIsSeen does not hold).
- Composer. A draft that is edited and restored while its files load is sent, as
  only its text is compared (`attachments.go:43`).
- FileMerge. The limits of `locateQuote` are constants: a line that occurs more
  often than `Common` casts no vote, and `Tried` offsets are tried. A rival that
  is missed for either may be the better place: of a merge, OnePlaceOnly compares
  offsets by their votes, as the code does.

Their theorems:

| Module | Proves about |
| --- | --- |
| `ComponentProofs` | `Projection`, `Exchange`, `LanguageServer`, `Replay` |
| `ScreenProofs` | `Browser`, `EvalJob`, `ResultsLibrary`, `Terminal` |
| `MCComponentsProofs` | the instances of `MCComponents`, to which it carries what the two prove |

The composition is by abstraction. `Conversation` implements `ExecutionFence`
(the property FencesExecution, checked and proved), and `SessionControl` uses
`ExecutionFence` where the session calls the controller; its fairness assumption
about agents is what `Conversation` shows as liveness. In the same way
`LedgerReplay` stands for the ledger to whoever reads the log, and `Dispatcher`
asks of the ledger no more than which work is live, and which events pend.

`MCSession` and `MCComponents` have a variable `focus`: it picks one component
at the start, and the others stay in their initial states. That is not a
composition: it asks the questions of several components in one run. In
`MCSession` each part has variables of its own, so fairness can be stated for all
of them (a part that is not in focus has nothing to do). In `MCComponents` the
components share the variables `x1` ... `x18`, each naming as many as it needs;
what it leaves over is 0. A component may have two instances there, with other
bounds: the research run one of breadth and one of depth, the recorder one of a
round of review and one of pauses, stops and failures, the composer one that
mentions two files and one that mentions a file, takes it back and mentions it again.

Definitions named as faulty variants (`...Silently`, `...Anyway`, and so on) are
not used by any specification. Each is a plausible bug in one definition, put in
its place to see that a property notices.

### WorkStore

State: `stepPlan`, `stepStatus`, `stepCriteria`, `reserved` (the maps of Store),
`works`, `submissions`, `audits` (records), `emitted` (the events of the last
operation). One action per public operation, each with the guards in the order
of the code and all it changes: a submission of a repair, for instance, moves
the repair, the original, the chain and the steps at once. Ids are values of
finite sets; the code mints increasing numbers, the model takes a fresh one.
Texts, findings, briefs and evidence carry no decision and are left out.
The target revision a request quotes is not an input: a stale request is refused
and changes nothing, and RevisionFences says that quoting is enough.

*ReservationExact* (a step is reserved by exactly the live work that completes
it), *StepsAreHonest* (a step shows the work on it, and keeps its status and its
requirements while it is under review), *ReviewCycle* (an implementation's state
and its live audits and repairs agree), *ReviewEarned* (accepted work passed an
audit of its latest submission by somebody who contributed nothing to it), and
of every step: *EveryStepAccounted* (what is settled is final, revisions move,
whoever must act next hears of it) and *WorkObeysMachine*: works and steps move as
the machines allow against which the recorder checks traces (`workMachine`,
`stepMachine`), with one exception that the property names. A step that its
assignee reported ready for review may be reported blocked (`TakenBack`,
`work/progress.go:324`); `stepMachine` has no such move.

### WorkLedger and LedgerReplay

A mutation advances the versions of some records and appends events. They are
published one by one; only the last carries the change. The dispatcher sees
events of finished mutations only. A failed publication ends it all. The
dispatcher's loop, its coalesced wakeup (a channel of one), its timer, and
acknowledgements are separate processes. *ReplayIsAtomic* is the refinement: a
replay of the log sees each mutation whole, one mutation behind at most, and
freezes at the first failure. *PublicationHolds* relates the log, the store and
the dispatcher; *EveryEventHandled* is its liveness.

### Dispatcher

`pc` is where the dispatcher's goroutine is between the points where it takes a
lock; agents submit, cancel, consume and leave in between. Events carry their
ids, so those pending are a set. *DispatchIsTidy*: the owner of a work hears at
most once that its assignee failed, whichever of three paths notices first, and
no auditor the workflow hired idles. *InterruptionForgets*: what an interruption
ended is never spoken of again. *DispatchSettles*: failures and revocations are
told and submissions get their audit, in the end.

### Conversation and ExecutionFence

`op` is the request that holds the emission lock; a request is split into the
steps between which the code gives up the state lock (`emitLocked`): creation
before and after AgentStarted is published, a delivery before and after its
message is published, the drain of a mailbox message by message. Everything
that needs the state lock only (Interrupt, StopAgent, the close) may come in
between. An agent's loop is a phase and three controls (`interrupt`, `stop`,
`quiesced`); a model call and its tools are the phase `working`, which can take
joining messages, send, reply, fail or end at any time. `captured` says whether
the log accepts events; a refused one cancels the conversation (`emit`). A refused
acknowledgement (`Consumed`) leaves the receipt recorded, gives the lock up and
ends the agent, with what else it had taken still in its hands. A
message is routed, published and delivered before the next is, so the order of a
mailbox is the order of the ids and the mailbox is a set.

*InputAccounted*: each routed message is in exactly one place until it has its
one receipt; fence and agents' interruptions agree at every moment, creation
included; a finished interruption leaves no input but late failure reports.
*ReceiptsAreFinal*: also of a message whose acknowledgement was refused, and what
an agent took is taken by no other (`TakenOnce`). *FencesExecution*: the refinement. *CloseSettlesMail*: a
finished close leaves no queued message. *ConversationEnds*: interruptions
settle and a close completes.

### SessionControl

The gate comes first, with variables, actions and a specification (`GateSpec`)
of its own: one action per method, and a channel is "open", "closed" or "panic"
(closed twice). The session then has one action per stage of
`finishInterruption`, `Send` and `finalize`, so that the three interleave with
each other, with operations of agents and with a failure of the log.

*ControlHolds*: the gate's channels are exact and its leases revoked; a finished
interruption means all fences stand and nothing is at work, a failed one never
reopens the gate; no fence is left behind by a refused Send; the ledger is
settled when nobody else runs; a closed session is quiet. *RequestsComplete*:
neither Interrupt nor Close waits for ever.

### EventLog

Publishers, one writer, timers, a flush, a finish, a subscriber. A process that
sleeps on a wake channel is in `asleep` or `dozing` until the channel is closed,
so that a missing wakeup would show. A write appends a line to `disk`, whole or
torn, and only then is committed; the store's failure is visible before the
uncommitted tail is removed, and the removal may fail. `Archive` is what
`OpenJSONL` makes of the file as it is now, so that every state is a crash.

*AnswersAreTrue* (what publishers, flush and finish are told, the quota),
*ArchiveKeepsPrefix* (a crash keeps every visible record and at most one more),
*LogAnswers* (nothing becomes visible after a failure; everybody is answered).

## Runs

| Run | Instance | States | Shows |
| --- | --- | --- | --- |
| `review` | 3 workers, 5 works, 2 submissions, 2 audits | 272 785 | two full rounds of submission, audit, repair, with cancellation and reports anywhere; also the inductive invariant of the proofs |
| `planning` | 2 plans, 2 steps, 3 works, 2 criteria | 512 741 | reservations and requirements under competing assignments and plan edits |
| `interruption` | 2 agents, 2 messages, log may fail | 1 949 660 | mail and fences under repeated interruption and release |
| `closing` | 2 agents, 1 message, interrupt, stop, cancel and close | 420 946 | liveness of interruption and close |
| `dispatch` | 2 works, 1 worker, 1 auditor, four scenarios | 148 482 | deliveries, failures, audits, one interruption |
| `session` | Send and 2 operations with a limit of 2; 2 records, 3 events; 2 publishers, a quota of 1; an edit, a query, a death | 211 132 | the fences of a session, publication, the log, and their liveness |
| `components` | see `MCComponents` | 4 338 076 | the invariant of each component that stands by itself |
| five more | | | each refutes a statement of the sources, see Findings |

Why these bounds are enough to meet the interesting cases. `review`: the second
round is where a chain of submissions, a repeated contributor and a superseded
verdict first exist. `planning`: two plans and two steps let scopes overlap,
differ and cross. `interruption` and `closing`: a parent and a child are the
smallest conversation in which a reply and a failure travel, `MaxMessages`
bounds only what is routed by choice, and replies and failures under way are
never blocked by it. `dispatch`: the scenarios are two works that a worker
leaves, one that an interruption meets, and one whose submission the workflow
has audited, interrupted or left. `session`: two operations and a Send under a
limit of two meet the limit, and make "the last lease" different from "a lease";
a mutation of two events is the smallest that can be torn, and a third event is
the next mutation and the wakeup it must not lose; two publishers under a quota
of one make one wait for room, one queued and one refused possible.
`components`: every instance has two of whatever competes (agents, tasks,
readers, servers, plans) or one and its environment, and a bound (`Max...`) on
each thing that is done by choice. The bounds of the eight components that are proved
about are constants of the module (`Loop...`, `Replay...`, `Lsp...`, `Talk...`,
`Reader...`, `Eval...`, `Library...`, `View...`), given in `MCComponents.cfg`;
the others are written where the component is instantiated. An exchange has
batches of two calls with ids that may be repeated, twice interrupted; a replay
has recordings of three points, by a user and two agents (the constraint
`ReplayUpToNames` leaves out those that only exchange the names of the agents; the
theorem does not); a language server sees
an edit, two queries and a death; the terminal is one event behind; a reader
opens two views of agents with up to two calls; a job has a task, and a buffer
of three events is full when one more is due; two lists, a change and two readers
of a report overlap, so that an analysis is replaced by a newer one while both
run. These are small, because what
larger ones could show is proved: no theorem bounds them.
Interruption, release and failure may repeat without bound in the core.

The budgets of a research run bind: in `Inquiry` two scouts compete for calls,
tokens, searches and room for records; in `Deepening` one scout has two fetches
for three pages, room for one source of two, and a second round after the first
is reconciled, with claims observed and inferred, and still a complete report is
among the outcomes. In `Controlled` a session of one turn has two of its agents
paused, stopped or failed while messages wait for them.

Runs that do not check for deadlock are of systems that rightly stop: no ids
left, a closed session, nobody asking anything.

### Fairness

- `WorkLedger`: the log answers each publication, the dispatcher's goroutine
  runs. No mutation, timer tick, receipt or retirement is obliged.
- `Dispatcher`: its goroutine runs, and the Go select does not pass over a ready
  case for ever (hence strong fairness for the wakeup and for receipts and
  exits); an operation of an agent ends; an interruption under way goes on.
- `Conversation`: each agent's goroutine runs; the request under way goes on;
  the goroutine of `New` runs; an exchange that is asked to end by a control
  returns, which is what cooperative cancellation of model calls and tools
  means (a tool that ignores its context does delay an interruption, as the
  comment of `harness.Interrupt` says). Models are not obliged to answer, and
  nobody to make a request.
- `SessionControl`: the goroutines of Interrupt, Send and Close run; an
  operation whose context is cancelled ends; agents leave when the controller
  is fenced or closed. The last is ConversationEnds of Conversation.
- `EventLog`: publishers, the writer, timers, flush, finish and the subscriber
  run. A write may hang, but its budget expires.
- `LanguageServer`: the manager's goroutines and transactions run, each of whose
  waits has a timeout. The server itself owes nothing, its death included.

## Proofs

TLAPS proves, for every value of the constants:

| Module | Theorems |
| --- | --- |
| `WorkStoreProofs` | `TypeCorrect`, `ReservationsExact`, `StepsAlwaysHonest`, `CycleAlwaysAgrees`, `ReviewAlwaysEarned`, `StepsAlwaysAccounted`, `WorkAlwaysObeys`, from `LedgerInvariant` and `StoreInvariant` |
| `WorkLedgerProofs` | `PublicationAlwaysHolds`, `ReplayAlwaysAtomic` (the refinement of LedgerReplay) |
| `DispatcherProofs` | `DispatchAlwaysTidy`, `InterruptionAlwaysForgets`, from `DispatchInvariant` |
| `ConversationProofs` | `InputAlwaysAccounted`, `CloseAlwaysSettlesMail`, `ReceiptsAlwaysFinal`, `ExecutionAlwaysFenced` (the refinement of ExecutionFence), from `ConversationInvariant` |
| `SessionProofs` | the gate: `GateInvariant`, `SessionUsesGate`; the control: `GateAlwaysHolds`, `StopAlwaysHolds`, `FenceAlwaysAccounted`, `AlwaysSettlesAlone`, `ClosedAlwaysQuiet`, `ControlAlwaysHolds`, `ControlInSession`; the ledger: `PublicationInSession`, `ReplayInSession`; the log: `AnswersAlwaysTrue`, `ArchiveAlwaysKeepsPrefix`, `FailureAlwaysFreezes` |
| `ComponentProofs` | of each component for itself: `ViewsAlwaysFit`, `CallsAreAnswered`, `LspHolds`; and of the replay the steps of the proof |
| `ScreenProofs` | likewise: `PagesAlwaysFit`, `JobsStayHonest`, `LibraryIsAlwaysCurrent`; and of the terminal the steps of the proof |
| `MCComponentsProofs` | of the instances that the run explores: `ViewsFitAlways`, `EveryCallIsAnswered`, `AnswersAreAlwaysFresh`, `ResyncAlwaysConfirms`, `ReplayKeepsOrder`, `PagesFitAlways`, `JobsAreAlwaysHonest`, `LibraryStaysCurrent`, `QueuedIsAlwaysWhatWaits` |

Each invariant was first checked by TLC, on the instances of the runs, and each
proof has the same shape: one lemma per action (or per family of actions) says
that it keeps the invariant, part by part; the theorem collects them. Where an
induction over numbers is needed, a least counterexample takes its place: `<` is
well founded on Nat (NatLessThanWellFounded), so a set of numbers that is not
empty has a least one (WFMin), and that one leads to a contradiction.

*The ledger.* ReservationExact is not inductive. A verdict releases the scope of
the audited implementation, and a cancelled audit returns its parent to
needs_check, so one must know that the parent of a live audit is an
implementation under check and that it has no other live audit. `LedgerInv` adds
this: `Kin` (audits and repairs are children of implementations, and nothing
else has a parent) and `OneAudit`.

*The review cycle.* `StoreInv` adds what the cycle needs: a live repair is the
one its implementation records, for the verdict it records (`OneRepair`,
`CycleRecord`); whatever is named was minted, so that a fresh id is named
nowhere (`Minted`); audits and repairs stay within the scope of their
implementation; an auditor contributed nothing to what it judges
(`AuditorsApart`). Who contributed is a chain of submissions of any length; it is
the least set closed under what a submission supersedes, so that no induction
over data is needed: what is closed before a step is closed after it. The
operations are many and change much, so the proof has two layers: a lemma per
operation says what it does to the records, field by field (its *effect*), and
the parts of the invariant, the action properties and the recorder's machines
are proved from the disjunction of the effects, once per effect and part.

*Publication.* `WorkLedgerInv` says what the queue of events, the log and the
last mutation have to do with each other: ids are consecutive (`NumberedInv`),
what is published next belongs to the mutation under way (`StagedInv`), how long
the log is (`LoggedInv`), what a replay of it lacks (`LaggingInv`), and how far
the dispatcher has come (`DispatchedInv`, `BatchedInv`). The refinement follows:
the last publication of a mutation is LedgerReplay's Show, a failure its Freeze,
all others stutter. `SessionProofs` instantiates the module for the composition
and carries both results over.

*The dispatcher.* `DispatchInv` says what the dispatcher holds at each of its
points (`Placed`), that a work is instructed once (`InstructedOnce`) and
reported once (`Reported`), and that all that is live, pending or being told
dates from after the last interruption (`Contemporary`), which rests on the
interruption being alone with the ledger (`SettlesAlone`).

*The conversation.* `ConversationInv` says where the request under way left the
agent it is about (`OpFits`), that the fence stands from the request of an
interruption to its release (`Held`), and that messages are with their recipient
who can still be given them (`Addressed`). Steps of one kind share a lemma: what
an agent turns to by itself, what it takes, what is routed. For the refinement
each step is an action of ExecutionFence or leaves its two variables alone. That
receipts are final needs one thing more, which holds whether or not the log
accepts events (`Undecided`).

*The gate.* A channel can be closed twice only if a lease ends while it is
closed already, so the invariant ties each channel to the set of leases.

*The session.* ControlHolds relates the end of an interruption to the fences, and
is not inductive: how far the interruption, the Send and the Close have come
decides what the fences are. `SessionInv` records it: `StopInv` says what each
stage of the interruption has achieved, `SendInv` that the controller is fenced
without a recorded interruption exactly while a Send that retired one can still
restore it, `CloseInv` the same for the close. That the session calls nothing
but the gate's methods (`SessionStepsGate`) makes the gate's invariant its own.

*The log.* `LogInv`: until the log fails, its jobs are exactly what is queued and
what the writer has at hand, each once, and none of them is visible (`JobsInv`);
what the writer is about to write is not visible and what it has stored is
(`WriterInv`); the store's failure precedes the log's, and only the last record
is terminal (`EndInv`); what a flush waits for is ahead of what came later
(`FlushInv`); the file is what is visible and at most one line more (`DiskInv`).
That a crash leaves a file that opens follows from the last: the last line that
was ended is that of the last visible record, or one further.

*The exchange.* A history is `Answered`, every response followed by the results
of its calls, or `Open` at its last response, answered up to a number of calls;
`LoopInv` says in which phase it is which, and that no result belongs to no
response (`Owned`). What ends an exchange early (an interruption, a stop, a cut
of the output) completes what is open.

*The language server.* `LspInv` ties the version of a document to its text: what
the server computed, sent or has in its inbox for the current version is of the
current text (`Belongs`), and in a transaction that resent the document it has
seen what the scan found (`Caught`) or is told first (`Told`). One request is
under way, and its one report answers it (`Asks`). A server that died, and one
whose manager closes, owe nothing, so `InTime` holds of one that is up.

*The views.* `ViewsInv` says of each agent that its outputs and its history name
each other (`Fits`), of work that it is bound to one agent, of research that its
agent is registered, of commentary that its response is complete. That pages,
read backwards, show everything once follows for a history of any length.

*Replay.* `PlayerInv`: whatever is before the next gate was passed; nobody acts
at a gate before all ahead of it passed; what was acted on lies behind its actor
(`Behind`). A point acted on ahead of an awaited one that was not passed would
contradict the last.

*The pages of a transcript.* `BrowserInv`: what is shown is a stretch without a
gap (`Stretch`), and among the reads under way, any number of which are left over
from earlier views, at most one is current; it asks for what precedes the first
shown (`ReadsInv`).

*Jobs.* `JobInv` says of each job that its place, its status, its tasks and its
events agree (`Good`), that one runs at a time (`Alone`), to which stage a
container belongs (`BoxesInv`), and that a follower that is to be told of the end
has read past it (`ClientInv`).

*The results.* `LibraryInv`: what a request knew when it was made is still so
(`Heard`); a list whose scan reflects the generation shows all that was announced
(`Shows`), and one begun after a forced request the results it knew (`Timely`);
a request that changes a run found it at rest (`Judged`). `ReportInv` says the
same of the stamps of reports.

*The terminal.* The set of queued messages lags behind the session by what the
feed holds. `Corrected` says that this set, changed by what the feed will tell,
is exactly what waits: a message that waits is in it or announced, and its
clearing is not; one that does not wait is not in it, or its clearing follows.
Each operation of the session appends events that keep this so
(as `DiscardsKeeps` says of a mailbox that is emptied), and each event taken
moves from the feed into the set. A message is in one mailbox (`MailPlaced`). An
interruption empties the mailboxes of all agents, in any order; that what it
publishes (`Published`, defined by recursion on the agents) clears exactly what
was in them is shown by a least counterexample.

*From the components to the run.* MCComponents instantiates the components
directly; for `MCComponentsProofs` they are instances within `ComponentProofs`
and `ScreenProofs`. A lemma per component (`...IsProved`) shows the two to be the
same. The focus never changes, so that "if the component is in focus, its
invariant holds" is inductive for the whole.

Assumptions, all evaluated by TLC in the runs: `StoreAssumption` (what is used
for "no id" is not an id; kinds and statuses are the code's; bounds are numbers),
`ConversationAssumption` and `DispatcherAssumption` (what callers may ask;
works are finitely many numbers, disjoint from the marks for none),
`AdmissionAssumption` (the limit is a number), `SessionAssumption` (Send is an
operation), `LogAssumption` (the quota is a number, the record session_closed is
the log's own), and for the components `ViewsAssumption` (there is an agent, and
"none" is not one), `ReaderAssumption` (a page holds something), `JobAssumption`
(the followed job is a job; how many tasks it has and how many events it keeps
are numbers), `LibraryAssumption` (the marks "refresher" and "nobody" are no
requests), `ScreenAssumption` (the manager is one of finitely many agents).

Only model-checked:

- liveness (ConversationEnds, DispatchSettles, RequestsComplete,
  EveryEventHandled, the second half of LogAnswers, CloseEnds): fairness and
  ENABLED are out of the prover's reach;
- what a recursive computation yields for every input (the merge of FileMerge,
  the matching of Diff, the graph that Staff reads from the log): it needs
  induction over data;
- ResearchIsSound: that a run goes on until it is over is stated with ENABLED;
- ScreensHold, EditsAreHonest, EvaluationHolds, ChangesAreChecked (`Workspaces`,
  `SoloFinish`, `WriteCheck`, `Experiments`) and SessionsHold (`Startup`,
  `Recorder`, `Staff`), each the conjunction of what several components promise, of which no inductive
  invariant has been stated. EditsAreHonest and what Staff promises rest on the
  recursive functions just named.

## Findings

The runs that expect a violation:

- `capture_during_creation`: if the log refuses AgentStarted while an
  interruption is requested, the registered agent never runs and never settles;
  the interruption and, through it, Session.Close wait for ever.
- `late_loop`: a creation that is publishing when the conversation closes starts
  its loop after Done is closed. (`ClosedRunsNothing` counts an agent that is
  registered and not started as not running, as the wait group does.)
- `replay_stall`: a replay that stalls just as the caller registers finds no gate
  to skip, and indexes an empty slice.
- `unrun_calls`: the calls of a concurrent batch are recorded as never run after
  an interruption, although they ran.
- `idle_means_waiting`: `/agents` overtaking a queued event leaves an agent shown
  as working for ever.

Observations that have a definition and no run of their own:

- A delivered brief or experiment completes its steps with no audit, against
  `work/readmodel.go` (StepsCompleteOnlyByAudit). The recorder's machine of steps
  has no move from ready_for_review to blocked (`harness/machine/rules.go:133`),
  which `work/progress.go:324` makes: WorkObeysMachine names it as its exception,
  and StepsObeyMachine, without the exception, does not hold.
- An agent's failure is routed to its parent although the interruption "fences
  creation and routing" (FencesRouting). An agent with a reply to send when a
  close is requested fails, although nothing was stopped (CleanCloseIsClean).
- What was written before a language server's first scan is not announced to it
  as a change, and of later changes only those it watches are, so an answer labelled
  synchronized may rest on less than the scan saw, against `lsp/workspace.go:15` (ScanCatchesChanges; ResyncConfirms states
  what does hold).
- A write check whose server makes room for another between its two lookups asks
  a new server, whose all-clear need not be of the change (EveryAllClearIsSeen).
- A gap is "time an agent was running but neither calling the model nor a tool";
  of an agent that takes several steps at once that is not so (GapsAreTheHarness;
  GapsBetweenSteps states what does hold). A deadline that cuts a trial right
  after the intervention, or in the middle of a batch with a control call, is put
  down to the harness; HarnessNotBlamed is about trials that were not cut (Grading).
- An edit that is undone while files load does not keep the draft from being sent,
  against `internal/tui/attachments.go:31` (Composer).
- A replayed tool whose context ended while it waited starts out of its place, with
  no divergence, against the comment of sequence (ActsInPlace).
- The recorder's rule about writes flags a write whose work was cancelled while
  it ran. The failure of an agent reaches its parent after the agent has ended, and
  may wake a settled session. Settled may hold although a message the agent consumed in the middle of
  an exchange was never answered, and a ledger notice not yet sent may wake a
  settled session (Recorder).
- The quiet window of an attempt restarts at every event, that of the server's
  metrics included, so a window of five seconds or more never ends while metrics
  come every five (`eval/runner.go:365`, Attempt leaves the sampler out).
- The evaluation runs one task at a time today; EvalScreen models several
  workers, as `eval/progress.go:25` allows.
- The dock: the next plan while focused may be a collapsed one, details of a
  removed step become another's, and a reordering keeps the scroll. The list of
  agents: folds keep the keys after a click elsewhere (`agent_stacks.go:335`),
  `completedFocused` stays true so that a watched agent that finishes is hidden
  (`stream_layout.go:109`), and a click uses the layout as recomputed.
- An analysis in flight while its run is renamed caches the old name; a run may be
  listed as interrupted between the end of its job and the invalidation
  (ResultsLibrary).
- Re-reading the work before a result is recorded is redundant, as admission
  makes an agent's assignment its only one (Experiments). A refused AgentStarted
  leaves an agent recorded that never runs, and a stopped agent stays registered
  (Staff).

## Not modelled

- `harness/httpapi` and its child processes, providers and messages, prompts,
  content, identity, key decoding, markdown and rendering, option parsing: input,
  output and conversions without a protocol of their own.
- Pausing of one agent (but for what the recorder makes of it), the order of sends
  (`WithSendOrder`), routes between roles in Conversation, inspection: they restrict
  or observe what it allows.
- Lost wakeups of an agent that waits for its mailbox or for a transition of its
  controls: in Conversation a wait is an action that becomes enabled, so a channel
  that is closed too early or not at all does not show. (`EventLog` and
  `WorkLedger` do model theirs.)
- Compaction of threads and counting of tokens; in Conversation an exchange is
  one phase, in Exchange it is modelled for itself.
- The shell, web tools and PDFs; positions and presets of language servers;
  ranking of pages in research.
- Workspaces: rewriting of paths, writes outside the workspace, the tools for
  trials, method files. SoloFinish: a request for a tester that arrives in the
  middle of an exchange. Experiments: revisions, proposed steps, method files,
  read access to runs. Roster: activity of tools and outputs. Terminal: the
  freezing of the dock, trimming of evaluation activity.

## What is left

The core is modelled, checked and proved but for liveness, and so are the eight
components whose invariants are a matter of order: messages, reads, requests and
servers that answer late. Of those that remain, `Startup`, `Experiments` and `Workspaces` have no recursion
over data in what they promise, and their inductive invariants are the next to
state: who holds what was acquired, which measurement belongs to which
prediction, which change is in which copy. They are conjuncts of SessionsHold and
ChangesAreChecked, which would be divided by component first. `Composer` and `Roster` come after them. The order of sends and
the routes between roles, which `Conversation` leaves out, would restrict its
steps and leave its theorems as they are.
