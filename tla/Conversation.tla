---------------------------- MODULE Conversation ----------------------------
(***************************************************************************)
(* The controller of a conversation and the loops of its agents            *)
(* (conversation.Controller, agent.Agent, inbox.Inbox).                    *)
(*                                                                         *)
(* Whatever routes, acknowledges or creates holds the emission lock, and   *)
(* gives up the state lock while it publishes; the request that holds it   *)
(* is op.  Interruption, stop and close requests need the state lock only, *)
(* and the agents' loops run on their own, so all of these come in between *)
(* the steps of a request.                                                 *)
(*                                                                         *)
(* An agent's model calls and tools are the phase "working".  Messages for *)
(* the user have no mailbox and no fate to follow: they are not recorded.  *)
(* Pausing is left out.  Messages are routed, published and delivered one  *)
(* at a time, so the order of a mailbox is that of the ids: it is a set.   *)
(***************************************************************************)
EXTENDS Integers, Sequences

CONSTANTS
  MaxAgents,         \* bounds the agents created
  MaxMessages,       \* bounds the messages routed to agents
  Asked,             \* bounds the requests made: see Requests
  HostKind,          \* the kinds of message the application delivers
  CaptureMayFail     \* whether the event log may fail

ASSUME ConversationAssumption ==
  /\ MaxAgents \in Nat /\ MaxMessages \in Nat
  /\ Asked \subseteq {"interrupt", "stop", "close", "cancel"}
  /\ HostKind \subseteq {"assignment", "notification", "observation"}
  /\ CaptureMayFail \in BOOLEAN

VARIABLES
  agent,       \* each agent's loop and controls
  inbox,       \* each agent's mailbox
  mail,        \* the messages routed so far: recipient, kind and receipt
  op,          \* the request that holds the emission lock
  fence,       \* Controller.interrupted
  attempt,     \* Controller.interruption: "none", "waiting" or "done"
  closing,     \* Controller.closing
  quiesce,     \* a close was requested
  cancelled,   \* the conversation's context is cancelled
  watch,       \* the goroutine that closes: its stage and whom it has yet to ask
  captured     \* the log accepts events

controlVars == <<fence, attempt>>
closeVars == <<closing, quiesce, watch>>
vars == <<agent, inbox, mail, op, controlVars, closeVars, cancelled, captured>>

Agent == 1..MaxAgents
User == 0
\* A reply under way and the report of a failure are not held up by the bound.
Message == 1..MaxMessages + 2 * MaxAgents
Room == Len(mail) < MaxMessages

Phase == {"absent",                                    \* not created
          "registered",                                \* its loop is not started
          "ready",                                     \* between exchanges
          "waiting", "starting",                       \* Inbox.Wait; consuming
          "working", "joining", "sending", "replying", \* an exchange
          "settling",                                  \* an interruption
          "ending", "terminal", "exiting",             \* Run returns
          "finishing", "gone"}                         \* Controller.finish

Executing == {"starting", "working", "joining", "sending", "replying"}
Over == {"terminal", "exiting", "finishing", "gone"}

Absent == [phase |-> "absent", parent |-> User, interrupt |-> "none",
           stop |-> FALSE, quiesced |-> FALSE, exit |-> "none", held |-> {}]

Free == [name |-> "free", agent |-> User, msg |-> 0, rest |-> {}]

Registered == {a \in Agent : agent[a].phase # "absent"}
Closed == closing \/ cancelled
\* The context of an exchange is done; that of a whole loop.
Cut(a) == agent[a].interrupt # "none"
Dead(a) == cancelled \/ agent[a].stop
\* activeLocked
Active(a) == a \in {User} \cup {b \in Registered : agent[b].phase \notin Over /\ ~Dead(b)}

\* What a refused publication does: emit cancels the conversation.
Reported == cancelled' = (cancelled \/ ~captured)

Begun(name, a, m, rest) == op' = [name |-> name, agent |-> a, msg |-> m, rest |-> rest]
Holding(name) == op.name = name
Done == op' = Free

\* The message that came first.
Oldest(ms) == CHOOSE m \in ms : \A n \in ms : m <= n

\* A message takes the next id and is queued.
Queued(to, kind) == mail' = Append(mail, [to |-> to, kind |-> kind, receipt |-> "queued"])
Settled(m, receipt) == mail' = [mail EXCEPT ![m].receipt = receipt]

----------------------------------------------------------------------------
(* The controls of an agent.                                                *)

\* RequestInterrupt, on the record of an agent.  An exchange begins with no
\* interruption, so the context of one under way is cancelled when it has one.
Interrupted(r) ==
  [r EXCEPT !.interrupt = IF r.phase \in Over THEN "settled"
                          ELSE IF @ = "none" THEN "pending" ELSE @]

\* ReleaseInterrupt
Released(r) == [r EXCEPT !.interrupt = IF @ = "settled" THEN "none" ELSE @]

\* What Run does after an exchange that ended for the given reason.
AfterExchange(r, why, dead) ==
  CASE dead -> [r EXCEPT !.phase = "ending", !.exit = "cancelled"]
    [] ~dead /\ r.interrupt # "none" -> [r EXCEPT !.phase = "settling"]
    [] ~dead /\ r.interrupt = "none" /\ why = "ended" -> [r EXCEPT !.phase = "ready"]
    [] OTHER -> [r EXCEPT !.phase = "ending", !.exit = why]

\* An agent at a checkpoint is asked nothing.
Unasked(a) == ~Cut(a) /\ ~agent[a].quiesced /\ ~Dead(a)

----------------------------------------------------------------------------
(* An agent's loop.                                                         *)

\* Faulty variant: a settled interruption holds the loop even of a closing agent.
BeginReleased(a) ==
  /\ agent[a].phase = "ready"
  /\ agent[a].interrupt # "settled" \/ Dead(a)
  /\ agent' = [agent EXCEPT ![a] =
       IF Dead(a) THEN [@ EXCEPT !.phase = "ending", !.exit = "cancelled"]
       ELSE IF @.quiesced THEN [@ EXCEPT !.phase = "ending", !.exit = "clean"]
       ELSE IF @.interrupt = "pending" THEN [@ EXCEPT !.phase = "settling"]
       ELSE [@ EXCEPT !.phase = "waiting"]]
  /\ UNCHANGED <<inbox, mail, op, controlVars, closeVars, cancelled, captured>>

\* beginExchange: closing comes before an interruption, and one that is settled
\* holds the loop until it is released.
BeginExchange(a) ==
  /\ agent[a].phase = "ready"
  /\ agent[a].interrupt # "settled" \/ agent[a].quiesced \/ Dead(a)
  /\ agent' = [agent EXCEPT ![a] =
       IF Dead(a) THEN [@ EXCEPT !.phase = "ending", !.exit = "cancelled"]
       ELSE IF @.quiesced THEN [@ EXCEPT !.phase = "ending", !.exit = "clean"]
       ELSE IF @.interrupt = "pending" THEN [@ EXCEPT !.phase = "settling"]
       ELSE [@ EXCEPT !.phase = "waiting"]]
  /\ UNCHANGED <<inbox, mail, op, controlVars, closeVars, cancelled, captured>>

\* waitInbox is woken by a control.
Woken(a) ==
  /\ agent[a].phase = "waiting" /\ ~Unasked(a)
  /\ agent' = [agent EXCEPT ![a] = AfterExchange(@, "clean", Dead(a))]
  /\ UNCHANGED <<inbox, mail, op, controlVars, closeVars, cancelled, captured>>

\* receive: the message that starts an exchange.  The checkpoint before it may have
\* passed when the agent is asked to leave; a cancelled context is seen.
Receive(a) ==
  /\ agent[a].phase = "waiting" /\ inbox[a] # {} /\ ~Cut(a) /\ ~Dead(a)
  /\ agent' = [agent EXCEPT ![a].phase = "starting", ![a].held = {Oldest(inbox[a])}]
  /\ inbox' = [inbox EXCEPT ![a] = @ \ {Oldest(@)}]
  /\ UNCHANGED <<mail, op, controlVars, closeVars, cancelled, captured>>

Joining(a) == {m \in inbox[a] : mail[m].kind # "assignment"}

\* Faulty variant: what is taken stays in the mailbox.
TakeCopies(a) ==
  /\ agent[a].phase = "working" /\ Joining(a) # {}
  /\ agent' = [agent EXCEPT ![a].phase = "joining", ![a].held = Joining(a)]
  /\ UNCHANGED <<inbox, mail, op, controlVars, closeVars, cancelled, captured>>

\* take: the messages that join it, whatever was asked since the checkpoint before.
\* An assignment waits for an exchange of its own.
Take(a) ==
  /\ agent[a].phase = "working" /\ Joining(a) # {}
  /\ agent' = [agent EXCEPT ![a].phase = "joining", ![a].held = Joining(a)]
  /\ inbox' = [inbox EXCEPT ![a] = @ \ Joining(a)]
  /\ UNCHANGED <<mail, op, controlVars, closeVars, cancelled, captured>>

\* consume reports the receipt (Controller.acknowledge), which is kept before it is published.
Consume(a) ==
  /\ agent[a].phase \in {"starting", "joining"} /\ Holding("free")
  /\ Settled(Oldest(agent[a].held), "consumed")
  /\ Begun("acknowledge", a, Oldest(agent[a].held), {})
  /\ UNCHANGED <<agent, inbox, controlVars, closeVars, cancelled, captured>>

\* Faulty variant: only the first of the messages taken is consumed.
ConsumedFirst ==
  /\ Holding("acknowledge")
  /\ agent' = [agent EXCEPT ![op.agent] =
       IF captured THEN [@ EXCEPT !.phase = "working"]
       ELSE [@ EXCEPT !.phase = "ending", !.exit = "uncaptured"]]
  /\ Reported /\ Done
  /\ UNCHANGED <<inbox, mail, controlVars, closeVars, captured>>

\* An observation by itself starts no work.  A receipt that is refused ends the agent, and the
\* lock is given up.
Consumed ==
  /\ Holding("acknowledge")
  /\ LET a == op.agent
         rest == agent[a].held \ {op.msg}
         r == [agent[a] EXCEPT !.held = rest]
     IN agent' = [agent EXCEPT ![a] =
          IF ~captured THEN [r EXCEPT !.phase = "ending", !.exit = "uncaptured"]
          ELSE IF rest # {} THEN r
          ELSE IF r.phase = "starting" /\ mail[op.msg].kind = "observation"
          THEN AfterExchange(r, "ended", Dead(a))
          ELSE [r EXCEPT !.phase = "working"]]
  /\ Reported /\ Done
  /\ UNCHANGED <<inbox, mail, controlVars, closeVars, captured>>

\* An exchange that yields, is not woken, is refused its next step by a control,
\* or fails by itself (a model call, a repeated tool call).
Return(a) ==
  /\ agent[a].phase = "working"
  /\ \E why \in {"ended", "failed"} \cup (IF agent[a].quiesced THEN {"clean"} ELSE {}) :
       agent' = [agent EXCEPT ![a] = AfterExchange(@, why, Dead(a))]
  /\ UNCHANGED <<inbox, mail, op, controlVars, closeVars, cancelled, captured>>

\* A response without tool calls passed the last checkpoint: only the reply check
\* is left before it is sent.
Reply(a) ==
  /\ agent[a].phase = "working" /\ Unasked(a) /\ (Room \/ agent[a].parent = User)
  /\ agent' = [agent EXCEPT ![a].phase = "replying"]
  /\ UNCHANGED <<inbox, mail, op, controlVars, closeVars, cancelled, captured>>

\* settleInterrupt: the history is completed and the interrupted state published.
Settle(a) ==
  /\ agent[a].phase = "settling" /\ captured
  /\ agent' = [agent EXCEPT ![a] =
       IF @.stop THEN [@ EXCEPT !.phase = "ending", !.exit = "cancelled"]
       ELSE [@ EXCEPT !.phase = "ready", !.interrupt = "settled"]]
  /\ UNCHANGED <<inbox, mail, op, controlVars, closeVars, cancelled, captured>>

\* A report is refused: the agent ends whatever it was doing.
ReportFails(a) ==
  /\ ~captured /\ agent[a].phase \in {"starting", "joining", "working", "settling"}
  /\ ~(Holding("acknowledge") /\ op.agent = a)
  /\ agent' = [agent EXCEPT ![a].phase = "ending", ![a].exit = "uncaptured"]
  /\ Reported
  /\ UNCHANGED <<inbox, mail, op, controlVars, closeVars, captured>>

\* Run's deferred calls: the terminal state, then whoever waits for an interruption.
Terminate(a) ==
  /\ agent[a].phase = "ending"
  /\ agent' = [agent EXCEPT ![a].phase = "terminal"]
  /\ Reported
  /\ UNCHANGED <<inbox, mail, op, controlVars, closeVars, captured>>
\* Faulty variant: an agent that ends leaves who waits for it waiting.
FinishSilently(a) ==
  /\ agent[a].phase = "terminal"
  /\ agent' = [agent EXCEPT ![a].phase = "exiting"]
  /\ UNCHANGED <<inbox, mail, op, controlVars, closeVars, cancelled, captured>>
FinishInterrupt(a) ==
  /\ agent[a].phase = "terminal"
  /\ agent' = [agent EXCEPT ![a].phase = "exiting",
                            ![a].interrupt = IF @ = "pending" THEN "settled" ELSE @]
  /\ UNCHANGED <<inbox, mail, op, controlVars, closeVars, cancelled, captured>>

----------------------------------------------------------------------------
(* The controller: creation and routing.                                    *)

\* Faulty variant: the fence is not consulted.
CreateUnfenced(a, parent) ==
  /\ Holding("free") /\ ~Closed
  /\ a \notin Registered /\ 1..(a - 1) \subseteq Registered /\ Active(parent)
  /\ agent' = [agent EXCEPT ![a].phase = "registered", ![a].parent = parent]
  /\ Begun("create", a, 0, {})
  /\ UNCHANGED <<inbox, mail, controlVars, closeVars, cancelled, captured>>

\* createLocked: the agent is registered before its AgentStarted event is
\* published, and its loop starts after.
CreateAgent(a, parent) ==
  /\ Holding("free") /\ ~Closed /\ ~fence
  /\ a \notin Registered /\ 1..(a - 1) \subseteq Registered /\ Active(parent)
  /\ agent' = [agent EXCEPT ![a].phase = "registered", ![a].parent = parent]
  /\ Begun("create", a, 0, {})
  /\ UNCHANGED <<inbox, mail, controlVars, closeVars, cancelled, captured>>
Created ==
  /\ Holding("create")
  /\ agent' = [agent EXCEPT ![op.agent] =
       IF captured THEN [@ EXCEPT !.phase = "ready"] ELSE [@ EXCEPT !.stop = TRUE]]
  /\ Reported /\ Done
  /\ UNCHANGED <<inbox, mail, controlVars, closeVars, captured>>

\* deliverLocked for the given sender, from the check of the recipient on.
Routing(from, to, kind) ==
  /\ Active(to)
  /\ IF to = User THEN Begun("deliver", from, 0, {}) /\ UNCHANGED mail
     ELSE /\ Queued(to, kind)
          /\ Begun("deliver", from, Len(mail) + 1, {})

\* SendContext: user input releases a settled interruption.
ReleaseInterruption ==
  IF fence
  THEN /\ fence' = FALSE /\ attempt' = "none"
       /\ agent' = [a \in Agent |-> Released(agent[a])]
  ELSE UNCHANGED <<controlVars, agent>>
Send(to) ==
  /\ Holding("free") /\ Room /\ ~Closed /\ attempt # "waiting"
  /\ Routing(User, to, "instruction")
  /\ ReleaseInterruption
  /\ UNCHANGED <<inbox, closeVars, cancelled, captured>>

\* Faulty variant: the application's messages pass the fence.
DeliverUnfenced(to, kind) ==
  /\ Holding("free") /\ Room /\ ~Closed
  /\ Routing(User, to, kind)
  /\ UNCHANGED <<agent, inbox, controlVars, closeVars, cancelled, captured>>

\* Deliver, for the application.
Deliver(to, kind) ==
  /\ Holding("free") /\ Room /\ ~fence /\ ~Closed
  /\ Routing(User, to, kind)
  /\ UNCHANGED <<agent, inbox, controlVars, closeVars, cancelled, captured>>

\* sender.Send: an agent's tool, or its reply.
Sendable(a, to) == ~Cut(a) /\ ~Dead(a) /\ ~fence /\ ~Closed /\ Active(to)
ToolSend(a, to) ==
  /\ agent[a].phase = "working" /\ Holding("free") /\ Room /\ Sendable(a, to)
  /\ Routing(a, to, "instruction")
  /\ agent' = [agent EXCEPT ![a].phase = "sending"]
  /\ UNCHANGED <<inbox, controlVars, closeVars, cancelled, captured>>
ReplySend(a) ==
  /\ agent[a].phase = "replying" /\ Holding("free") /\ Sendable(a, agent[a].parent)
  /\ Routing(a, agent[a].parent, "reply")
  /\ UNCHANGED <<agent, inbox, controlVars, closeVars, cancelled, captured>>
ReplyRefused(a) ==
  /\ agent[a].phase = "replying" /\ Holding("free") /\ ~Sendable(a, agent[a].parent)
  /\ agent' = [agent EXCEPT ![a] = AfterExchange(@, "refused", Dead(a))]
  /\ UNCHANGED <<inbox, mail, op, controlVars, closeVars, cancelled, captured>>

\* What the sender does once its message is published, or is not.
Answered(r, dead) ==
  CASE r.phase = "sending" -> [r EXCEPT !.phase = "working"]
    [] r.phase = "replying" -> AfterExchange(r, IF captured THEN "ended" ELSE "refused", dead)
    [] r.phase = "finishing" -> [r EXCEPT !.phase = "gone"]
    [] OTHER -> r

\* The message is put in its mailbox after it is published.
Delivered ==
  /\ Holding("deliver")
  /\ Reported /\ Done
  /\ inbox' = [a \in Agent |-> IF captured /\ op.msg # 0 /\ mail[op.msg].to = a
                                THEN inbox[a] \cup {op.msg} ELSE inbox[a]]
  /\ agent' = IF op.agent = User THEN agent
              ELSE [agent EXCEPT ![op.agent] =
                      Answered(@, cancelled \/ ~captured \/ @.stop)]
  /\ UNCHANGED <<mail, controlVars, closeVars, captured>>

----------------------------------------------------------------------------
(* The controller: the end of an agent.                                     *)

\* Faulty variant: what is left in the mailbox is dropped.
FinishDropping(a) ==
  /\ agent[a].phase = "exiting" /\ Holding("free")
  /\ agent' = [agent EXCEPT ![a].phase = "finishing", ![a].stop = TRUE]
  /\ inbox' = [inbox EXCEPT ![a] = {}]
  /\ Begun("finish", a, 0, {})
  /\ UNCHANGED <<mail, controlVars, closeVars, cancelled, captured>>

\* finish closes the mailbox and takes what is left in it.
Finish(a) ==
  /\ agent[a].phase = "exiting" /\ Holding("free")
  /\ agent' = [agent EXCEPT ![a].phase = "finishing", ![a].stop = TRUE]
  /\ inbox' = [inbox EXCEPT ![a] = {}]
  /\ Begun("finish", a, 0, inbox[a])
  /\ UNCHANGED <<mail, controlVars, closeVars, cancelled, captured>>

\* Each message left is undelivered, by finish or by an interruption.
Undeliver ==
  /\ op.name \in {"finish", "discard"} /\ op.rest # {}
  /\ \E m \in op.rest :
       /\ Settled(m, "undelivered")
       /\ op' = [op EXCEPT !.rest = @ \ {m}]
  /\ Reported
  /\ UNCHANGED <<agent, inbox, controlVars, closeVars, captured>>

\* A failure is told to the parent, unless the conversation is cancelled.
TellsParent(a) == agent[a].exit \in {"failed", "refused"} /\ ~cancelled /\ captured
Exited ==
  /\ Holding("finish") /\ op.rest = {}
  /\ LET a == op.agent IN
     IF TellsParent(a) /\ ~Closed /\ Active(agent[a].parent)
     THEN Routing(a, agent[a].parent, "failure") /\ UNCHANGED agent
     ELSE Done /\ agent' = [agent EXCEPT ![a].phase = "gone"] /\ UNCHANGED mail
  /\ Reported
  /\ UNCHANGED <<inbox, controlVars, closeVars, captured>>

----------------------------------------------------------------------------
(* The controller: interruption.                                            *)

\* Interrupt fences, and cancels every exchange before it returns.  Creation is
\* fenced, so the agents it waits for are all there are.
Interrupt ==
  /\ ~Closed /\ attempt = "none"
  /\ fence' = TRUE /\ attempt' = "waiting"
  /\ agent' = [a \in Agent |-> IF a \in Registered THEN Interrupted(agent[a]) ELSE agent[a]]
  /\ UNCHANGED <<inbox, mail, op, closeVars, cancelled, captured>>

\* Faulty variant: the agents are not waited for.
DiscardAtOnce ==
  /\ attempt = "waiting" /\ Holding("free")
  /\ inbox' = [a \in Agent |-> {}]
  /\ Begun("discard", User, 0, UNION {inbox[a] : a \in Agent})
  /\ UNCHANGED <<agent, mail, controlVars, closeVars, cancelled, captured>>

\* finishInterruption joins the deliveries that crossed the fence, and discards.
Discard ==
  /\ attempt = "waiting" /\ Holding("free")
  /\ \A a \in Registered : agent[a].interrupt = "settled"
  /\ inbox' = [a \in Agent |-> {}]
  /\ Begun("discard", User, 0, UNION {inbox[a] : a \in Agent})
  /\ UNCHANGED <<agent, mail, controlVars, closeVars, cancelled, captured>>
Discarded ==
  /\ Holding("discard") /\ op.rest = {}
  /\ attempt' = "done" /\ Done
  /\ UNCHANGED <<agent, inbox, mail, fence, closeVars, cancelled, captured>>

----------------------------------------------------------------------------
(* The controller: stop and close.                                          *)

StopAgent(a) ==
  /\ a \in Registered /\ ~agent[a].stop
  /\ agent' = [agent EXCEPT ![a].stop = TRUE]
  /\ UNCHANGED <<inbox, mail, op, controlVars, closeVars, cancelled, captured>>

\* Close asks; the owner's context, or a budget that runs out, cancels.
Close ==
  /\ ~quiesce /\ quiesce' = TRUE
  /\ UNCHANGED <<agent, inbox, mail, op, controlVars, closing, watch, cancelled, captured>>
Cancel ==
  /\ ~cancelled /\ cancelled' = TRUE
  /\ UNCHANGED <<agent, inbox, mail, op, controlVars, closeVars, captured>>

\* The goroutine of New takes the agents there are, and asks each to leave.
WatchWakes ==
  /\ watch.stage = "idle"
  /\ \E requested \in BOOLEAN :
       /\ IF requested THEN quiesce ELSE cancelled
       /\ watch' = [stage |-> "asking", requested |-> requested, left |-> Registered]
  /\ closing' = TRUE
  /\ UNCHANGED <<agent, inbox, mail, op, controlVars, quiesce, cancelled, captured>>
WatchAsks(a) ==
  /\ watch.stage = "asking" /\ a \in watch.left
  /\ watch' = [watch EXCEPT !.left = @ \ {a}]
  /\ agent' = [agent EXCEPT ![a] = IF watch.requested THEN [@ EXCEPT !.quiesced = TRUE]
                                   ELSE [@ EXCEPT !.stop = TRUE]]
  /\ UNCHANGED <<inbox, mail, op, controlVars, closing, quiesce, cancelled, captured>>
\* Faulty variant: a loop is counted out before its mailbox is settled.
WatchDoneEarly ==
  /\ watch.stage = "asking" /\ watch.left = {}
  /\ \A a \in Agent : agent[a].phase \in {"absent", "registered"} \cup Over
  /\ watch' = [watch EXCEPT !.stage = "done"]
  /\ UNCHANGED <<agent, inbox, mail, op, controlVars, closing, quiesce, cancelled, captured>>

\* The wait group counts the loops that were started.
WatchDone ==
  /\ watch.stage = "asking" /\ watch.left = {}
  /\ \A a \in Agent : agent[a].phase \in {"absent", "registered", "gone"}
  /\ watch' = [watch EXCEPT !.stage = "done"]
  /\ UNCHANGED <<agent, inbox, mail, op, controlVars, closing, quiesce, cancelled, captured>>

\* The event log fails for good.
CaptureFails ==
  /\ CaptureMayFail /\ captured /\ captured' = FALSE
  /\ UNCHANGED <<agent, inbox, mail, op, controlVars, closeVars, cancelled>>

----------------------------------------------------------------------------
Init ==
  /\ agent = [a \in Agent |-> Absent]
  /\ inbox = [a \in Agent |-> {}]
  /\ mail = <<>> /\ op = Free
  /\ fence = FALSE /\ attempt = "none"
  /\ closing = FALSE /\ quiesce = FALSE /\ cancelled = FALSE
  /\ watch = [stage |-> "idle", requested |-> FALSE, left |-> {}]
  /\ captured = TRUE

\* What the loop of an agent does by itself.
Loop(a) ==
  \/ BeginExchange(a) \/ Woken(a) \/ Receive(a) \/ Consume(a)
  \/ ReplySend(a) \/ ReplyRefused(a)
  \/ Settle(a) \/ ReportFails(a) \/ Terminate(a) \/ FinishInterrupt(a) \/ Finish(a)
\* What a model makes it do.
Model(a) == Take(a) \/ Return(a) \/ Reply(a) \/ \E to \in Agent \ {a} : ToolSend(a, to)

\* The request that holds the emission lock goes on.
Going == Consumed \/ Created \/ Delivered \/ Undeliver \/ Exited \/ Discarded

Requests ==
  \/ \E a \in Agent, parent \in Agent \cup {User} : CreateAgent(a, parent)
  \/ \E a \in Agent : Send(a)
  \/ \E a \in Agent, kind \in HostKind : Deliver(a, kind)
  \/ "interrupt" \in Asked /\ Interrupt
  \/ "stop" \in Asked /\ \E a \in Agent : StopAgent(a)
  \/ "close" \in Asked /\ Close
  \/ "cancel" \in Asked /\ Cancel

Watching == WatchWakes \/ WatchDone \/ \E a \in Agent : WatchAsks(a)

Next ==
  \/ \E a \in Agent : Loop(a) \/ Model(a)
  \/ Going \/ Discard \/ Requests \/ Watching \/ CaptureFails

\* Goroutines run, the log answers, and an exchange that is asked to end returns
\* (cancellation and closing are cooperative).  Nobody is obliged to make a request.
AskedReturn(a) == ~Unasked(a) /\ Return(a)
Fairness ==
  /\ \A a \in Agent : WF_vars(Loop(a)) /\ WF_vars(AskedReturn(a))
  /\ WF_vars(Going) /\ WF_vars(Discard) /\ WF_vars(Watching)

Spec == Init /\ [][Next]_vars /\ Fairness

----------------------------------------------------------------------------
(* What the conversation promises.                                          *)

AgentRecord ==
  [phase : Phase, parent : Agent \cup {User}, interrupt : {"none", "pending", "settled"},
   stop : BOOLEAN, quiesced : BOOLEAN,
   exit : {"none", "clean", "cancelled", "failed", "refused", "uncaptured"},
   held : SUBSET (1..Len(mail))]

TypeOK ==
  /\ mail \in Seq([to : Agent, kind : HostKind \cup {"instruction", "reply", "failure"},
                   receipt : {"queued", "consumed", "undelivered"}])
  /\ agent \in [Agent -> AgentRecord]
  /\ inbox \in [Agent -> SUBSET (1..Len(mail))]
  /\ op \in [name : {"free", "create", "deliver", "acknowledge", "finish", "discard"},
             agent : Agent \cup {User}, msg : 0..Len(mail), rest : SUBSET (1..Len(mail))]
  /\ fence \in BOOLEAN /\ attempt \in {"none", "waiting", "done"}
  /\ closing \in BOOLEAN /\ quiesce \in BOOLEAN /\ cancelled \in BOOLEAN
  /\ watch \in [stage : {"idle", "asking", "done"}, requested : BOOLEAN, left : SUBSET Agent]
  /\ captured \in BOOLEAN

\* A message that is queued for an agent is in exactly one place: being routed, in
\* the mailbox, taken by the agent, or about to be returned as undelivered; and a
\* message whose fate is settled is in none.  In particular an agent that is gone
\* has nothing left in its mailbox (deliverLocked, take, finish, finishInterruption).
Waits(m) == m \in inbox[mail[m].to]
Taken(m) == m \in agent[mail[m].to].held
Routed(m) == Holding("deliver") /\ op.msg = m
Returning(m) == m \in op.rest
Places(m) == (IF Waits(m) THEN 1 ELSE 0) + (IF Taken(m) THEN 1 ELSE 0)
             + (IF Routed(m) THEN 1 ELSE 0) + (IF Returning(m) THEN 1 ELSE 0)
Acknowledging(m) == Holding("acknowledge") /\ op.msg = m
NothingLost ==
  captured => \A m \in DOMAIN mail :
    Places(m) = IF mail[m].receipt = "queued" \/ Acknowledging(m) THEN 1 ELSE 0

\* Whether or not the log accepts events: what waits in a mailbox, what is routed to it
\* and what is to be returned is undecided, and is there once.
Undecided ==
  /\ \A a \in Agent : \A m \in inbox[a] :
       mail[m].to = a /\ mail[m].receipt = "queued" /\ m \notin op.rest
  /\ \A m \in op.rest : mail[m].receipt = "queued"
  /\ Holding("deliver") /\ op.msg # 0 =>
       /\ mail[op.msg].receipt = "queued"
       /\ \A a \in Agent : op.msg \notin inbox[a]

\* The same of what an agent has taken and not yet acknowledged.
TakenOnce ==
  \A a \in Agent : agent[a].phase \in {"starting", "joining"} =>
    /\ agent[a].held # {}
    /\ \A m \in agent[a].held :
         /\ mail[m].to = a /\ (mail[m].receipt = "queued" \/ Acknowledging(m))
         /\ m \notin inbox[a] /\ m \notin op.rest /\ ~Routed(m)

\* A receipt that says consumed or undelivered is never taken back, whatever races
\* the drain of the mailbox.
ReceiptsAreFinal ==
  [][\A m \in DOMAIN mail : mail[m].receipt # "queued" => mail'[m] = mail[m]]_vars

\* The fence stands exactly while every agent there is holds an interruption: none
\* executes behind it, and a release frees them all.
FenceIsExact ==
  \A a \in Registered : fence <=> agent[a].interrupt # "none"

\* While an interruption is held, no agent has input but the failures of agents that
\* ended since: what was queued when it was requested has been consumed or returned.
DiscardsInput ==
  attempt = "done" /\ captured =>
    \A m \in DOMAIN mail : mail[m].receipt = "queued" => mail[m].kind = "failure"

\* Every message and every fence is accounted for, a refused acknowledgement included.
InputAccounted == NothingLost /\ Undecided /\ TakenOnce /\ FenceIsExact /\ DiscardsInput

\* An interruption cuts off input, ends with no agent executing, and holds until a
\* message of the user releases it (Interrupt, its comment).
Fence == INSTANCE ExecutionFence
  WITH gate <- CASE attempt = "none" -> "open" [] attempt = "waiting" -> "settling"
                 [] attempt = "done" -> "held",
       active <- {a \in Agent : agent[a].phase \in Executing}
FencesExecution == Fence!Spec

\* When the conversation is closed every message has its last receipt: nothing stays
\* queued for an agent that will never read it (finish, the wait group of New).
CloseSettlesMail ==
  watch.stage = "done" /\ captured => \A m \in DOMAIN mail : mail[m].receipt # "queued"

\* An interruption that is requested is done, and a close that is requested
\* completes, whatever else is asked meanwhile.
InterruptionSettles == attempt = "waiting" ~> attempt # "waiting"
CloseCompletes == quiesce ~> watch.stage = "done"
ConversationEnds == InterruptionSettles /\ CloseCompletes

\* What makes these inductive.  The request under way is about an agent that is where
\* the request left it.
OpFits ==
  /\ Holding("create") => op.agent \in Agent /\ agent[op.agent].phase = "registered"
  /\ Holding("deliver") =>
       op.agent = User \/ agent[op.agent].phase \in {"sending", "replying", "finishing"}
  /\ Holding("acknowledge") =>
       /\ op.agent \in Agent /\ agent[op.agent].phase \in {"starting", "joining"}
       /\ op.msg \in agent[op.agent].held /\ mail[op.msg].receipt = "consumed"
  /\ Holding("finish") => op.agent \in Agent /\ agent[op.agent].phase = "finishing"
  /\ op.name \in {"free", "discard"} => op.agent = User
  /\ op.rest # {} => op.name \in {"finish", "discard"}

\* The fence stands from the request to the release, and once the agents were waited
\* for all of them hold their interruption, in a phase that executes nothing.
Held ==
  /\ fence <=> attempt # "none"
  /\ Holding("discard") => attempt = "waiting"
  /\ attempt = "done" \/ Holding("discard") =>
       \A a \in Registered : agent[a].interrupt = "settled"
  /\ \A a \in Agent :
       /\ agent[a].phase = "absent" => agent[a] = Absent
       /\ agent[a].phase = "settling" => agent[a].interrupt = "pending"
       /\ agent[a].interrupt = "settled" => agent[a].phase \in {"ready", "ending"} \cup Over

\* While the log accepts events: messages are with their recipient, who can still be
\* given what is queued for it.
Receptive(a) == agent[a].phase \notin {"absent", "registered", "finishing", "gone"}
Addressed ==
  captured =>
    /\ \A a \in Agent :
         /\ agent[a].held # {} <=> agent[a].phase \in {"starting", "joining"}
         /\ \A m \in inbox[a] \cup agent[a].held : mail[m].to = a
         /\ inbox[a] # {} => Receptive(a)
         /\ agent[a].phase = "registered" => Holding("create") /\ op.agent = a
    /\ Holding("deliver") /\ op.msg # 0 => Receptive(mail[op.msg].to)
    /\ \A m \in op.rest : IF Holding("finish") THEN mail[m].to = op.agent
                          ELSE Receptive(mail[m].to)

\* The messages an interruption discards are all there are.
DiscardsAll ==
  Holding("discard") /\ captured =>
    \A m \in DOMAIN mail : mail[m].receipt = "queued" => m \in op.rest

\* Routing is closed before the agents there are are asked to leave.
ClosesFirst == (watch.stage # "idle" => closing) /\ watch.left \subseteq Registered

ConversationInv ==
  /\ TypeOK /\ OpFits /\ Held /\ Addressed /\ DiscardsAll /\ ClosesFirst
  /\ NothingLost /\ FenceIsExact /\ DiscardsInput /\ CloseSettlesMail

----------------------------------------------------------------------------
(* What the comments of the code say, and the code does not do.             *)

\* "Interrupt fences creation and routing": no message is routed while the fence
\* stands.  But finish routes the failure of an agent whatever the fence.
FencesRouting == [][fence /\ fence' => Len(mail') = Len(mail)]_vars

\* "Once released, all admitted agents are registered and no more can join": a
\* conversation that is closed runs no loop.  But createLocked gives the lock up
\* between the registration and the start of the loop.
ClosedRunsNothing ==
  watch.stage = "done" =>
    \A a \in Agent : agent[a].phase \in {"absent", "registered", "gone"}

\* "A quiesce is ... not a failure and not an abort, so the exit carries no error":
\* while nobody is stopped or fails, no agent exits with an error.  But routing is
\* closed before the agents are asked, and a reply refused fails the agent.
CleanCloseIsClean ==
  (\E a \in Agent : agent[a].exit = "refused") =>
    cancelled \/ ~captured \/ \E a \in Agent : agent[a].exit \in {"failed", "cancelled"}
=============================================================================
