---------------------------- MODULE Projection ----------------------------
(***************************************************************************)
(* The projector (harness/projection): it reduces the records of a session  *)
(* to the views an inspector reads, and refuses a record that does not fit   *)
(* what came before.  It trusts no recorder: here any record may come next,  *)
(* of two agents, of outputs, tools, works and research runs.  A record that *)
(* is refused, or came before, changes nothing.                              *)
(***************************************************************************)
EXTENDS Integers, Sequences, FiniteSets, TLC

CONSTANTS Agents, User,        \* the agents; who starts those that are nobody's
          MaxCalls, MaxHistory, MaxBytes, MaxRevision, MaxSteps   \* bounds

VARIABLES
  topic,       \* what a behaviour is about: an agent's "talk", the "work", the "mail", the "rest"
  stage,       \* "new", "open" or "closed"
  agents,      \* per agent its parent, its state and the state's revision; 0 until it started
  registered,  \* per agent, the role it is registered with
  outputs,     \* per agent, its calls: their status, bytes per channel and place in the history
  histories,   \* per agent, the entries: the role, and the call whose output it is or 0
  lastBatch,   \* per agent, the tool calls of its last batch and the revision they settled at
  usage,       \* per agent, how many calls were measured
  chunks, contents,  \* bytes of a body; whether a record has referred to it
  messages, receipts,
  tools,       \* per invocation, who started it and whether it has finished
  work,        \* the revision and kind of a work, and whom its assignments bind
  evidence,    \* references issued to executions of a work, with who has them
  research,    \* a research run
  noted        \* records that are kept for what they say

talk == <<histories, lastBatch>>
mail == <<messages, receipts>>
body == <<chunks, contents>>
job == <<tools, work, evidence, research>>
vars == <<topic, stage, agents, registered, outputs, talk, usage, body, mail, job, noted>>

Positions(a) == 1..Len(histories[a])
Calls(a) == 1..Len(outputs[a])
Started(a) == agents[a].revision > 0
Known(a, call) == call \in Calls(a)
Active(a, call) == Known(a, call) /\ outputs[a][call].status = "active"
Complete(a, call) == Known(a, call) /\ outputs[a][call].status = "complete"
Channels == {"text", "reasoning"}
Terminal == {"stopped", "failed"}
States == Terminal \cup {"idle", "running", "pause_requested", "paused", "interrupted",
                        "stop_requested"}

----------------------------------------------------------------------------
SessionStarted ==
  /\ stage = "new" /\ stage' = "open"
  /\ UNCHANGED <<agents, registered, outputs, talk, usage, body, mail, job, noted>>
SessionClosed ==
  /\ stage = "open" /\ stage' = "closed"
  /\ UNCHANGED <<agents, registered, outputs, talk, usage, body, mail, job, noted>>

\* A record may carry its body in chunks that came before; from then on the body is fixed.
\* Here the entries of a history do; works, tools and research refer to theirs the same way.
Framed == chunks > 0 /\ contents' = chunks
Plain == UNCHANGED contents

AgentStarted(a, parent) ==
  /\ ~Started(a)
  /\ agents' = [agents EXCEPT ![a] = [parent |-> parent, state |-> "idle", revision |-> 1]]
  /\ UNCHANGED <<stage, registered, outputs, talk, usage, body, mail, job, noted>>

\* No order of the states is asked for, only of their revisions.
AgentState(a, state, revision) ==
  /\ Started(a) /\ revision = agents[a].revision + 1 /\ revision <= MaxRevision
  /\ state \in States
  /\ agents' = [agents EXCEPT ![a].state = state, ![a].revision = revision]
  /\ UNCHANGED <<stage, registered, outputs, talk, usage, body, mail, job, noted>>

Creatable == {"deep_researcher", "implementor"}
Heads == {"manager"}
AgentRegistered(a, parent, role) ==
  /\ Started(a) /\ parent = agents[a].parent /\ registered[a] = "none"
  /\ IF parent = User THEN role \in Heads ELSE role \in Creatable
  /\ registered' = [registered EXCEPT ![a] = role]
  /\ UNCHANGED <<stage, agents, outputs, talk, usage, body, mail, job, noted>>

----------------------------------------------------------------------------
(* Outputs and history.                                                     *)

NoBytes == [c \in Channels |-> 0]
OutputStarted(a, call, revision) ==
  /\ Started(a) /\ call = Len(outputs[a]) + 1 /\ call <= MaxCalls
  /\ revision = Len(histories[a])
  /\ outputs' = [outputs EXCEPT ![a] =
       Append(@, [status |-> "active", bytes |-> NoBytes, context |-> revision, position |-> 0])]
  /\ UNCHANGED <<stage, agents, registered, talk, usage, body, mail, job, noted>>

OutputDelta(a, call, channel, offset) ==
  /\ Active(a, call) /\ offset = outputs[a][call].bytes[channel] /\ offset < MaxBytes
  /\ outputs' = [outputs EXCEPT ![a][call].bytes[channel] = @ + 1]
  /\ UNCHANGED <<stage, agents, registered, talk, usage, body, mail, job, noted>>

HistoryAppended(a, position, role, of) ==
  /\ Started(a) /\ position = Len(histories[a]) + 1 /\ position <= MaxHistory
  /\ of # 0 => Active(a, of) /\ role = "assistant"
  /\ histories' = [histories EXCEPT ![a] = Append(@, [role |-> role, output |-> of])]
  /\ Framed \/ Plain
  /\ UNCHANGED <<stage, agents, registered, outputs, lastBatch, usage, chunks, mail, job, noted>>

\* Faulty variant: the history entry may be of another output.
OutputFinishedAnywhere(a, call, status, position, bytes) ==
  /\ Active(a, call) /\ bytes = outputs[a][call].bytes
  /\ IF status = "complete" THEN position \in Positions(a) ELSE position = 0
  /\ outputs' = [outputs EXCEPT ![a][call].status = status, ![a][call].position = position]
  /\ UNCHANGED <<stage, agents, registered, talk, usage, body, mail, job, noted>>
OutputFinished(a, call, status, position, bytes) ==
  /\ Active(a, call) /\ bytes = outputs[a][call].bytes
  /\ IF status = "complete"
     THEN position \in Positions(a) /\ histories[a][position].output = call
     ELSE position = 0
  /\ outputs' = [outputs EXCEPT ![a][call].status = status, ![a][call].position = position]
  /\ UNCHANGED <<stage, agents, registered, talk, usage, body, mail, job, noted>>

Usage(a, call) ==
  /\ call = usage[a] + 1 /\ Known(a, call)
  /\ usage' = [usage EXCEPT ![a] = @ + 1]
  /\ UNCHANGED <<stage, agents, registered, outputs, talk, body, mail, job, noted>>

NoBatch == [calls |-> 0, revision |-> 0]
ToolBatch(a, calls, revision) ==
  /\ calls > 0 /\ revision = Len(histories[a])
  /\ lastBatch' = [lastBatch EXCEPT ![a] = [calls |-> calls, revision |-> revision]]
  /\ UNCHANGED <<stage, agents, registered, outputs, histories, usage, body, mail, job, noted>>

\* A yield ends the exchange at the batch that the output asked for.
AgentYielded(a, call, settled) ==
  /\ Complete(a, call)
  /\ LET b == lastBatch[a]
     IN /\ b.calls > 0 /\ b.revision = settled /\ settled = Len(histories[a])
        /\ outputs[a][call].position + b.calls = settled
  /\ lastBatch' = [lastBatch EXCEPT ![a] = NoBatch]
  /\ UNCHANGED <<stage, agents, registered, outputs, histories, usage, body, mail, job, noted>>

----------------------------------------------------------------------------
(* Content, mail.                                                           *)

ContentChunk(offset) ==
  /\ contents = 0 /\ offset = chunks /\ offset < MaxBytes
  /\ chunks' = chunks + 1
  /\ UNCHANGED <<stage, agents, registered, outputs, talk, usage, contents, mail, job, noted>>

Message ==
  /\ ~messages /\ messages' = TRUE
  /\ UNCHANGED <<stage, agents, registered, outputs, talk, usage, body, receipts, job, noted>>
Ack(status) ==
  /\ messages /\ receipts' = status
  /\ UNCHANGED <<stage, agents, registered, outputs, talk, usage, body, messages, job, noted>>

----------------------------------------------------------------------------
(* Works, tools and research.                                               *)

Bound(a, assigned) == \E b \in work.bindings : b = <<assigned, a>>
\* Revisions of a work may not go back; whose it is, and since when, is taken as it is said.
\* A delivery says once which assignment it answers; a report, of which it tells.
Work(revision, kind, state, assigned, a, says, of) ==
  /\ revision \in 1..MaxRevision /\ revision >= work.revision
  /\ says = "brief" => state = "delivered" /\ kind = "deep_research"
  /\ says # "nothing" => of \in 1..revision
  /\ work' = [revision |-> revision, kind |-> kind,
              bindings |-> IF state = "active" /\ assigned > 0
                           THEN {b \in work.bindings : b[1] # assigned} \cup {<<assigned, a>>}
                           ELSE work.bindings]
  /\ UNCHANGED <<stage, agents, registered, outputs, talk, usage, body, mail,
                 tools, evidence, research, noted>>

ToolStarted(a) ==
  /\ tools.by = "none"
  /\ tools' = [by |-> a, finished |-> FALSE]
  /\ UNCHANGED <<stage, agents, registered, outputs, talk, usage, body, mail,
                 work, evidence, research, noted>>

\* An execution's reference is issued once, to whom the assignment binds.
ToolFinished(a, assigned) ==
  /\ tools.by = a /\ ~tools.finished
  /\ assigned # 0 => evidence = {} /\ Bound(a, assigned)
  /\ tools' = [tools EXCEPT !.finished = TRUE]
  /\ evidence' = IF assigned = 0 THEN evidence ELSE {<<assigned, a>>}
  /\ UNCHANGED <<stage, agents, registered, outputs, talk, usage, body, mail, work, research,
                 noted>>

NoRun == [sequence |-> 0, by |-> "none", assigned |-> 0, completed |-> 0, sources |-> {},
          status |-> "none"]
Research(a, assigned, kind, sequence, completed, source) ==
  /\ Bound(a, assigned) /\ work.kind = "deep_research" /\ registered[a] = "deep_researcher"
  /\ IF kind = "started"
     THEN research = NoRun /\ sequence = 1 /\ tools.by = a /\ ~tools.finished
     ELSE /\ research.status = "running" /\ sequence = research.sequence + 1
          /\ sequence <= MaxSteps
          /\ research.by = a /\ research.assigned = assigned /\ completed >= research.completed
  /\ source # "none" => source \notin research.sources
  /\ research' = [sequence |-> sequence, by |-> a, assigned |-> assigned, completed |-> completed,
                  sources |-> research.sources \cup ({source} \ {"none"}),
                  status |-> IF kind = "finished" THEN "finished" ELSE "running"]
  /\ UNCHANGED <<stage, agents, registered, outputs, talk, usage, body, mail, tools, work,
                 evidence, noted>>

\* Records that are only checked.  Some name nothing that came before: a configuration,
\* metrics of a server, a diagnostic, the environment, a commentary on no output.
Noted(a, kind, call) ==
  /\ noted = {}
  /\ CASE kind \in {"todos", "tester"} -> registered[a] # "none"
       [] kind = "commentary" -> call # 0 => Complete(a, call)
       [] kind = "diagnostic" -> TRUE
       [] kind = "agent_exited" -> Started(a) /\ agents[a].state \in Terminal
       [] kind = "context_tokens" -> call \in Positions(a)
       [] kind = "inbox_disposition" -> messages
  /\ noted' = {<<kind, a, call>>}
  /\ UNCHANGED <<stage, agents, registered, outputs, talk, usage, body, mail, job>>

----------------------------------------------------------------------------
Init ==
  /\ topic \in {"talk", "work", "mail", "rest"} /\ stage = "new"
  /\ agents = [a \in Agents |-> [parent |-> User, state |-> "none", revision |-> 0]]
  /\ registered = [a \in Agents |-> "none"]
  /\ outputs = [a \in Agents |-> <<>>] /\ histories = [a \in Agents |-> <<>>]
  /\ lastBatch = [a \in Agents |-> NoBatch] /\ usage = [a \in Agents |-> 0]
  /\ chunks = 0 /\ contents = 0 /\ messages = FALSE /\ receipts = "none"
  /\ tools = [by |-> "none", finished |-> FALSE]
  /\ work = [revision |-> 0, kind |-> "none", bindings |-> {}] /\ evidence = {} /\ research = NoRun
  /\ noted = {}

\* What a record says need not be so: calls, places and revisions are any.
Talk(a, calls, places) ==
  \E c \in 0..calls, p \in 0..places :
    \/ OutputStarted(a, c, p) \/ AgentYielded(a, c, p) \/ ToolBatch(a, c, p)
    \/ \E l \in Channels : OutputDelta(a, c, l, p)
    \/ \E r \in {"assistant", "tool"} : HistoryAppended(a, p, r, c)
    \/ \E s \in {"complete", "failed"}, b \in [Channels -> 0..MaxBytes] :
         OutputFinished(a, c, s, p, b)
TheWork(a) ==
  \/ \E p \in (Agents \ {a}) \cup {User} :
       AgentStarted(a, p) \/ \E r \in Creatable \cup Heads : AgentRegistered(a, p, r)
  \/ ToolStarted(a)
  \/ \E r \in 0..MaxRevision : ToolFinished(a, r)
  \/ \E r, n \in 0..MaxRevision, k \in {"deep_research", "implementation"} :
       \/ Work(r, k, "active", n, a, "nothing", 0)
       \/ \E e \in {"brief", "report"} : Work(r, k, "delivered", n, a, e, n)
  \/ \E r \in 0..MaxRevision, k \in {"started", "step", "finished"}, q \in 1..MaxSteps,
       c \in 0..1, s \in {"none", "s1"} : Research(a, r, k, q, c, s)
TheMail(a) ==
  \/ \E o \in 0..MaxBytes : ContentChunk(o)
  \/ Message \/ \E s \in {"queued", "consumed", "undelivered"} : Ack(s)
  \/ \E k \in {"inbox_disposition", "commentary", "context_tokens", "diagnostic"}, c \in 0..1 :
       Noted(a, k, c)
TheRest(a) ==
  \/ \E s \in States, r \in 0..MaxRevision : AgentState(a, s, r)
  \/ \E r \in Creatable \cup Heads : AgentRegistered(a, User, r)
  \/ Usage(a, 1) \/ Usage(a, 2)
  \/ \E k \in {"todos", "tester", "agent_exited"} : Noted(a, k, 0)

TheOne == CHOOSE a \in Agents : TRUE
Next ==
  /\ UNCHANGED topic
  /\ \/ SessionStarted
     \/ stage = "open" /\ SessionClosed
     \/ stage = "open" /\ topic = "work" /\ \E a \in Agents : TheWork(a)
     \/ /\ stage = "open" /\ topic = "talk"
        /\ AgentStarted(TheOne, User) \/ Talk(TheOne, MaxCalls, MaxHistory)
     \/ /\ stage = "open" /\ topic \in {"mail", "rest"}
        /\ \/ AgentStarted(TheOne, User) \/ Talk(TheOne, 1, 1)
           \/ topic = "mail" /\ TheMail(TheOne)
           \/ topic = "rest" /\ TheRest(TheOne)

Spec == Init /\ [][Next]_vars

----------------------------------------------------------------------------
\* Pages (Outputs and History): before is exclusive, and 0, or past the end, is the latest.
PageEnd(n, before) == IF before > 0 /\ before <= n THEN before - 1 ELSE n
PageOf(n, before, limit) ==
  LET end == PageEnd(n, before)
  IN (IF end >= limit THEN end - limit + 1 ELSE 1)..end

\* A page ends just before the one it was asked for from, so going back page by page shows
\* everything once (projector.go:700-726, 736-761).
PagesTile ==
  \A a \in Agents, limit \in 1..2 :
    \A n \in {Len(outputs[a]), Len(histories[a])} : \A before \in 0..(n + 2) :
      LET page == PageOf(n, before, limit)
          first == CHOOSE x \in page : \A y \in page : x <= y
      IN page # {} /\ first > 1 => PageOf(n, first, n) = 1..(first - 1)

\* Whatever was recorded, the views fit together: an output that is complete has its place
\* in its agent's history and no other output has it, what is measured was called, who has
\* evidence or a research run was bound to the work, and a body that is referred to is
\* whole (projector.go:90-675).
ViewsCohere ==
  /\ \A a \in Agents :
       /\ Len(outputs[a]) > 0 \/ Len(histories[a]) > 0 \/ registered[a] # "none" => Started(a)
       /\ \A c \in Calls(a) :
            Complete(a, c) => /\ outputs[a][c].position \in Positions(a)
                              /\ histories[a][outputs[a][c].position] =
                                   [role |-> "assistant", output |-> c]
       /\ \A p \in Positions(a) : histories[a][p].output # 0 =>
            Known(a, histories[a][p].output) /\ outputs[a][histories[a][p].output].context < p
       /\ usage[a] <= Len(outputs[a]) /\ lastBatch[a].revision <= Len(histories[a])
  /\ receipts # "none" => messages
  /\ contents # 0 => contents = chunks
  /\ \A b, c \in work.bindings : b[1] = c[1] => b = c
  /\ research # NoRun => registered[research.by] = "deep_researcher" /\ tools.by # "none"
  /\ research.status = "finished" \/ research.completed > 0 => research.sequence >= 1
  /\ \A n \in noted : n[1] = "commentary" => n[3] = 0 \/ Complete(n[2], n[3])

ViewsFit == ViewsCohere /\ PagesTile
=============================================================================
