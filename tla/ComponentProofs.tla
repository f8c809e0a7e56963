--------------------------- MODULE ComponentProofs ---------------------------
(***************************************************************************)
(* Theorems of components that stand by themselves, for every value of     *)
(* their constants.  Each component is an instance, and what is proved of  *)
(* one rests on nothing of another.  Those that a person sees and works    *)
(* with are in ScreenProofs.                                               *)
(***************************************************************************)
EXTENDS Integers, Sequences, FiniteSets, TLAPS, FiniteSetTheorems, WellFoundedInduction, SequenceTheorems

\* The views of an inspector (Projection).
CONSTANTS ViewAgents, ViewUser, ViewCalls, ViewHistory, ViewBytes, ViewRevision, ViewSteps
VARIABLES topic, stage, agents, registered, outputs, histories, lastBatch, usage, chunks,
          contents, messages, receipts, tools, work, evidence, research, noted
Views == INSTANCE Projection
  WITH Agents <- ViewAgents, User <- ViewUser, MaxCalls <- ViewCalls, MaxHistory <- ViewHistory,
       MaxBytes <- ViewBytes, MaxRevision <- ViewRevision, MaxSteps <- ViewSteps

\* An agent's exchange with its model (Exchange).
CONSTANTS LoopIds, LoopBatch, LoopHistory, LoopRetries, LoopRepeated, LoopInterrupts
VARIABLES phase, history, batch, next, together, started, retries, repeated, cut, interrupt, stop,
          interrupts, unrun
Loop == INSTANCE Exchange
  WITH Ids <- LoopIds, MaxBatch <- LoopBatch, MaxHistory <- LoopHistory, MaxRetries <- LoopRetries,
       MaxRepeated <- LoopRepeated, MaxInterrupts <- LoopInterrupts

\* A language server and its manager (LanguageServer).
CONSTANTS LspEdits, LspQueries, LspDeaths, LspCloses
VARIABLES disk, hinted, manager, server, process, wire, callbacks, transaction, refresher, answer
Analysis == INSTANCE LanguageServer
  WITH MaxEdits <- LspEdits, MaxQueries <- LspQueries, MaxDeaths <- LspDeaths, Closes <- LspCloses,
       m <- manager, inst <- server, server <- process, client <- callbacks,
       q <- transaction

\* The player of a recorded session (Replay).
CONSTANTS ReplayAgents, ReplayUser, ReplayKinds, ReplayTrace
VARIABLES trace, stands, looks, passed, nextGate, quiet, skipped, cutOff, acted, crashed
Player == INSTANCE Replay
  WITH Agent <- ReplayAgents, User <- ReplayUser, Kind <- ReplayKinds, MaxTrace <- ReplayTrace,
       next <- nextGate, cut <- cutOff

----------------------------------------------------------------------------
(* The views of an inspector (Projection).                                 *)
\* There is an agent; a tool that nobody started is told from one that an agent did.
ViewsAssumption == ViewAgents # {} /\ "none" \notin ViewAgents

AgentRecord == [parent : ViewAgents \cup {ViewUser}, state : Views!States \cup {"none"}, revision : Nat]
Roles == Views!Creatable \cup Views!Heads \cup {"none"}
OutputRecord ==
  [status : {"active", "complete", "failed"}, bytes : [Views!Channels -> Nat], context : Nat, position : Nat]
EntryRecord == [role : {"assistant", "tool"}, output : Nat]
Batch == [calls : Nat, revision : Nat]

\* What is known of one agent fits together: its record and role, its outputs, the entries of
\* its history, how many calls were measured and its last batch.
Fits(g, role, o, h, u, b) ==
  /\ g \in AgentRecord /\ role \in Roles /\ o \in Seq(OutputRecord) /\ h \in Seq(EntryRecord)
  /\ u \in Nat /\ b \in Batch
  /\ Len(o) > 0 \/ Len(h) > 0 \/ role # "none" => g.revision > 0
  /\ \A c \in 1..Len(o) : o[c].context <= Len(h)
  /\ \A c \in 1..Len(o) : o[c].status = "complete" =>
       o[c].position \in 1..Len(h) /\ h[o[c].position] = [role |-> "assistant", output |-> c]
  /\ \A p \in 1..Len(h) : h[p].output # 0 =>
       h[p].role = "assistant" /\ h[p].output \in 1..Len(o) /\ o[h[p].output].context < p
  /\ u <= Len(o) /\ b.revision <= Len(h)

TalkTypes ==
  /\ agents \in [ViewAgents -> AgentRecord] /\ registered \in [ViewAgents -> Roles]
  /\ outputs \in [ViewAgents -> Seq(OutputRecord)] /\ histories \in [ViewAgents -> Seq(EntryRecord)]
  /\ usage \in [ViewAgents -> Nat] /\ lastBatch \in [ViewAgents -> Batch]
AgentFits(a) ==
  Fits(agents[a], registered[a], outputs[a], histories[a], usage[a], lastBatch[a])

TalkInv == TalkTypes /\ \A a \in ViewAgents : AgentFits(a)

WorkInv ==
  /\ work.bindings \subseteq Nat \X ViewAgents /\ DOMAIN work = {"revision", "kind", "bindings"}
  /\ \A b, c \in work.bindings : b[1] = c[1] => b = c
  /\ research # Views!NoRun =>
       research.sequence >= 1 /\ research.by \in ViewAgents /\ registered[research.by] = "deep_researcher"
       /\ tools.by # "none"
MailInv == (receipts # "none" => messages) /\ (contents # 0 => contents = chunks)
NotedInv ==
  \A n \in noted : n[1] = "commentary" => n[2] \in ViewAgents /\ (n[3] = 0 \/ Views!Complete(n[2], n[3]))

ViewsInv == TalkInv /\ WorkInv /\ MailInv /\ NotedInv

----------------------------------------------------------------------------
\* An agent is started, its state changes, it is registered, a call is measured, a batch settles.
LEMMA FitsStill ==
  ASSUME NEW g, NEW role, NEW o, NEW h, NEW u, NEW b, Fits(g, role, o, h, u, b),
         NEW k \in AgentRecord, k.revision >= g.revision, NEW r \in Roles,
         r = role \/ k.revision > 0,
         NEW v \in Nat, v <= Len(o), NEW d \in Batch, d.revision <= Len(h)
  PROVE  Fits(k, r, o, h, v, d)
<1>1. g.revision \in Nat /\ k.revision \in Nat
  BY DEF Fits, AgentRecord
<1> QED
  BY <1>1 DEF Fits

LEMMA FitsOutput ==
  ASSUME NEW g, NEW role, NEW o, NEW h, NEW u, NEW b, Fits(g, role, o, h, u, b), g.revision > 0,
         NEW n \in OutputRecord, n.context = Len(h), n.status = "active"
  PROVE  Fits(g, role, Append(o, n), h, u, b)
<1>1. /\ o \in Seq(OutputRecord) /\ Len(o) \in Nat /\ Len(h) \in Nat
      /\ Append(o, n) \in Seq(OutputRecord) /\ Len(Append(o, n)) = Len(o) + 1
      /\ \A c \in 1..Len(o) : Append(o, n)[c] = o[c]
      /\ Append(o, n)[Len(o) + 1] = n
  BY DEF Fits
<1> DEFINE m == Append(o, n)
<1>2. \A c \in 1..Len(m) : c \in 1..Len(o) \/ c = Len(o) + 1
  BY <1>1
<1> HIDE DEF m
<1>3. \A c \in 1..Len(m) : m[c].context <= Len(h)
  BY <1>1, <1>2 DEF Fits, m
<1>4. \A c \in 1..Len(m) : m[c].status = "complete" =>
        m[c].position \in 1..Len(h) /\ h[m[c].position] = [role |-> "assistant", output |-> c]
  BY <1>1, <1>2 DEF Fits, m
<1>5. \A p \in 1..Len(h) : h[p].output # 0 =>
        h[p].role = "assistant" /\ h[p].output \in 1..Len(m) /\ m[h[p].output].context < p
  BY <1>1 DEF Fits, m
<1>6. u \in Nat /\ u <= Len(m)
  BY <1>1 DEF Fits, m
<1> QED
  BY <1>1, <1>3, <1>4, <1>5, <1>6 DEF Fits, m

\* An output that goes on, fails, or has its place in the history.
LEMMA FitsChange ==
  ASSUME NEW g, NEW role, NEW o, NEW h, NEW u, NEW b, Fits(g, role, o, h, u, b),
         NEW call \in 1..Len(o), NEW n \in OutputRecord, n.context = o[call].context,
         n.status = "complete" => n.position \in 1..Len(h) /\ h[n.position].output = call
  PROVE  Fits(g, role, [o EXCEPT ![call] = n], h, u, b)
<1> DEFINE m == [o EXCEPT ![call] = n]
<1>1. /\ o \in Seq(OutputRecord) /\ Len(o) \in Nat /\ Len(h) \in Nat /\ h \in Seq(EntryRecord)
      /\ m \in Seq(OutputRecord) /\ Len(m) = Len(o) /\ m[call] = n
      /\ \A c \in 1..Len(o) : c # call => m[c] = o[c]
  BY DEF Fits
<1> HIDE DEF m
<1>2. \A c \in 1..Len(o) : m[c].context = o[c].context
  BY <1>1
<1>3. \A c \in 1..Len(m) : m[c].context <= Len(h)
  BY <1>1, <1>2 DEF Fits
<1>4. ASSUME NEW c \in 1..Len(m), m[c].status = "complete"
      PROVE  m[c].position \in 1..Len(h) /\ h[m[c].position] = [role |-> "assistant", output |-> c]
  <2>1. CASE c # call
    BY <1>1, <1>4, <2>1 DEF Fits
  <2>2. CASE c = call
    <3>1. n.position \in 1..Len(h) /\ h[n.position].output = call /\ call # 0
      BY <1>1, <1>4, <2>2
    <3>2. h[n.position] \in EntryRecord /\ h[n.position].role = "assistant"
      BY <1>1, <3>1 DEF Fits
    <3>3. h[n.position] = [role |-> "assistant", output |-> call]
      BY <3>1, <3>2 DEF EntryRecord
    <3> QED
      BY <1>1, <2>2, <3>1, <3>3
  <2> QED
    BY <2>1, <2>2
<1>5. \A p \in 1..Len(h) : h[p].output # 0 =>
        h[p].role = "assistant" /\ h[p].output \in 1..Len(m) /\ m[h[p].output].context < p
  BY <1>1, <1>2 DEF Fits
<1> QED
  BY <1>1, <1>3, <1>4, <1>5 DEF Fits, m

LEMMA FitsEntry ==
  ASSUME NEW g, NEW role, NEW o, NEW h, NEW u, NEW b, Fits(g, role, o, h, u, b), g.revision > 0,
         NEW n \in EntryRecord, n.output # 0 => n.output \in 1..Len(o) /\ n.role = "assistant"
  PROVE  Fits(g, role, o, Append(h, n), u, b)
<1> DEFINE m == Append(h, n)
<1>1. /\ o \in Seq(OutputRecord) /\ Len(o) \in Nat /\ Len(h) \in Nat /\ h \in Seq(EntryRecord)
      /\ m \in Seq(EntryRecord) /\ Len(m) = Len(h) + 1 /\ m[Len(h) + 1] = n
      /\ \A p \in 1..Len(h) : m[p] = h[p]
  BY DEF Fits
<1> HIDE DEF m
<1>2. \A p \in 1..Len(m) : p \in 1..Len(h) \/ p = Len(h) + 1
  BY <1>1
<1>3. \A c \in 1..Len(o) : o[c].context \in Nat /\ o[c].context <= Len(h)
  <2>1. \A c \in 1..Len(o) : o[c] \in OutputRecord
    BY <1>1
  <2>2. \A c \in 1..Len(o) : o[c].context \in Nat
    BY <2>1 DEF OutputRecord
  <2> QED
    BY <2>2 DEF Fits
<1>4. \A c \in 1..Len(o) : o[c].status = "complete" =>
        o[c].position \in 1..Len(m) /\ m[o[c].position] = [role |-> "assistant", output |-> c]
  BY <1>1 DEF Fits
<1>5. ASSUME NEW p \in 1..Len(m), m[p].output # 0
      PROVE  m[p].role = "assistant" /\ m[p].output \in 1..Len(o) /\ o[m[p].output].context < p
  <2>1. CASE p \in 1..Len(h)
    BY <1>1, <1>5, <2>1 DEF Fits
  <2>2. CASE p = Len(h) + 1
    BY <1>1, <1>3, <1>5, <2>2
  <2> QED
    BY <1>2, <2>1, <2>2
<1>6. b.revision <= Len(m)
  BY <1>1 DEF Fits, Batch
<1> QED
  BY <1>1, <1>3, <1>4, <1>5, <1>6 DEF Fits, m

LEMMA TalkChanges ==
  ASSUME TalkInv, NEW a \in ViewAgents, TalkTypes', AgentFits(a)',
         \A b \in ViewAgents \ {a} :
           /\ agents'[b] = agents[b] /\ registered'[b] = registered[b] /\ outputs'[b] = outputs[b]
           /\ histories'[b] = histories[b] /\ usage'[b] = usage[b] /\ lastBatch'[b] = lastBatch[b]
  PROVE  TalkInv'
<1>1. ASSUME NEW b \in ViewAgents \ {a} PROVE AgentFits(b)'
  BY DEF TalkInv, AgentFits
<1> QED
  BY <1>1 DEF TalkInv

\* A record that is about none of it leaves the talk, the work, the mail or what was noted.
LEMMA TalkStays ==
  ASSUME TalkInv, UNCHANGED <<agents, registered, outputs, histories, usage, lastBatch>>
  PROVE  TalkInv'
  BY DEF TalkInv, TalkTypes, AgentFits
LEMMA WorkStays == ASSUME WorkInv, UNCHANGED <<registered, work, research, tools>> PROVE WorkInv'
  BY DEF WorkInv, Views!NoRun
LEMMA MailStays == ASSUME MailInv, UNCHANGED <<messages, receipts, chunks, contents>> PROVE MailInv'
  BY DEF MailInv
LEMMA NotedStays == ASSUME NotedInv, UNCHANGED <<outputs, noted>> PROVE NotedInv'
  BY DEF NotedInv, Views!Complete, Views!Known, Views!Calls

LEMMA TalkFacts ==
  ASSUME ViewsInv, NEW a \in ViewAgents
  PROVE  /\ agents[a] \in AgentRecord /\ registered[a] \in Roles /\ outputs[a] \in Seq(OutputRecord)
         /\ histories[a] \in Seq(EntryRecord) /\ usage[a] \in Nat /\ lastBatch[a] \in Batch
         /\ agents[a].revision \in Nat /\ Len(outputs[a]) \in Nat /\ Len(histories[a]) \in Nat
         /\ Fits(agents[a], registered[a], outputs[a], histories[a], usage[a], lastBatch[a])
         /\ TalkTypes
<1>1. /\ agents[a] \in AgentRecord /\ registered[a] \in Roles /\ outputs[a] \in Seq(OutputRecord)
      /\ histories[a] \in Seq(EntryRecord) /\ usage[a] \in Nat /\ lastBatch[a] \in Batch
  BY DEF ViewsInv, TalkInv, TalkTypes
<1>2. agents[a].revision \in Nat
  BY <1>1 DEF AgentRecord
<1> QED
  BY <1>1, <1>2 DEF ViewsInv, TalkInv, AgentFits

----------------------------------------------------------------------------
LEMMA AgentStartedKeeps ==
  ASSUME ViewsInv, NEW a \in ViewAgents, NEW parent \in ViewAgents \cup {ViewUser}, Views!AgentStarted(a, parent)
  PROVE  ViewsInv'
<1> DEFINE k == [parent |-> parent, state |-> "idle", revision |-> 1]
<1>1. agents' = [agents EXCEPT ![a] = k] /\ ~(agents[a].revision > 0)
      /\ UNCHANGED <<registered, outputs, histories, lastBatch, usage, messages, receipts, chunks,
                     contents, tools, work, research, noted>>
  BY DEF Views!AgentStarted, Views!Started, Views!talk, Views!mail, Views!body, Views!job
<1>2. k \in AgentRecord /\ k.revision = 1
  BY DEF AgentRecord, Views!States
<1> HIDE DEF k
<1>3. agents'[a] = k /\ agents' \in [ViewAgents -> AgentRecord]
  BY <1>1, <1>2, TalkFacts DEF TalkTypes
<1>4. Fits(k, registered[a], outputs[a], histories[a], usage[a], lastBatch[a])
  <2>1. lastBatch[a].revision <= Len(histories[a]) /\ usage[a] <= Len(outputs[a])
    BY TalkFacts DEF Fits
  <2> QED
    BY <1>1, <1>2, <2>1, TalkFacts, FitsStill
<1>5. TalkInv'
  BY <1>1, <1>3, <1>4, TalkFacts, TalkChanges DEF ViewsInv, TalkTypes, AgentFits
<1> QED
  BY <1>1, <1>5, WorkStays, MailStays, NotedStays DEF ViewsInv

LEMMA AgentStateKeeps ==
  ASSUME ViewsInv, NEW a \in ViewAgents, NEW state, NEW revision, Views!AgentState(a, state, revision)
  PROVE  ViewsInv'
<1> DEFINE k == [agents[a] EXCEPT !.state = state, !.revision = revision]
<1>1. /\ agents' = [agents EXCEPT ![a].state = state, ![a].revision = revision]
      /\ agents[a].revision > 0 /\ revision = agents[a].revision + 1 /\ state \in Views!States
      /\ UNCHANGED <<registered, outputs, histories, lastBatch, usage, messages, receipts, chunks,
                     contents, tools, work, research, noted>>
  BY DEF Views!AgentState, Views!Started, Views!talk, Views!mail, Views!body, Views!job
<1>2. k \in AgentRecord /\ k.revision = revision /\ revision \in Nat /\ revision > agents[a].revision
  <2>1. revision \in Nat /\ revision > agents[a].revision
    BY <1>1, TalkFacts
  <2>2. agents[a] \in AgentRecord
    BY TalkFacts
  <2>3. state \in Views!States \cup {"none"}
    BY <1>1
  <2>4. k \in AgentRecord /\ k.revision = revision
    BY <2>1, <2>2, <2>3 DEF AgentRecord
  <2> QED
    BY <2>1, <2>4
<1>3. agents' = [agents EXCEPT ![a] = k]
  BY <1>1, TalkFacts DEF TalkTypes, AgentRecord
<1> HIDE DEF k
<1>4. agents'[a] = k /\ agents' \in [ViewAgents -> AgentRecord]
  BY <1>2, <1>3, TalkFacts DEF TalkTypes
<1>5. Fits(k, registered[a], outputs[a], histories[a], usage[a], lastBatch[a])
  <2>1. lastBatch[a].revision <= Len(histories[a]) /\ usage[a] <= Len(outputs[a])
    BY TalkFacts DEF Fits
  <2> QED
    BY <1>1, <1>2, <2>1, TalkFacts, FitsStill
<1>6. TalkInv'
  BY <1>1, <1>3, <1>4, <1>5, TalkFacts, TalkChanges DEF ViewsInv, TalkTypes, AgentFits
<1> QED
  BY <1>1, <1>6, WorkStays, MailStays, NotedStays DEF ViewsInv

LEMMA AgentRegisteredKeeps ==
  ASSUME ViewsInv, NEW a \in ViewAgents, NEW parent, NEW role \in Views!Creatable \cup Views!Heads,
         Views!AgentRegistered(a, parent, role)
  PROVE  ViewsInv'
<1>1. /\ registered' = [registered EXCEPT ![a] = role] /\ agents[a].revision > 0
      /\ registered[a] = "none"
      /\ UNCHANGED <<agents, outputs, histories, lastBatch, usage, messages, receipts, chunks,
                     contents, tools, work, research, noted>>
  BY DEF Views!AgentRegistered, Views!Started, Views!talk, Views!mail, Views!body, Views!job
<1>2. role \in Roles
  BY DEF Roles
<1>3. registered'[a] = role /\ registered' \in [ViewAgents -> Roles]
  BY <1>1, <1>2, TalkFacts DEF TalkTypes
<1>4. Fits(agents[a], role, outputs[a], histories[a], usage[a], lastBatch[a])
  <2>1. lastBatch[a].revision <= Len(histories[a]) /\ usage[a] <= Len(outputs[a])
    BY TalkFacts DEF Fits
  <2> QED
    BY <1>1, <1>2, <2>1, TalkFacts, FitsStill
<1>5. TalkInv'
  BY <1>1, <1>3, <1>4, TalkFacts, TalkChanges DEF ViewsInv, TalkTypes, AgentFits
<1>6. WorkInv'
  <2>1. \A b \in ViewAgents : registered[b] = "deep_researcher" => registered'[b] = "deep_researcher"
    BY <1>1, TalkFacts DEF TalkTypes
  <2> QED
    BY <1>1, <2>1 DEF ViewsInv, WorkInv, Views!NoRun
<1> QED
  BY <1>1, <1>5, <1>6, MailStays, NotedStays DEF ViewsInv

LEMMA OutputStartedKeeps ==
  ASSUME ViewsInv, NEW a \in ViewAgents, NEW call, NEW revision, Views!OutputStarted(a, call, revision)
  PROVE  ViewsInv'
<1> DEFINE n == [status |-> "active", bytes |-> Views!NoBytes, context |-> revision, position |-> 0]
<1>1. /\ outputs' = [outputs EXCEPT ![a] = Append(outputs[a], n)] /\ agents[a].revision > 0
      /\ revision = Len(histories[a])
      /\ UNCHANGED <<agents, registered, histories, lastBatch, usage, messages, receipts, chunks,
                     contents, tools, work, research, noted>>
  BY DEF Views!OutputStarted, Views!Started, Views!talk, Views!mail, Views!body, Views!job
<1>2. n \in OutputRecord /\ n.context = Len(histories[a]) /\ n.status = "active"
  BY <1>1, TalkFacts DEF OutputRecord, Views!NoBytes
<1> HIDE DEF n
<1>3. /\ outputs'[a] = Append(outputs[a], n) /\ Append(outputs[a], n) \in Seq(OutputRecord)
      /\ outputs' \in [ViewAgents -> Seq(OutputRecord)]
  BY <1>1, <1>2, TalkFacts DEF TalkTypes
<1>4. Fits(agents[a], registered[a], Append(outputs[a], n), histories[a], usage[a], lastBatch[a])
  BY <1>1, <1>2, TalkFacts, FitsOutput
<1>5. TalkInv'
  BY <1>1, <1>3, <1>4, TalkFacts, TalkChanges DEF ViewsInv, TalkTypes, AgentFits
<1>6. NotedInv'
  <2>1. ASSUME NEW b \in ViewAgents, NEW c, Views!Complete(b, c) PROVE Views!Complete(b, c)'
    <3>1. outputs[b] \in Seq(OutputRecord) /\ Len(outputs[b]) \in Nat
      BY TalkFacts
    <3>2. CASE b = a
      BY <1>1, <1>2, <1>3, <2>1, <3>1, <3>2 DEF Views!Complete, Views!Known, Views!Calls
    <3>3. CASE b # a
      BY <1>1, <2>1, <3>3, TalkFacts DEF Views!Complete, Views!Known, Views!Calls, TalkTypes
    <3> QED
      BY <3>2, <3>3
  <2> QED
    BY <1>1, <2>1 DEF ViewsInv, NotedInv
<1> QED
  BY <1>1, <1>5, <1>6, WorkStays, MailStays DEF ViewsInv

\* An active output becomes another record, complete only with its place in the history.
LEMMA OutputChanges ==
  ASSUME ViewsInv, NEW a \in ViewAgents, NEW call, Views!Active(a, call), NEW n \in OutputRecord,
         outputs' = [outputs EXCEPT ![a] = [outputs[a] EXCEPT ![call] = n]],
         n.context = outputs[a][call].context,
         n.status = "complete" =>
           n.position \in 1..Len(histories[a]) /\ histories[a][n.position].output = call,
         UNCHANGED <<agents, registered, histories, lastBatch, usage, messages, receipts, chunks,
                     contents, tools, work, research, noted>>
  PROVE  ViewsInv'
<1>1. call \in 1..Len(outputs[a]) /\ outputs[a][call].status = "active"
  BY DEF Views!Active, Views!Known, Views!Calls
<1> DEFINE m == [outputs[a] EXCEPT ![call] = n]
<1>2. /\ m \in Seq(OutputRecord) /\ Len(m) = Len(outputs[a])
      /\ \A c \in 1..Len(outputs[a]) : c # call => m[c] = outputs[a][c]
  BY <1>1, TalkFacts
<1> HIDE DEF m
<1>3. outputs'[a] = m /\ outputs' \in [ViewAgents -> Seq(OutputRecord)]
  BY <1>2, TalkFacts DEF TalkTypes, m
<1>4. Fits(agents[a], registered[a], m, histories[a], usage[a], lastBatch[a])
  BY <1>1, TalkFacts, FitsChange DEF m
<1>5. TalkInv'
  BY <1>3, <1>4, TalkFacts, TalkChanges DEF ViewsInv, TalkTypes, AgentFits
<1>6. NotedInv'
  <2>1. ASSUME NEW b \in ViewAgents, NEW c, Views!Complete(b, c) PROVE Views!Complete(b, c)'
    <3>1. CASE b = a
      BY <1>1, <1>2, <1>3, <2>1, <3>1 DEF Views!Complete, Views!Known, Views!Calls
    <3>2. CASE b # a
      BY <2>1, <3>2, TalkFacts DEF Views!Complete, Views!Known, Views!Calls, TalkTypes
    <3> QED
      BY <3>1, <3>2
  <2> QED
    BY <2>1 DEF ViewsInv, NotedInv
<1> QED
  BY <1>5, <1>6, WorkStays, MailStays DEF ViewsInv

LEMMA OutputDeltaKeeps ==
  ASSUME ViewsInv, NEW a \in ViewAgents, NEW call, NEW channel \in Views!Channels, NEW offset,
         Views!OutputDelta(a, call, channel, offset)
  PROVE  ViewsInv'
<1> DEFINE o == outputs[a][call]
           n == [o EXCEPT !.bytes = [o.bytes EXCEPT ![channel] = o.bytes[channel] + 1]]
<1>1. call \in 1..Len(outputs[a]) /\ o.status = "active" /\ Views!Active(a, call)
  BY DEF Views!OutputDelta, Views!Active, Views!Known, Views!Calls
<1>2. o \in OutputRecord
  BY <1>1, TalkFacts
<1> HIDE DEF o
<1>3. n \in OutputRecord /\ n.context = o.context /\ n.status = "active"
  <2> DEFINE m == [o.bytes EXCEPT ![channel] = o.bytes[channel] + 1]
  <2>1. o.bytes \in [Views!Channels -> Nat] /\ o.status = "active"
    BY <1>1, <1>2 DEF OutputRecord
  <2>2. m \in [Views!Channels -> Nat]
    BY <2>1
  <2> HIDE DEF m
  <2>3. n = [o EXCEPT !.bytes = m]
    BY DEF m
  <2>4. [o EXCEPT !.bytes = m] \in OutputRecord
    BY <1>2, <2>2 DEF OutputRecord
  <2>5. n.context = o.context /\ n.status = o.status
    BY <1>2, <2>3 DEF OutputRecord
  <2> QED
    BY <2>1, <2>3, <2>4, <2>5
<1> USE DEF o
<1>4. outputs' = [outputs EXCEPT ![a] = [outputs[a] EXCEPT ![call] = n]]
  <2>1. outputs' = [outputs EXCEPT ![a][call].bytes[channel] = outputs[a][call].bytes[channel] + 1]
    BY DEF Views!OutputDelta
  <2> QED
    BY <2>1
<1> HIDE DEF n, o
<1>5. UNCHANGED <<agents, registered, histories, lastBatch, usage, messages, receipts, chunks,
                  contents, tools, work, research, noted>>
  BY DEF Views!OutputDelta, Views!talk, Views!mail, Views!body, Views!job
<1> QED
  BY <1>1, <1>3, <1>4, <1>5, OutputChanges DEF o

LEMMA OutputFinishedKeeps ==
  ASSUME ViewsInv, NEW a \in ViewAgents, NEW call, NEW status \in {"complete", "failed"},
         NEW position \in Nat, NEW bytes, Views!OutputFinished(a, call, status, position, bytes)
  PROVE  ViewsInv'
<1> DEFINE o == outputs[a][call]
           n == [o EXCEPT !.status = status, !.position = position]
<1>1. call \in 1..Len(outputs[a]) /\ o.status = "active" /\ Views!Active(a, call)
  BY DEF Views!OutputFinished, Views!Active, Views!Known, Views!Calls
<1>2. o \in OutputRecord
  BY <1>1, TalkFacts
<1>3. n \in OutputRecord /\ n.context = o.context /\ n.status = status /\ n.position = position
  BY <1>1, <1>2 DEF OutputRecord
<1>4. outputs' = [outputs EXCEPT ![a] = [outputs[a] EXCEPT ![call] = n]]
  <2>1. outputs' = [outputs EXCEPT ![a][call].status = status, ![a][call].position = position]
    BY DEF Views!OutputFinished
  <2> QED
    BY <1>1, <2>1, TalkFacts DEF TalkTypes
<1>5. status = "complete" =>
        position \in 1..Len(histories[a]) /\ histories[a][position].output = call
  BY DEF Views!OutputFinished, Views!Positions
<1> HIDE DEF n, o
<1>6. UNCHANGED <<agents, registered, histories, lastBatch, usage, messages, receipts, chunks,
                  contents, tools, work, research, noted>>
  BY DEF Views!OutputFinished, Views!talk, Views!mail, Views!body, Views!job
<1> QED
  BY <1>1, <1>3, <1>4, <1>5, <1>6, OutputChanges DEF o

LEMMA HistoryAppendedKeeps ==
  ASSUME ViewsInv, NEW a \in ViewAgents, NEW position, NEW role \in {"assistant", "tool"},
         NEW of \in Nat, Views!HistoryAppended(a, position, role, of)
  PROVE  ViewsInv'
<1> DEFINE n == [role |-> role, output |-> of]
<1>1. /\ histories' = [histories EXCEPT ![a] = Append(histories[a], n)] /\ agents[a].revision > 0
      /\ of # 0 => of \in 1..Len(outputs[a]) /\ role = "assistant"
      /\ contents' = chunks \/ contents' = contents
      /\ UNCHANGED <<agents, registered, outputs, lastBatch, usage, messages, receipts, chunks,
                     tools, work, research, noted>>
  BY DEF Views!HistoryAppended, Views!Started, Views!Active, Views!Known, Views!Calls, Views!Framed, Views!Plain, Views!mail, Views!job
<1>2. n \in EntryRecord /\ n.role = role /\ n.output = of
  BY DEF EntryRecord
<1> HIDE DEF n
<1>3. /\ histories'[a] = Append(histories[a], n) /\ Append(histories[a], n) \in Seq(EntryRecord)
      /\ histories' \in [ViewAgents -> Seq(EntryRecord)]
  BY <1>1, <1>2, TalkFacts DEF TalkTypes
<1>4. Fits(agents[a], registered[a], outputs[a], Append(histories[a], n), usage[a], lastBatch[a])
  BY <1>1, <1>2, TalkFacts, FitsEntry
<1>5. TalkInv'
  BY <1>1, <1>3, <1>4, TalkFacts, TalkChanges DEF ViewsInv, TalkTypes, AgentFits
<1>6. MailInv'
  BY <1>1 DEF ViewsInv, MailInv
<1> QED
  BY <1>1, <1>5, <1>6, WorkStays, NotedStays DEF ViewsInv

LEMMA UsageKeeps ==
  ASSUME ViewsInv, NEW a \in ViewAgents, NEW call, Views!Usage(a, call)
  PROVE  ViewsInv'
<1>1. /\ usage' = [usage EXCEPT ![a] = usage[a] + 1] /\ usage[a] + 1 \in 1..Len(outputs[a])
      /\ UNCHANGED <<agents, registered, outputs, histories, lastBatch, messages, receipts, chunks,
                     contents, tools, work, research, noted>>
  BY DEF Views!Usage, Views!Known, Views!Calls, Views!talk, Views!mail, Views!body, Views!job
<1>2. usage'[a] = usage[a] + 1 /\ usage' \in [ViewAgents -> Nat]
  BY <1>1, TalkFacts DEF TalkTypes
<1>3. Fits(agents[a], registered[a], outputs[a], histories[a], usage[a] + 1, lastBatch[a])
  <2>1. lastBatch[a].revision <= Len(histories[a])
    BY TalkFacts DEF Fits
  <2> QED
    BY <1>1, <2>1, TalkFacts, FitsStill
<1>4. TalkInv'
  BY <1>1, <1>2, <1>3, TalkFacts, TalkChanges DEF ViewsInv, TalkTypes, AgentFits
<1> QED
  BY <1>1, <1>4, WorkStays, MailStays, NotedStays DEF ViewsInv

\* The last batch is of the history as it is, or there is none.
LEMMA BatchChanges ==
  ASSUME ViewsInv, NEW a \in ViewAgents, NEW d \in Batch, d.revision <= Len(histories[a]),
         lastBatch' = [lastBatch EXCEPT ![a] = d],
         UNCHANGED <<agents, registered, outputs, histories, usage, messages, receipts, chunks,
                     contents, tools, work, research, noted>>
  PROVE  ViewsInv'
<1>1. lastBatch'[a] = d /\ lastBatch' \in [ViewAgents -> Batch]
  BY TalkFacts DEF TalkTypes
<1>2. Fits(agents[a], registered[a], outputs[a], histories[a], usage[a], d)
  <2>1. usage[a] <= Len(outputs[a])
    BY TalkFacts DEF Fits
  <2> QED
    BY <2>1, TalkFacts, FitsStill
<1>3. TalkInv'
  BY <1>1, <1>2, TalkFacts, TalkChanges DEF ViewsInv, TalkTypes, AgentFits
<1> QED
  BY <1>3, WorkStays, MailStays, NotedStays DEF ViewsInv

LEMMA BatchesKeep ==
  ASSUME ViewsInv, NEW a \in ViewAgents, NEW c \in Nat, NEW p \in Nat,
         Views!ToolBatch(a, c, p) \/ Views!AgentYielded(a, c, p)
  PROVE  ViewsInv'
<1>1. CASE Views!ToolBatch(a, c, p)
  <2> DEFINE d == [calls |-> c, revision |-> p]
  <2>1. d \in Batch /\ d.revision = p /\ p <= Len(histories[a])
    BY <1>1, TalkFacts DEF Views!ToolBatch, Batch
  <2>2. lastBatch' = [lastBatch EXCEPT ![a] = d]
    BY <1>1 DEF Views!ToolBatch
  <2> HIDE DEF d
  <2> QED
    BY <1>1, <2>1, <2>2, BatchChanges DEF Views!ToolBatch, Views!mail, Views!body, Views!job
<1>2. CASE Views!AgentYielded(a, c, p)
  <2>1. Views!NoBatch \in Batch /\ Views!NoBatch.revision <= Len(histories[a])
    BY TalkFacts DEF Views!NoBatch, Batch
  <2>2. lastBatch' = [lastBatch EXCEPT ![a] = Views!NoBatch]
    BY <1>2 DEF Views!AgentYielded
  <2> QED
    BY <1>2, <2>1, <2>2, BatchChanges DEF Views!AgentYielded, Views!mail, Views!body, Views!job
<1> QED
  BY <1>1, <1>2

----------------------------------------------------------------------------
LEMMA MailKeeps ==
  ASSUME ViewsInv, (\E o : Views!ContentChunk(o)) \/ Views!Message \/ \E s : Views!Ack(s)
  PROVE  ViewsInv'
<1>1. /\ UNCHANGED <<agents, registered, outputs, histories, usage, lastBatch, work, research, tools,
                     noted>>
      /\ (messages => messages') /\ (receipts' # receipts => messages)
      /\ (contents' = contents) /\ (chunks' # chunks => contents = 0)
  BY DEF Views!ContentChunk, Views!Message, Views!Ack, Views!talk, Views!mail, Views!body, Views!job
<1>2. MailInv'
  BY <1>1 DEF ViewsInv, MailInv
<1> QED
  BY <1>1, <1>2, TalkStays, WorkStays, NotedStays DEF ViewsInv

LEMMA WorkKeeps ==
  ASSUME ViewsInv, NEW revision, NEW kind, NEW state, NEW assigned \in Nat, NEW a \in ViewAgents,
         NEW says, NEW of, Views!Work(revision, kind, state, assigned, a, says, of)
  PROVE  ViewsInv'
<1>1. /\ UNCHANGED <<agents, registered, outputs, histories, usage, lastBatch, messages, receipts,
                     chunks, contents, research, tools, noted>>
      /\ work' = [revision |-> revision, kind |-> kind,
                  bindings |-> IF state = "active" /\ assigned > 0
                               THEN {b \in work.bindings : b[1] # assigned} \cup {<<assigned, a>>}
                               ELSE work.bindings]
  BY DEF Views!Work, Views!talk, Views!mail, Views!body
<1>2. work'.bindings = work.bindings
      \/ work'.bindings = {b \in work.bindings : b[1] # assigned} \cup {<<assigned, a>>}
  BY <1>1
<1>3. work'.bindings \subseteq Nat \X ViewAgents
  BY <1>2 DEF ViewsInv, WorkInv
<1>4. \A b, c \in work'.bindings : b[1] = c[1] => b = c
  BY <1>2 DEF ViewsInv, WorkInv
<1>5. WorkInv'
  BY <1>1, <1>3, <1>4 DEF ViewsInv, WorkInv, Views!NoRun
<1> QED
  BY <1>1, <1>5, TalkStays, MailStays, NotedStays DEF ViewsInv

LEMMA ToolsKeep ==
  ASSUME ViewsAssumption, ViewsInv, NEW a \in ViewAgents,
         Views!ToolStarted(a) \/ \E assigned : Views!ToolFinished(a, assigned)
  PROVE  ViewsInv'
<1>1. /\ UNCHANGED <<agents, registered, outputs, histories, usage, lastBatch, messages, receipts,
                     chunks, contents, research, work, noted>>
      /\ tools.by # "none" => tools'.by = tools.by
  <2>1. CASE Views!ToolStarted(a)
    BY <2>1 DEF Views!ToolStarted, Views!talk, Views!mail, Views!body
  <2>2. CASE \E assigned : Views!ToolFinished(a, assigned)
    <3>1. tools' = [tools EXCEPT !.finished = TRUE]
      BY <2>2 DEF Views!ToolFinished
    <3>2. tools'.by = tools.by
      BY <3>1
    <3> QED
      BY <2>2, <3>2 DEF Views!ToolFinished, Views!talk, Views!mail, Views!body
  <2> QED
    BY <2>1, <2>2
<1>2. WorkInv'
  BY <1>1 DEF ViewsInv, WorkInv, Views!NoRun
<1> QED
  BY <1>1, <1>2, TalkStays, MailStays, NotedStays DEF ViewsInv

LEMMA ResearchKeeps ==
  ASSUME ViewsAssumption, ViewsInv, NEW a \in ViewAgents, NEW assigned, NEW kind,
         NEW sequence, sequence >= 1, NEW completed, NEW source,
         Views!Research(a, assigned, kind, sequence, completed, source)
  PROVE  ViewsInv'
<1>1. /\ UNCHANGED <<agents, registered, outputs, histories, usage, lastBatch, messages, receipts,
                     chunks, contents, tools, work, noted>>
      /\ registered[a] = "deep_researcher"
      /\ research'.sequence = sequence /\ research'.by = a
      /\ tools.by = a \/ (research.status = "running" /\ research.by = a)
  BY DEF Views!Research, Views!talk, Views!mail, Views!body
<1>2. tools.by # "none"
  <2>1. research.status = "running" => research # Views!NoRun
    BY DEF Views!NoRun
  <2> QED
    BY <1>1, <2>1 DEF ViewsInv, WorkInv, ViewsAssumption
<1>3. WorkInv'
  BY <1>1, <1>2 DEF ViewsInv, WorkInv
<1> QED
  BY <1>1, <1>3, TalkStays, MailStays, NotedStays DEF ViewsInv

LEMMA NotedKeeps ==
  ASSUME ViewsInv, NEW a \in ViewAgents, NEW kind, NEW call, Views!Noted(a, kind, call)
  PROVE  ViewsInv'
<1>1. /\ UNCHANGED <<agents, registered, outputs, histories, usage, lastBatch, messages, receipts,
                     chunks, contents, tools, work, research>>
      /\ noted' = {<<kind, a, call>>}
  BY DEF Views!Noted, Views!talk, Views!mail, Views!body, Views!job
<1>2. kind = "commentary" => call = 0 \/ Views!Complete(a, call)
  BY DEF Views!Noted
<1>3. \A n \in noted' : n[1] = kind /\ n[2] = a /\ n[3] = call
  BY <1>1
<1>4. NotedInv'
  <2>1. Views!Complete(a, call)' <=> Views!Complete(a, call)
    BY <1>1 DEF Views!Complete, Views!Known, Views!Calls
  <2> QED
    BY <1>2, <1>3, <2>1 DEF NotedInv
<1> QED
  BY <1>1, <1>4, TalkStays, WorkStays, MailStays DEF ViewsInv

----------------------------------------------------------------------------
LEMMA ViewsInitially == Views!Init => ViewsInv
<1> SUFFICES ASSUME Views!Init PROVE ViewsInv
  OBVIOUS
<1>1. TalkTypes
  BY DEF Views!Init, TalkTypes, AgentRecord, Roles, Batch, Views!NoBatch
<1>2. ASSUME NEW a \in ViewAgents PROVE AgentFits(a)
  <2>1. /\ agents[a] \in AgentRecord /\ registered[a] = "none" /\ outputs[a] = <<>>
        /\ histories[a] = <<>> /\ usage[a] = 0 /\ lastBatch[a] = Views!NoBatch
    BY <1>1 DEF Views!Init, TalkTypes
  <2>2. Views!NoBatch \in Batch /\ Views!NoBatch.revision = 0
    BY DEF Views!NoBatch, Batch
  <2> QED
    BY <2>1, <2>2 DEF AgentFits, Fits, Roles
<1>3. WorkInv
  BY DEF Views!Init, WorkInv
<1> QED
  BY <1>1, <1>2, <1>3 DEF Views!Init, ViewsInv, TalkInv, MailInv, NotedInv

LEMMA TalkKeeps ==
  ASSUME ViewsInv, NEW a \in ViewAgents, NEW most, NEW places, Views!Talk(a, most, places)
  PROVE  ViewsInv'
<1>1. PICK c \in 0..most, p \in 0..places :
        \/ Views!OutputStarted(a, c, p) \/ Views!AgentYielded(a, c, p) \/ Views!ToolBatch(a, c, p)
        \/ \E l \in Views!Channels : Views!OutputDelta(a, c, l, p)
        \/ \E r \in {"assistant", "tool"} : Views!HistoryAppended(a, p, r, c)
        \/ \E s \in {"complete", "failed"}, b \in [Views!Channels -> 0..ViewBytes] :
             Views!OutputFinished(a, c, s, p, b)
  BY DEF Views!Talk
<1>2. c \in Nat /\ p \in Nat
  OBVIOUS
<1> QED
  BY <1>1, <1>2, OutputStartedKeeps, BatchesKeep, OutputDeltaKeeps, HistoryAppendedKeeps,
     OutputFinishedKeeps

LEMMA ViewsStep == ViewsAssumption /\ ViewsInv /\ [Views!Next]_(Views!vars) => ViewsInv'
<1> SUFFICES ASSUME ViewsAssumption, ViewsInv, [Views!Next]_(Views!vars) PROVE ViewsInv'
  OBVIOUS
<1>1. CASE UNCHANGED Views!vars
  BY <1>1, TalkStays, WorkStays, MailStays, NotedStays DEF Views!vars, Views!talk, Views!mail, Views!body, Views!job, ViewsInv
<1>2. CASE Views!SessionStarted \/ Views!SessionClosed
  BY <1>2, TalkStays, WorkStays, MailStays, NotedStays
     DEF Views!SessionStarted, Views!SessionClosed, Views!talk, Views!mail, Views!body, Views!job, ViewsInv
<1>3. ASSUME NEW a \in ViewAgents, NEW parent \in ViewAgents \cup {ViewUser}, Views!AgentStarted(a, parent)
      PROVE  ViewsInv'
  BY <1>3, AgentStartedKeeps
<1>4. ASSUME NEW a \in ViewAgents, Views!TheWork(a) PROVE ViewsInv'
  <2>1. CASE \E p \in (ViewAgents \ {a}) \cup {ViewUser} :
               Views!AgentStarted(a, p) \/ \E r \in Views!Creatable \cup Views!Heads : Views!AgentRegistered(a, p, r)
    BY <2>1, AgentStartedKeeps, AgentRegisteredKeeps
  <2>2. CASE Views!ToolStarted(a) \/ \E r \in 0..ViewRevision : Views!ToolFinished(a, r)
    BY <2>2, ToolsKeep
  <2>3. CASE \E r, n \in 0..ViewRevision, k \in {"deep_research", "implementation"} :
               \/ Views!Work(r, k, "active", n, a, "nothing", 0)
               \/ \E e \in {"brief", "report"} : Views!Work(r, k, "delivered", n, a, e, n)
    BY <2>3, WorkKeeps
  <2>4. CASE \E r \in 0..ViewRevision, k \in {"started", "step", "finished"}, q \in 1..ViewSteps,
               c \in 0..1, s \in {"none", "s1"} : Views!Research(a, r, k, q, c, s)
    BY <2>4, ResearchKeeps
  <2> QED
    BY <1>4, <2>1, <2>2, <2>3, <2>4 DEF Views!TheWork
<1>5. ASSUME NEW a \in ViewAgents, Views!TheMail(a) \/ Views!TheRest(a) PROVE ViewsInv'
  <2>1. CASE Views!TheMail(a)
    BY <2>1, MailKeeps, NotedKeeps DEF Views!TheMail
  <2>2. CASE Views!TheRest(a)
    <3>1. ViewUser \in ViewAgents \cup {ViewUser}
      OBVIOUS
    <3> QED
      BY <2>2, <3>1, AgentStateKeeps, AgentRegisteredKeeps, UsageKeeps, NotedKeeps DEF Views!TheRest
  <2> QED
    BY <1>5, <2>1, <2>2
<1>6. Views!TheOne \in ViewAgents
  BY DEF Views!TheOne, ViewsAssumption
<1>7. ASSUME NEW c, NEW p, Views!Talk(Views!TheOne, c, p) PROVE ViewsInv'
  BY <1>6, <1>7, TalkKeeps
<1>8. CASE Views!AgentStarted(Views!TheOne, ViewUser)
  BY <1>3, <1>6, <1>8
<1>9. CASE Views!Next
  <2>1. \/ Views!SessionStarted \/ Views!SessionClosed \/ \E a \in ViewAgents : Views!TheWork(a)
        \/ Views!AgentStarted(Views!TheOne, ViewUser) \/ Views!Talk(Views!TheOne, ViewCalls, ViewHistory)
        \/ Views!Talk(Views!TheOne, 1, 1) \/ Views!TheMail(Views!TheOne) \/ Views!TheRest(Views!TheOne)
    BY <1>9, Zenon DEF Views!Next
  <2> QED
    BY <1>2, <1>4, <1>5, <1>6, <1>7, <1>8, <2>1
<1> QED
  BY <1>1, <1>9

----------------------------------------------------------------------------
\* A page ends just before the first of the one after it, and going on takes all there is.
LEMMA PageFollows ==
  ASSUME NEW n \in Nat, NEW limit \in 1..2, NEW before \in Nat, NEW first \in Nat,
         first \in Views!PageOf(n, before, limit), first > 1
  PROVE  Views!PageOf(n, first, n) = 1..(first - 1)
<1>1. first <= n
  BY DEF Views!PageOf, Views!PageEnd
<1>2. Views!PageEnd(n, first) = first - 1
  BY <1>1 DEF Views!PageEnd
<1> QED
  BY <1>1, <1>2 DEF Views!PageOf

LEMMA PagesFollow == TalkTypes => Views!PagesTile
<1> SUFFICES ASSUME TalkTypes, NEW a \in ViewAgents, NEW limit \in 1..2,
                    NEW n \in {Len(outputs[a]), Len(histories[a])}, NEW before \in 0..(n + 2)
             PROVE  LET page == Views!PageOf(n, before, limit)
                        first == CHOOSE x \in page : \A y \in page : x <= y
                    IN page # {} /\ first > 1 => Views!PageOf(n, first, n) = 1..(first - 1)
  BY DEF Views!PagesTile
<1>1. n \in Nat
  BY DEF TalkTypes
<1> DEFINE end == Views!PageEnd(n, before)
           low == IF end >= limit THEN end - limit + 1 ELSE 1
           page == Views!PageOf(n, before, limit)
           first == CHOOSE x \in page : \A y \in page : x <= y
<1>2. end \in Nat /\ low \in Nat /\ page = low..end
  BY <1>1 DEF Views!PageEnd, Views!PageOf
<1> HIDE DEF end, low, page
<1>3. page # {} => low \in page /\ \A y \in page : low <= y
  BY <1>2
<1>4. page # {} => first \in page
  BY <1>3
<1>5. page # {} => first \in Nat
  BY <1>2, <1>4
<1> HIDE DEF first
<1>6. page # {} /\ first > 1 => Views!PageOf(n, first, n) = 1..(first - 1)
  BY <1>1, <1>4, <1>5, PageFollows DEF page
<1> QED
  BY <1>6 DEF page, first

LEMMA ViewsFits == ViewsInv => Views!ViewsFit
<1> SUFFICES ASSUME ViewsInv PROVE Views!ViewsFit
  OBVIOUS
<1>1. ASSUME NEW a \in ViewAgents
      PROVE  /\ Len(outputs[a]) > 0 \/ Len(histories[a]) > 0 \/ registered[a] # "none" => Views!Started(a)
             /\ \A c \in Views!Calls(a) :
                  Views!Complete(a, c) => /\ outputs[a][c].position \in Views!Positions(a)
                                          /\ histories[a][outputs[a][c].position] =
                                               [role |-> "assistant", output |-> c]
             /\ \A p \in Views!Positions(a) : histories[a][p].output # 0 =>
                  /\ Views!Known(a, histories[a][p].output)
                  /\ outputs[a][histories[a][p].output].context < p
             /\ usage[a] <= Len(outputs[a]) /\ lastBatch[a].revision <= Len(histories[a])
  BY TalkFacts DEF Fits, Views!Started, Views!Calls, Views!Complete, Views!Known, Views!Positions
<1>2. research.status = "finished" \/ research.completed > 0 => research.sequence >= 1
  BY DEF ViewsInv, WorkInv, Views!NoRun
<1>3. /\ receipts # "none" => messages
      /\ contents # 0 => contents = chunks
      /\ \A b, c \in work.bindings : b[1] = c[1] => b = c
      /\ research # Views!NoRun => registered[research.by] = "deep_researcher" /\ tools.by # "none"
  BY DEF ViewsInv, WorkInv, MailInv
<1>4. \A n \in noted : n[1] = "commentary" => n[3] = 0 \/ Views!Complete(n[2], n[3])
  BY DEF ViewsInv, NotedInv
<1>5. Views!ViewsCohere
  BY <1>1, <1>2, <1>3, <1>4 DEF Views!ViewsCohere
<1>6. Views!PagesTile
  BY PagesFollow DEF ViewsInv, TalkInv
<1> QED
  BY <1>5, <1>6 DEF Views!ViewsFit

\* Whatever records come, and in whatever order, those that the projector takes leave views that
\* fit together, and their pages, read backwards, show everything once (projector.go).
THEOREM ViewsAlwaysFit ==
  ASSUME ViewsAssumption
  PROVE  Views!Spec => []Views!ViewsFit
<1>1. Views!Init => ViewsInv
  BY ViewsInitially
<1>2. ViewsInv /\ [Views!Next]_(Views!vars) => ViewsInv'
  BY ViewsStep
<1>3. ViewsInv => Views!ViewsFit
  BY ViewsFits
<1> QED
  BY <1>1, <1>2, <1>3, PTL DEF Views!Spec

----------------------------------------------------------------------------
(* An agent's exchange with its model (Exchange).                          *)
Entry == [role : {"user", "assistant", "tool"}, calls : Seq(LoopIds), call : LoopIds \cup {""}]

\* The first k calls of the response at p have their results right after it, in order.
Settled(h, p, k) ==
  /\ k \in 0..Len(h[p].calls) /\ p + k <= Len(h)
  /\ \A i \in 1..k : h[p + i] = Loop!Result(h[p].calls[i])
Whole(h, p) == Settled(h, p, Len(h[p].calls))
Owned(h) ==
  \A j \in 1..Len(h) : h[j].role = "tool" =>
    \E p \in 1..(j - 1) : h[p].role = "assistant" /\ j - p <= Len(h[p].calls)

\* Every response is answered; or the last one is up to its k-th call, and there the history ends.
Answered(h) == Owned(h) /\ \A p \in 1..Len(h) : h[p].role = "assistant" => Whole(h, p)
Open(h, k) ==
  /\ Owned(h) /\ k \in Nat /\ Len(h) - k \in 1..Len(h) /\ h[Len(h) - k].role = "assistant"
  /\ Settled(h, Len(h) - k, k)
  /\ \A q \in 1..Len(h) : q # Len(h) - k /\ h[q].role = "assistant" => Whole(h, q)

LoopTypes ==
  /\ history \in Seq(Entry) /\ batch \in Seq(LoopIds) /\ next \in 1..(Len(batch) + 1)
  /\ started \subseteq 1..Len(batch) /\ phase \in Loop!Phases
LoopInv ==
  /\ LoopTypes
  /\ phase \in {"wait", "ask", "generate", "fence"} => Answered(history)
  /\ phase \in {"batch", "running"} =>
       Open(history, next - 1) /\ history[Len(history) - (next - 1)].calls = batch
  /\ phase = "after" => Answered(history) \/ \E k \in Nat : Open(history, k)

----------------------------------------------------------------------------
\* The instance counts as this module does.
LEMMA LoopCounts == \A S : Loop!Cardinality(S) = Cardinality(S)
  BY DEF Loop!Cardinality, Cardinality

LEMMA EntriesAre ==
  /\ Loop!Said("user") \in Entry /\ Loop!Said("user").role = "user"
  /\ \A c \in Seq(LoopIds) : Loop!Asked(c) \in Entry /\ Loop!Asked(c).role = "assistant" /\ Loop!Asked(c).calls = c
  /\ \A id \in LoopIds : Loop!Result(id) \in Entry /\ Loop!Result(id).role = "tool" /\ Loop!Result(id).call = id
<1>1. <<>> \in Seq(LoopIds)
  OBVIOUS
<1> QED
  BY <1>1 DEF Loop!Said, Loop!Asked, Loop!Result, Entry

LEMMA EntryHas ==
  ASSUME NEW h \in Seq(Entry), NEW p \in 1..Len(h)
  PROVE  h[p].calls \in Seq(LoopIds) /\ Len(h[p].calls) \in Nat
<1>1. h[p] \in Entry
  OBVIOUS
<1>2. h[p].calls \in Seq(LoopIds)
  BY <1>1 DEF Entry
<1> QED
  BY <1>2

LEMMA Appended ==
  ASSUME NEW h \in Seq(Entry), NEW e \in Entry
  PROVE  /\ Append(h, e) \in Seq(Entry) /\ Len(Append(h, e)) = Len(h) + 1 /\ Len(h) \in Nat
         /\ Append(h, e)[Len(h) + 1] = e /\ \A i \in 1..Len(h) : Append(h, e)[i] = h[i]
  OBVIOUS

\* What was settled, and what is owned, stays so as the history grows.
LEMMA SettledStays ==
  ASSUME NEW h \in Seq(Entry), NEW e \in Entry, NEW p \in 1..Len(h), NEW k, Settled(h, p, k)
  PROVE  Settled(Append(h, e), p, k)
<1>1. k \in Nat /\ p + k <= Len(h) /\ k \in 0..Len(h[p].calls)
  BY EntryHas DEF Settled
<1> DEFINE m == Append(h, e)
<1>2. Len(m) = Len(h) + 1 /\ Len(h) \in Nat /\ \A i \in 1..Len(h) : m[i] = h[i]
  BY Appended
<1> HIDE DEF m
<1>3. \A i \in 1..k : p + i \in 1..Len(h)
  BY <1>1, <1>2
<1>4. m[p] = h[p] /\ p + k <= Len(m)
  BY <1>1, <1>2
<1>5. \A i \in 1..k : m[p + i] = Loop!Result(m[p].calls[i])
  BY <1>2, <1>3, <1>4 DEF Settled
<1>6. Settled(m, p, k)
  BY <1>1, <1>4, <1>5 DEF Settled
<1> QED
  BY <1>6 DEF m

LEMMA OwnedStays ==
  ASSUME NEW h \in Seq(Entry), NEW e \in Entry, Owned(h),
         e.role = "tool" =>
           \E p \in 1..Len(h) : h[p].role = "assistant" /\ Len(h) + 1 - p <= Len(h[p].calls)
  PROVE  Owned(Append(h, e))
<1> DEFINE m == Append(h, e)
<1>1. /\ Len(m) = Len(h) + 1 /\ Len(h) \in Nat /\ \A i \in 1..Len(h) : m[i] = h[i]
      /\ m[Len(h) + 1] = e
  BY Appended
<1> HIDE DEF m
<1>2. ASSUME NEW j \in 1..Len(m), m[j].role = "tool"
      PROVE  \E p \in 1..(j - 1) : m[p].role = "assistant" /\ j - p <= Len(m[p].calls)
  <2>1. CASE j \in 1..Len(h)
    <3>1. PICK p \in 1..(j - 1) : h[p].role = "assistant" /\ j - p <= Len(h[p].calls)
      BY <1>1, <1>2, <2>1 DEF Owned
    <3>2. p \in 1..Len(h)
      BY <1>1, <2>1
    <3> QED
      BY <1>1, <3>1, <3>2
  <2>2. CASE j = Len(h) + 1
    <3>1. PICK p \in 1..Len(h) : h[p].role = "assistant" /\ Len(h) + 1 - p <= Len(h[p].calls)
      BY <1>1, <1>2, <2>2
    <3>2. p \in 1..(j - 1)
      BY <1>1, <2>2
    <3> QED
      BY <1>1, <2>2, <3>1, <3>2
  <2> QED
    BY <1>1, <2>1, <2>2
<1>3. Owned(m)
  BY <1>2 DEF Owned
<1> QED
  BY <1>3 DEF m

LEMMA WholeStays ==
  ASSUME NEW h \in Seq(Entry), NEW e \in Entry, NEW p \in 1..Len(h), Whole(h, p)
  PROVE  Whole(Append(h, e), p)
<1>1. Append(h, e)[p] = h[p]
  BY Appended
<1> QED
  BY <1>1, SettledStays DEF Whole

LEMMA SaidIsAnswered ==
  ASSUME NEW h \in Seq(Entry), Answered(h)
  PROVE  Answered(Append(h, Loop!Said("user")))
<1> DEFINE m == Append(h, Loop!Said("user"))
<1>1. Loop!Said("user") \in Entry /\ Loop!Said("user").role = "user"
  BY EntriesAre
<1>2. Owned(m)
  BY <1>1, OwnedStays DEF Answered
<1>3. ASSUME NEW p \in 1..Len(m), m[p].role = "assistant" PROVE Whole(m, p)
  <2>1. p \in 1..Len(h) /\ m[p] = h[p]
    BY <1>1, <1>3, Appended
  <2> QED
    BY <1>1, <1>3, <2>1, WholeStays DEF Answered
<1> QED
  BY <1>2, <1>3 DEF Answered

LEMMA AskedIsOpen ==
  ASSUME NEW h \in Seq(Entry), Answered(h), NEW c \in Seq(LoopIds)
  PROVE  /\ Open(Append(h, Loop!Asked(c)), 0)
         /\ c = <<>> => Answered(Append(h, Loop!Asked(c)))
<1> DEFINE m == Append(h, Loop!Asked(c))
<1>1. Loop!Asked(c) \in Entry /\ Loop!Asked(c).role = "assistant" /\ Loop!Asked(c).calls = c
  BY EntriesAre
<1>2. Owned(m)
  BY <1>1, OwnedStays DEF Answered
<1>3. /\ Len(m) = Len(h) + 1 /\ Len(h) \in Nat /\ \A i \in 1..Len(h) : m[i] = h[i]
      /\ m[Len(h) + 1] = Loop!Asked(c) /\ m \in Seq(Entry)
  BY <1>1, Appended
<1>4. ASSUME NEW p \in 1..Len(m), p # Len(m), m[p].role = "assistant" PROVE Whole(m, p)
  <2>1. p \in 1..Len(h) /\ m[p] = h[p]
    BY <1>3, <1>4
  <2> QED
    BY <1>1, <1>4, <2>1, WholeStays DEF Answered
<1> HIDE DEF m
<1>5. Settled(m, Len(m), 0)
  BY <1>1, <1>3, EntryHas DEF Settled
<1>6. Open(m, 0)
  BY <1>1, <1>2, <1>3, <1>4, <1>5 DEF Open
<1>7. ASSUME c = <<>> PROVE Answered(m)
  <2>1. Whole(m, Len(m))
    BY <1>1, <1>3, <1>5, <1>7 DEF Whole
  <2> QED
    BY <1>2, <1>3, <1>4, <2>1 DEF Answered
<1> QED
  BY <1>6, <1>7 DEF m

StillOpen(h, c, k) == Open(h, k) /\ h[Len(h) - k].calls = c /\ h \in Seq(Entry)

LEMMA ResultIsOpen ==
  ASSUME NEW h \in Seq(Entry), NEW k, Open(h, k), NEW c \in Seq(LoopIds),
         c = h[Len(h) - k].calls, k < Len(c)
  PROVE  StillOpen(Append(h, Loop!Result(c[k + 1])), c, k + 1)
<1> USE DEF StillOpen
<1> DEFINE e == Loop!Result(c[k + 1])
           m == Append(h, e)
           p == Len(h) - k
<1>1. k \in Nat /\ p \in 1..Len(h) /\ h[p].role = "assistant" /\ Settled(h, p, k) /\ Owned(h)
  BY DEF Open
<1>2. c[k + 1] \in LoopIds
  BY <1>1
<1>3. e \in Entry /\ e.role = "tool"
  BY <1>2, EntriesAre
<1> HIDE DEF e
<1>4. /\ Len(m) = Len(h) + 1 /\ Len(h) \in Nat /\ \A i \in 1..Len(h) : m[i] = h[i]
      /\ m[Len(h) + 1] = e /\ m \in Seq(Entry)
  BY <1>3, Appended
<1>5. Owned(m)
  <2>1. Len(h) + 1 - p <= Len(h[p].calls)
    BY <1>1, <1>4
  <2> QED
    BY <1>1, <1>3, <2>1, OwnedStays
<1>6. ASSUME NEW q \in 1..Len(m), q # p, m[q].role = "assistant" PROVE Whole(m, q)
  <2>1. q \in 1..Len(h) /\ m[q] = h[q]
    BY <1>3, <1>4, <1>6
  <2> QED
    BY <1>3, <1>6, <2>1, WholeStays DEF Open
<1>7. Len(m) - (k + 1) = p /\ m[p] = h[p] /\ p + (k + 1) = Len(m)
  BY <1>1, <1>4
<1>8. Settled(m, p, k)
  BY <1>1, <1>3, SettledStays
<1> HIDE DEF m, p
<1>9. Settled(m, p, k + 1)
  <2>1. k + 1 \in 0..Len(m[p].calls) /\ p + (k + 1) <= Len(m)
    BY <1>1, <1>4, <1>7 DEF p
  <2>2. ASSUME NEW i \in 1..(k + 1) PROVE m[p + i] = Loop!Result(m[p].calls[i])
    <3>1. CASE i \in 1..k
      BY <1>8, <3>1 DEF Settled
    <3>2. CASE i = k + 1
      BY <1>1, <1>4, <1>7, <3>2 DEF e, p
    <3> QED
      BY <1>1, <3>1, <3>2
  <2> QED
    BY <2>1, <2>2 DEF Settled
<1>10. Open(m, k + 1)
  BY <1>1, <1>4, <1>5, <1>6, <1>7, <1>9 DEF Open
<1>11. m[Len(m) - (k + 1)].calls = c
  BY <1>7 DEF p
<1> QED
  BY <1>4, <1>10, <1>11 DEF m, e

LEMMA OpenIsAnswered ==
  ASSUME NEW h \in Seq(Entry), NEW k, Open(h, k), k >= Len(h[Len(h) - k].calls)
  PROVE  Answered(h)
<1>1. k \in Nat /\ k = Len(h[Len(h) - k].calls)
  BY EntryHas DEF Open, Settled
<1> QED
  BY <1>1 DEF Open, Answered, Whole

----------------------------------------------------------------------------
(* Pending calls.                                                          *)

LEMMA LeastOf == ASSUME NEW S \in SUBSET Nat, S # {} PROVE \E m \in S : \A x \in S : m <= x
<1>1. PICK m \in S : \A x \in S : ~ (<<x, m>> \in OpToRel(<, Nat))
  BY NatLessThanWellFounded, WFMin
<1>2. ASSUME NEW x \in S PROVE m <= x
  <2>1. ~ (x < m)
    BY <1>1, Zenon DEF OpToRel
  <2> QED
    BY <2>1
<1> QED
  BY <1>2

LEMMA GreatestOf ==
  ASSUME NEW n \in Nat, NEW S \in SUBSET (1..n), S # {}
  PROVE  \E m \in S : \A x \in S : x <= m
<1> DEFINE T == {n - x : x \in S}
<1>1. T \in SUBSET Nat /\ T # {}
  <2>1. \A x \in S : n - x \in Nat
    OBVIOUS
  <2> QED
    BY <2>1
<1>2. PICK t \in T : \A x \in T : t <= x
  BY <1>1, LeastOf
<1>3. PICK m \in S : t = n - m
  BY <1>2
<1>4. \A x \in S : n - x \in T
  OBVIOUS
<1>5. \A x \in S : x <= m
  BY <1>2, <1>3, <1>4
<1> QED
  BY <1>5

\* A set of positions shifted has as many members.
LEMMA Shifted ==
  ASSUME NEW S, IsFiniteSet(S), S \subseteq Int, NEW d \in Int, NEW T,
         T = {d + i : i \in S}
  PROVE  Cardinality(S) = Cardinality(T)
<1> DEFINE f == [i \in S |-> d + i]
<1>1. f \in Bijection(S, T)
  <2>1. f \in [S -> T]
    OBVIOUS
  <2>2. \A a, b \in S : f[a] = f[b] => a = b
    OBVIOUS
  <2>3. \A t \in T : \E s \in S : f[s] = t
    OBVIOUS
  <2> QED
    BY <2>1, <2>2, <2>3 DEF Bijection, Injection, Surjection, IsInjective
<1> QED
  BY <1>1, FS_Bijection DEF ExistsBijection

LEMMA UpTo ==
  ASSUME NEW n \in Int, NEW S, S \subseteq 1..n
  PROVE  IsFiniteSet(S) /\ Cardinality(S) \in Nat
<1>1. IsFiniteSet(1..n)
  BY FS_Interval
<1>2. IsFiniteSet(S)
  BY <1>1, FS_Subset
<1> QED
  BY <1>2, FS_CardinalityType

LEMMA Many ==
  ASSUME NEW a \in Int, NEW b \in Int, a <= b + 1
  PROVE  Cardinality(a..b) = b - a + 1
<1>1. Cardinality(a..b) = IF a > b THEN 0 ELSE b - a + 1
  BY FS_Interval
<1> QED
  BY <1>1

LEMMA Listed ==
  ASSUME NEW n \in Nat, NEW c \in [1..n -> Entry]
  PROVE  c \in Seq(Entry) /\ Len(c) = n
  OBVIOUS

LEMMA Joined ==
  ASSUME NEW h \in Seq(Entry), NEW c \in Seq(Entry)
  PROVE  /\ h \o c \in Seq(Entry) /\ Len(h \o c) = Len(h) + Len(c)
         /\ \A i \in 1..Len(h) : (h \o c)[i] = h[i]
         /\ \A i \in 1..Len(c) : (h \o c)[Len(h) + i] = c[i]
  OBVIOUS

\* The last response, with k results after it and nothing more of it.
Reached(p, k) ==
  /\ history \in Seq(Entry) /\ p \in 1..Len(history) /\ history[p].role = "assistant"
  /\ \A q \in 1..Len(history) : history[q].role = "assistant" => q <= p
  /\ Settled(history, p, k)
  /\ \A j \in 1..Len(history) : j > p /\ history[j].role = "tool" => j <= p + k

LEMMA PendingAre ==
  ASSUME NEW p, NEW k, Reached(p, k)
  PROVE  /\ Loop!Positions("assistant") # {} /\ Loop!LastAsked = p
         /\ Loop!PendingCalls = (k + 1)..Len(history[p].calls)
<1> DEFINE s == history[p].calls
           n == Len(s)
<1>1. s \in Seq(LoopIds) /\ n \in Nat /\ k \in 0..n /\ k \in Nat /\ p \in Nat /\ Len(history) \in Nat
  BY EntryHas DEF Reached, Settled
<1>2. p \in Loop!Positions("assistant") /\ \A q \in Loop!Positions("assistant") : q <= p
  BY DEF Reached, Loop!Positions
<1>3. Loop!LastAsked = p
  <2>1. Loop!Positions("assistant") \subseteq Nat
    BY DEF Loop!Positions, Reached
  <2> QED
    BY <1>2, <2>1 DEF Loop!LastAsked
<1>4. \A i \in 1..k : p + i \in 1..Len(history) /\ history[p + i] = Loop!Result(s[i])
  BY <1>1 DEF Reached, Settled
<1> HIDE DEF s, n
<1>5. ASSUME NEW id
      PROVE  /\ IsFiniteSet({i \in 1..k : s[i] = id})
             /\ Loop!Results(id, p) = Cardinality({i \in 1..k : s[i] = id})
  <2> DEFINE S == {i \in 1..k : s[i] = id}
             T == {i \in Loop!Positions("tool") : i > p /\ history[i].call = id}
  <2>1. IsFiniteSet(S)
    <3>1. S \subseteq 1..k /\ k \in Int
      BY <1>1
    <3> HIDE DEF S
    <3> QED
      BY <3>1, UpTo
  <2>2. T = {p + i : i \in S}
    <3>1. ASSUME NEW i \in S PROVE p + i \in T
      <4>1. i \in 1..k /\ s[i] = id /\ p + i > p /\ p + i \in 1..Len(history)
        BY <1>1, <1>4
      <4>2. history[p + i] = Loop!Result(id)
        BY <1>4, <4>1
      <4>5. history[p + i].role = "tool" /\ history[p + i].call = id
        BY <4>2 DEF Loop!Result
      <4>3. p + i \in Loop!Positions("tool")
        BY <4>1, <4>5 DEF Loop!Positions, Reached
      <4> QED
        BY <4>1, <4>5, <4>3
    <3>2. ASSUME NEW j \in T PROVE \E i \in S : j = p + i
      <4>1. j \in 1..Len(history) /\ j > p /\ j <= p + k
        BY DEF Loop!Positions, Reached
      <4>2. j - p \in 1..k /\ j = p + (j - p)
        BY <1>1, <4>1
      <4>3. history[j] = Loop!Result(s[j - p]) /\ history[j].call = id
        BY <1>4, <4>2
      <4>4. s[j - p] = id
        BY <4>3 DEF Loop!Result
      <4> QED
        BY <4>2, <4>4
    <3> QED
      BY <3>1, <3>2
  <2>3. Cardinality(S) = Cardinality(T)
    <3>1. S \subseteq Int /\ p \in Int
      BY <1>1
    <3> HIDE DEF S, T
    <3> QED
      BY <2>1, <2>2, <3>1, Shifted
  <2> QED
    BY <2>1, <2>3, LoopCounts DEF Loop!Results
<1>6. ASSUME NEW i \in 1..n
      PROVE  Cardinality({j \in 1..i : s[j] = s[i]}) > Loop!Results(s[i], p) <=> i > k
  <2> DEFINE S == {j \in 1..i : s[j] = s[i]}
             T == {j \in 1..k : s[j] = s[i]}
  <2>1. IsFiniteSet(S) /\ IsFiniteSet(T) /\ Loop!Results(s[i], p) = Cardinality(T)
    <3>1. S \subseteq 1..i /\ i \in Int
      OBVIOUS
    <3>2. IsFiniteSet(S)
      BY <3>1, UpTo
    <3> QED
      BY <1>5, <3>2
  <2>2. Cardinality(S) \in Nat /\ Cardinality(T) \in Nat
    BY <2>1, FS_CardinalityType
  <2>3. CASE i <= k
    <3>1. S \subseteq T
      BY <1>1, <2>3
    <3>2. Cardinality(S) <= Cardinality(T)
      BY <2>1, <3>1, FS_Subset
    <3> HIDE DEF S, T
    <3> QED
      BY <1>1, <2>1, <2>2, <2>3, <3>2 DEF S
  <2>4. CASE i > k
    <3>1. T \subseteq S /\ i \in S /\ i \notin T
      BY <1>1, <2>4
    <3>2. Cardinality(T) <= Cardinality(S) /\ Cardinality(T) # Cardinality(S)
      BY <2>1, <3>1, FS_Subset
    <3> HIDE DEF S, T
    <3> QED
      BY <1>1, <2>1, <2>2, <2>4, <3>2 DEF S
  <2> QED
    BY <1>1, <2>3, <2>4
<1>7. Loop!PendingCalls = {i \in 1..n : Cardinality({j \in 1..i : s[j] = s[i]}) > Loop!Results(s[i], p)}
  <2>1. DOMAIN s = 1..n
    BY <1>1 DEF n
  <2> QED
    BY <1>2, <1>3, <2>1, LoopCounts DEF Loop!PendingCalls, s
<1>8. Loop!PendingCalls = (k + 1)..n
  BY <1>1, <1>6, <1>7
<1> QED
  BY <1>2, <1>3, <1>8 DEF n, s

LEMMA CancelledAre ==
  ASSUME NEW p, NEW k, Reached(p, k)
  PROVE  LET s == history[p].calls
         IN Loop!Cancelled = [i \in 1..(Len(s) - k) |-> Loop!Result(s[k + i])]
<1> DEFINE s == history[p].calls
           n == Len(s)
<1>1. s \in Seq(LoopIds) /\ n \in Nat /\ k \in 0..n /\ k \in Nat
  BY EntryHas DEF Reached, Settled
<1>2. Loop!PendingCalls = (k + 1)..n /\ Loop!LastAsked = p
  BY PendingAre
<1> HIDE DEF s, n
<1>3. Cardinality(Loop!PendingCalls) = n - k
  <2>1. Cardinality((k + 1)..n) = n - (k + 1) + 1
    BY <1>1, Many
  <2> QED
    BY <1>1, <1>2, <2>1
<1>4. ASSUME NEW i \in 1..(n - k) PROVE Loop!Pending(i) = k + i
  <2>1. ASSUME NEW x \in Loop!PendingCalls
        PROVE  Cardinality({j \in Loop!PendingCalls : j <= x}) = x - k
    <3>1. {j \in Loop!PendingCalls : j <= x} = (k + 1)..x /\ x \in Int /\ x > k
      BY <1>1, <1>2
    <3>2. Cardinality((k + 1)..x) = x - (k + 1) + 1
      BY <1>1, <3>1, Many
    <3>3. Cardinality({j \in Loop!PendingCalls : j <= x}) = x - (k + 1) + 1
      BY <3>1, <3>2
    <3>4. x - (k + 1) + 1 = x - k
      BY <1>1, <3>1
    <3> QED
      BY <3>3, <3>4
  <2>2. k + i \in Loop!PendingCalls /\ Loop!PendingCalls \subseteq Int
    BY <1>1, <1>2
  <2>3. \A x \in Loop!PendingCalls : Cardinality({j \in Loop!PendingCalls : j <= x}) = i <=> x = k + i
    BY <1>1, <2>1, <2>2
  <2> QED
    BY <2>2, <2>3, LoopCounts DEF Loop!Pending
<1>5. Loop!Cancelled = [i \in 1..(n - k) |-> Loop!Result(s[k + i])]
  BY <1>2, <1>3, <1>4, LoopCounts DEF Loop!Cancelled, s
<1> QED
  BY <1>5 DEF s, n

\* What is open, or answered, is reached.
LEMMA OpenReached ==
  ASSUME history \in Seq(Entry), NEW k, Open(history, k)
  PROVE  Reached(Len(history) - k, k)
<1> DEFINE p == Len(history) - k
<1>1. p \in 1..Len(history) /\ k \in Nat /\ Len(history) \in Nat /\ p + k = Len(history)
  BY DEF Open
<1>2. ASSUME NEW q \in 1..Len(history), history[q].role = "assistant" PROVE q <= p
  <2>1. SUFFICES ASSUME q > p PROVE FALSE
    BY <1>1
  <2>2. q - p \in 1..k /\ q = p + (q - p)
    BY <1>1, <2>1
  <2>3. history[q] = Loop!Result(history[p].calls[q - p])
    BY <2>2 DEF Open, Settled
  <2> QED
    BY <1>2, <2>3 DEF Loop!Result
<1>3. Settled(history, p, k) /\ history[p].role = "assistant"
  BY DEF Open
<1> HIDE DEF p
<1>4. \A j \in 1..Len(history) : j <= p + k
  BY <1>1
<1>5. Reached(p, k)
  BY <1>1, <1>2, <1>3, <1>4 DEF Reached
<1> QED
  BY <1>5 DEF p

LEMMA AnsweredReached ==
  ASSUME history \in Seq(Entry), Answered(history), Loop!Positions("assistant") # {}
  PROVE  \E p \in 1..Len(history) : Reached(p, Len(history[p].calls))
<1>1. Loop!Positions("assistant") \subseteq 1..Len(history) /\ Len(history) \in Nat
  BY DEF Loop!Positions
<1>2. PICK p \in Loop!Positions("assistant") : \A q \in Loop!Positions("assistant") : q <= p
  BY <1>1, GreatestOf
<1>3. p \in 1..Len(history) /\ history[p].role = "assistant"
  BY <1>1 DEF Loop!Positions
<1>4. \A q \in 1..Len(history) : history[q].role = "assistant" => q <= p
  BY <1>2 DEF Loop!Positions
<1>5. Len(history[p].calls) \in Nat /\ Whole(history, p)
  BY <1>3, EntryHas DEF Answered
<1>6. ASSUME NEW j \in 1..Len(history), j > p, history[j].role = "tool"
      PROVE  j <= p + Len(history[p].calls)
  <2>1. PICK q \in 1..(j - 1) :
          history[q].role = "assistant" /\ j - q <= Len(history[q].calls)
    BY <1>6 DEF Answered, Owned
  <2>2. q \in 1..Len(history) /\ q <= p
    BY <1>1, <1>4, <2>1
  <2>3. CASE q = p
    BY <1>5, <2>1, <2>3
  <2>4. CASE q < p
    <3>1. Whole(history, q) /\ Len(history[q].calls) \in Nat
      BY <2>1, <2>2, EntryHas DEF Answered
    <3>2. p - q \in 1..Len(history[q].calls) /\ p = q + (p - q)
      <4>1. q \in Int /\ j \in Int /\ p \in Int
        BY <1>1, <1>3, <2>2
      <4> QED
        BY <1>6, <2>1, <2>4, <3>1, <4>1
    <3>3. history[p] = Loop!Result(history[q].calls[p - q])
      BY <3>1, <3>2 DEF Whole, Settled
    <3> QED
      BY <1>3, <3>3 DEF Loop!Result
  <2> QED
    BY <1>3, <2>2, <2>3, <2>4
<1> QED
  BY <1>3, <1>4, <1>5, <1>6 DEF Reached, Whole

\* With what is cancelled, every response is answered.
LEMMA AllAnswered ==
  ASSUME NEW h \in Seq(Entry), NEW k, Open(h, k), NEW c,
         c = [i \in 1..(Len(h[Len(h) - k].calls) - k) |-> Loop!Result(h[Len(h) - k].calls[k + i])]
  PROVE  h \o c \in Seq(Entry) /\ Answered(h \o c)
<1> DEFINE p == Len(h) - k
           s == h[p].calls
           n == Len(s)
           m == h \o c
<1>1. /\ k \in Nat /\ p \in 1..Len(h) /\ Len(h) \in Nat /\ h[p].role = "assistant"
      /\ Settled(h, p, k) /\ Owned(h)
  BY DEF Open
<1>2. s \in Seq(LoopIds) /\ n \in Nat /\ k \in 0..n
  BY <1>1, EntryHas DEF Settled
<1>3. c \in Seq(Entry) /\ Len(c) = n - k /\ \A i \in 1..(n - k) : c[i] = Loop!Result(s[k + i])
  <2>1. \A i \in 1..(n - k) : k + i \in 1..n
    BY <1>1, <1>2
  <2>2. \A i \in 1..(n - k) : Loop!Result(s[k + i]) \in Entry
    BY <1>2, <2>1, EntriesAre
  <2>3. c = [i \in 1..(n - k) |-> Loop!Result(s[k + i])]
    OBVIOUS
  <2> HIDE DEF s, n, p
  <2>4. n - k \in Nat
    BY <1>1, <1>2
  <2>5. c \in [1..(n - k) -> Entry] /\ \A i \in 1..(n - k) : c[i] = Loop!Result(s[k + i])
    BY <2>2, <2>3
  <2> QED
    BY <2>4, <2>5, Listed
<1> HIDE DEF s, n
<1>4. /\ m \in Seq(Entry) /\ Len(m) = p + n /\ Len(h) = p + k
      /\ \A i \in 1..Len(h) : m[i] = h[i]
      /\ \A i \in (k + 1)..n : m[p + i] = Loop!Result(s[i])
  <2>1. /\ m \in Seq(Entry) /\ Len(m) = Len(h) + Len(c) /\ \A i \in 1..Len(h) : m[i] = h[i]
        /\ \A i \in 1..Len(c) : m[Len(h) + i] = c[i]
    BY <1>3, Joined
  <2>2. Len(h) = p + k /\ p \in Int
    BY <1>1
  <2> HIDE DEF m, p
  <2>3. Len(m) = p + n
    BY <1>1, <1>2, <1>3, <2>1, <2>2
  <2>4. ASSUME NEW i \in (k + 1)..n PROVE m[p + i] = Loop!Result(s[i])
    <3>1. i - k \in 1..(n - k) /\ p + i = Len(h) + (i - k) /\ k + (i - k) = i
      BY <1>1, <1>2, <2>2
    <3>2. m[Len(h) + (i - k)] = c[i - k]
      BY <1>3, <2>1, <3>1
    <3>3. c[i - k] = Loop!Result(s[k + (i - k)])
      BY <1>3, <3>1
    <3> QED
      BY <3>1, <3>2, <3>3
  <2> QED
    BY <2>1, <2>2, <2>3, <2>4
<1> HIDE DEF m
<1>5. m[p] = h[p] /\ p \in Nat
  BY <1>1, <1>4
<1> HIDE DEF p
<1>6. Whole(m, p)
  <2>1. ASSUME NEW i \in 1..n PROVE m[p + i] = Loop!Result(s[i])
    <3>1. CASE i \in 1..k
      <4>1. p + i \in 1..Len(h)
        BY <1>1, <1>4, <1>5, <3>1
      <4> QED
        BY <1>1, <1>4, <3>1, <4>1 DEF Settled, s
    <3>2. CASE i \in (k + 1)..n
      BY <1>4, <3>2
    <3> QED
      BY <1>1, <1>2, <3>1, <3>2
  <2> QED
    BY <1>2, <1>4, <1>5, <2>1 DEF Whole, Settled, s, n
<1>7. ASSUME NEW j \in 1..Len(m), j > Len(h) PROVE m[j].role = "tool" /\ j > p /\ j - p <= n
  <2>1. j - p \in (k + 1)..n /\ j = p + (j - p) /\ j > p
    BY <1>1, <1>2, <1>4, <1>5, <1>7
  <2>2. m[j] = Loop!Result(s[j - p])
    BY <1>4, <2>1
  <2> QED
    BY <1>1, <2>1, <2>2 DEF Loop!Result
<1>8. ASSUME NEW q \in 1..Len(m), m[q].role = "assistant" PROVE Whole(m, q)
  <2>1. q \in 1..Len(h)
    BY <1>1, <1>7, <1>8
  <2>2. m[q] = h[q]
    BY <1>4, <2>1
  <2>3. CASE q = p
    BY <1>6, <2>3
  <2>4. CASE q # p
    <3>1. Whole(h, q) /\ Len(h[q].calls) \in Nat
      BY <1>8, <2>1, <2>2, <2>4, EntryHas DEF Open, p
    <3>2. \A i \in 1..Len(h[q].calls) : q + i \in 1..Len(h)
      BY <1>1, <2>1, <3>1 DEF Whole, Settled
    <3>3. q + Len(h[q].calls) <= Len(m)
      BY <1>1, <1>2, <1>4, <1>5, <2>1, <3>1 DEF Whole, Settled
    <3> QED
      BY <1>4, <2>2, <3>1, <3>2, <3>3 DEF Whole, Settled
  <2> QED
    BY <2>3, <2>4
<1>9. ASSUME NEW j \in 1..Len(m), m[j].role = "tool"
      PROVE  \E q \in 1..(j - 1) : m[q].role = "assistant" /\ j - q <= Len(m[q].calls)
  <2>1. CASE j > Len(h)
    <3>1. p \in 1..(j - 1) /\ m[p].role = "assistant" /\ j - p <= Len(m[p].calls)
      BY <1>1, <1>5, <1>7, <2>1 DEF s, n
    <3> QED
      BY <3>1
  <2>2. CASE j <= Len(h)
    <3>1. j \in 1..Len(h) /\ m[j] = h[j]
      BY <1>1, <1>4, <2>2
    <3>2. PICK q \in 1..(j - 1) : h[q].role = "assistant" /\ j - q <= Len(h[q].calls)
      BY <1>1, <1>9, <3>1 DEF Owned
    <3>3. m[q] = h[q]
      BY <1>1, <1>4, <3>1, <3>2
    <3> QED
      BY <3>2, <3>3
  <2> QED
    BY <1>1, <2>1, <2>2
<1>10. Answered(m)
  BY <1>8, <1>9 DEF Answered, Owned
<1> QED
  BY <1>4, <1>10 DEF m

----------------------------------------------------------------------------
LEMMA LoopInitially == Loop!Init => LoopInv
  BY DEF Loop!Init, LoopInv, LoopTypes, Loop!Phases, Answered, Owned

LEMMA SettlingIsAnswered ==
  ASSUME LoopInv, phase = "after"
  PROVE  history \o Loop!Cancelled \in Seq(Entry) /\ Answered(history \o Loop!Cancelled)
<1>1. history \in Seq(Entry) /\ Len(history) \in Nat
  BY DEF LoopInv, LoopTypes
<1>2. CASE Answered(history)
  <2>1. Loop!Cancelled = <<>>
    <3>1. CASE Loop!Positions("assistant") = {}
      <4>1. Loop!PendingCalls = {}
        BY <3>1 DEF Loop!PendingCalls
      <4>2. Cardinality(Loop!PendingCalls) = 0
        BY <4>1, FS_EmptySet
      <4> QED
        BY <4>2, LoopCounts DEF Loop!Cancelled
    <3>2. CASE Loop!Positions("assistant") # {}
      <4>1. PICK p \in 1..Len(history) : Reached(p, Len(history[p].calls))
        BY <1>1, <1>2, <3>2, AnsweredReached
      <4>2. Len(history[p].calls) \in Nat
        BY <1>1, EntryHas
      <4>3. Len(history[p].calls) - Len(history[p].calls) = 0
        BY <4>2
      <4> DEFINE n == Len(history[p].calls)
      <4>4. Loop!Cancelled = [i \in 1..(n - n) |-> Loop!Result(history[p].calls[n + i])]
        BY <4>1, CancelledAre
      <4> QED
        BY <4>3, <4>4
    <3> QED
      BY <3>1, <3>2
  <2> QED
    BY <1>1, <1>2, <2>1
<1>3. CASE \E k \in Nat : Open(history, k)
  <2>1. PICK k \in Nat : Open(history, k)
    BY <1>3
  <2>2. Reached(Len(history) - k, k)
    BY <1>1, <2>1, OpenReached
  <2> DEFINE s == history[Len(history) - k].calls
  <2>3. Loop!Cancelled = [i \in 1..(Len(s) - k) |-> Loop!Result(s[k + i])]
    BY <2>2, CancelledAre
  <2> QED
    BY <1>1, <2>1, <2>3, AllAnswered
<1> QED
  BY <1>2, <1>3 DEF LoopInv

\* What moves the loop without a word in the history.
LEMMA LoopStep == LoopInv /\ [Loop!Next]_(Loop!vars) => LoopInv'
<1> SUFFICES ASSUME LoopInv, [Loop!Next]_(Loop!vars) PROVE LoopInv'
  OBVIOUS
<1>0. history \in Seq(Entry) /\ Len(history) \in Nat /\ batch \in Seq(LoopIds) /\ Len(batch) \in Nat
  BY DEF LoopInv, LoopTypes
<1>1. CASE UNCHANGED Loop!vars
  BY <1>1 DEF Loop!vars, LoopInv, LoopTypes
<1>2. CASE Loop!Consume
  <2>1. Append(history, Loop!Said("user")) \in Seq(Entry)
    BY <1>0, EntriesAre
  <2> QED
    BY <1>0, <1>2, <2>1, SaidIsAnswered DEF Loop!Consume, Loop!running, LoopInv, LoopTypes, Loop!Phases
<1>3. CASE Loop!Request \/ Loop!GenerationEnds
  BY <1>3 DEF Loop!Request, Loop!GenerationEnds, Loop!running, LoopInv, LoopTypes, Loop!Phases
<1>4. CASE Loop!Regenerate
  <2>1. Append(history, Loop!Said("user")) \in Seq(Entry)
    BY <1>0, EntriesAre
  <2> QED
    BY <1>0, <1>4, <2>1, SaidIsAnswered DEF Loop!Regenerate, Loop!running, LoopInv, LoopTypes, Loop!Phases
<1>5. ASSUME NEW asked \in Loop!Batches, NEW atOnce \in BOOLEAN, Loop!Respond(asked, atOnce) PROVE LoopInv'
  <2>1. asked \in Seq(LoopIds) /\ Len(asked) \in Nat
    <3>1. PICK n \in 0..LoopBatch : asked \in [1..n -> LoopIds]
      BY DEF Loop!Batches
    <3> QED
      BY <3>1
  <2>2. /\ Append(history, Loop!Asked(asked)) \in Seq(Entry)
        /\ Len(Append(history, Loop!Asked(asked))) = Len(history) + 1
        /\ Append(history, Loop!Asked(asked))[Len(history) + 1] = Loop!Asked(asked)
        /\ Loop!Asked(asked).calls = asked
    BY <1>0, <2>1, EntriesAre, Appended
  <2>3. Answered(history)
    BY <1>5 DEF Loop!Respond, LoopInv
  <2>4. Open(Append(history, Loop!Asked(asked)), 0)
        /\ (asked = <<>> => Answered(Append(history, Loop!Asked(asked))))
    BY <1>0, <2>1, <2>3, AskedIsOpen
  <2>5. /\ history' = Append(history, Loop!Asked(asked)) /\ batch' = asked /\ next' = 1
        /\ started' = {} /\ phase' \in {"wait", "running", "batch"}
        /\ phase' = "wait" => asked = <<>>
    BY <1>5 DEF Loop!Respond
  <2>6. Len(history') - (next' - 1) = Len(history) + 1 /\ next' - 1 = 0
    BY <1>0, <2>2, <2>5
  <2> QED
    BY <1>0, <2>1, <2>2, <2>4, <2>5, <2>6 DEF LoopInv, LoopTypes, Loop!Phases
<1>6. CASE Loop!ReplyRefused
  <2> DEFINE h == Append(history, Loop!Asked(<<>>))
  <2>1. <<>> \in Seq(LoopIds)
    OBVIOUS
  <2>2. h \in Seq(Entry) /\ Answered(h)
    <3>1. Loop!Asked(<<>>) \in Entry
      BY <2>1, EntriesAre
    <3>2. h \in Seq(Entry)
      BY <1>0, <3>1
    <3>3. Answered(history)
      BY <1>6 DEF Loop!ReplyRefused, LoopInv
    <3>4. Answered(h)
      BY <1>0, <2>1, <3>3, AskedIsOpen
    <3> QED
      BY <3>2, <3>4
  <2>3. Append(h, Loop!Said("user")) \in Seq(Entry) /\ Answered(Append(h, Loop!Said("user")))
    <3> HIDE DEF h
    <3>1. Loop!Said("user") \in Entry
      BY EntriesAre
    <3> QED
      BY <2>2, <3>1, SaidIsAnswered, Appended
  <2>4. history \o <<Loop!Asked(<<>>), Loop!Said("user")>> = Append(h, Loop!Said("user"))
    BY <1>0, <2>1, EntriesAre
  <2> HIDE DEF h
  <2> QED
    BY <1>6, <2>3, <2>4 DEF Loop!ReplyRefused, Loop!running, LoopInv, LoopTypes, Loop!Phases
<1>7. CASE Loop!RunTogether
  <2>1. DOMAIN batch = 1..Len(batch)
    BY <1>0
  <2> QED
    BY <1>7, <2>1 DEF Loop!RunTogether, LoopInv, LoopTypes, Loop!Phases
<1>8. CASE Loop!Start
  BY <1>0, <1>8 DEF Loop!Start, LoopInv, LoopTypes, Loop!Phases
<1>9. ASSUME NEW same \in BOOLEAN, Loop!Settle(same) PROVE LoopInv'
  <2>1. /\ Open(history, next - 1) /\ history[Len(history) - (next - 1)].calls = batch
        /\ next \in 1..Len(batch)
    BY <1>9 DEF Loop!Settle, LoopInv, LoopTypes
  <2> DEFINE m == Append(history, Loop!Result(batch[next]))
  <2>2. /\ Open(m, next - 1 + 1) /\ m[Len(m) - (next - 1 + 1)].calls = batch /\ m \in Seq(Entry)
    <3> DEFINE k == next - 1
    <3>1. k < Len(batch) /\ k + 1 = next
      BY <1>0, <2>1
    <3>2. Open(history, k) /\ batch = history[Len(history) - k].calls
      BY <2>1
    <3> HIDE DEF m, k
    <3>3. m = Append(history, Loop!Result(batch[k + 1]))
      BY <3>1 DEF m
    <3>4. StillOpen(Append(history, Loop!Result(batch[k + 1])), batch, k + 1)
      <4>1. history \in Seq(Entry) /\ batch \in Seq(LoopIds)
        BY <1>0
      <4>2. k < Len(batch)
        BY <3>1
      <4> QED
        BY <3>2, <4>1, <4>2, ResultIsOpen
    <3>5. Open(m, k + 1) /\ m[Len(m) - (k + 1)].calls = batch /\ m \in Seq(Entry)
      BY <3>3, <3>4 DEF StillOpen
    <3> QED
      BY <3>5 DEF k
  <2>3. history' = m /\ next' = next + 1 /\ phase' \in {"after", "stopped", "batch"}
        /\ UNCHANGED <<batch, started>>
    BY <1>9 DEF Loop!Settle, Loop!Recorded
  <2> HIDE DEF m
  <2>4. next' - 1 = next - 1 + 1 /\ next' - 1 \in Nat /\ next' \in 1..(Len(batch) + 1)
    BY <1>0, <2>1, <2>3
  <2> QED
    BY <2>2, <2>3, <2>4 DEF LoopInv, LoopTypes, Loop!Phases
<1>10. ASSUME NEW yielded \in BOOLEAN, Loop!BatchEnds(yielded) PROVE LoopInv'
  <2>1. Open(history, next - 1) /\ history[Len(history) - (next - 1)].calls = batch
        /\ next - 1 >= Len(batch)
    BY <1>0, <1>10 DEF Loop!BatchEnds, LoopInv, LoopTypes
  <2>2. Answered(history)
    BY <1>0, <2>1, OpenIsAnswered
  <2> QED
    BY <1>10, <2>2 DEF Loop!BatchEnds, Loop!running, LoopInv, LoopTypes, Loop!Phases
<1>11. CASE Loop!Unwind
  <2>1. next - 1 \in Nat
    BY DEF LoopInv, LoopTypes
  <2> QED
    BY <1>11, <2>1 DEF Loop!Unwind, Loop!running, LoopInv, LoopTypes, Loop!Phases
<1>12. CASE Loop!SettleInterrupt
  <2> DEFINE h == history \o Loop!Cancelled
  <2>1. h \in Seq(Entry) /\ Answered(h)
    BY <1>12, SettlingIsAnswered DEF Loop!SettleInterrupt
  <2>2. history' = h \o <<Loop!Said("user")>>
    BY <1>12 DEF Loop!SettleInterrupt
  <2> HIDE DEF h
  <2>3. history' = Append(h, Loop!Said("user"))
    BY <2>1, <2>2, EntriesAre
  <2>4. history' \in Seq(Entry) /\ Answered(history')
    BY <2>1, <2>3, SaidIsAnswered, EntriesAre
  <2>5. /\ phase' \in {"stopped", "fence"} /\ batch' = <<>> /\ next' = 1 /\ started' = {}
    BY <1>12 DEF Loop!SettleInterrupt
  <2> QED
    BY <2>4, <2>5 DEF LoopInv, LoopTypes, Loop!Phases
<1>13. CASE Loop!Stopped \/ Loop!RequestInterrupt \/ Loop!ReleaseInterrupt \/ Loop!RequestStop
  BY <1>13 DEF Loop!Stopped, Loop!RequestInterrupt, Loop!ReleaseInterrupt, Loop!RequestStop, Loop!running, LoopInv,
               LoopTypes, Loop!Phases
<1> QED
  BY <1>1, <1>2, <1>3, <1>4, <1>5, <1>6, <1>7, <1>8, <1>9, <1>10, <1>11, <1>12, <1>13 DEF Loop!Next

LEMMA LoopFits == LoopInv => Loop!EveryCallAnswered
<1> SUFFICES ASSUME LoopInv, phase = "generate", NEW p \in Loop!Positions("assistant"), NEW id \in LoopIds
             PROVE  LET later == {q \in Loop!Positions("assistant") : q > p}
                        upto  == IF later = {} THEN Len(history) + 1
                                 ELSE CHOOSE q \in later : \A r \in later : q <= r
                    IN Cardinality({i \in DOMAIN history[p].calls : history[p].calls[i] = id}) =
                       Cardinality({i \in Loop!Positions("tool") :
                                      p < i /\ i < upto /\ history[i].call = id})
  BY LoopCounts DEF Loop!EveryCallAnswered
<1> DEFINE s == history[p].calls
           n == Len(s)
           later == {q \in Loop!Positions("assistant") : q > p}
           upto  == IF later = {} THEN Len(history) + 1
                    ELSE CHOOSE q \in later : \A r \in later : q <= r
           S == {i \in DOMAIN s : s[i] = id}
           T == {i \in Loop!Positions("tool") : p < i /\ i < upto /\ history[i].call = id}
<1>1. /\ history \in Seq(Entry) /\ Len(history) \in Nat /\ DOMAIN history = 1..Len(history)
      /\ Answered(history)
  BY DEF LoopInv, LoopTypes
<1>2. p \in 1..Len(history) /\ history[p].role = "assistant"
  BY <1>1 DEF Loop!Positions
<1>3. s \in Seq(LoopIds) /\ n \in Nat /\ DOMAIN s = 1..n
  <2>1. s \in Seq(LoopIds)
    BY <1>1, <1>2, EntryHas
  <2> QED
    BY <2>1
<1>4. \A i \in 1..n : p + i \in 1..Len(history) /\ history[p + i] = Loop!Result(s[i])
  BY <1>1, <1>2, <1>3 DEF Answered, Whole, Settled
<1>5. /\ upto \in Nat /\ p + n < upto
      /\ \A q \in 1..Len(history) : history[q].role = "assistant" /\ q > p => upto <= q
  <2>1. ASSUME NEW q \in later PROVE p + n < q /\ q \in Nat
    <3>1. q \in 1..Len(history) /\ history[q].role = "assistant" /\ q > p
      BY <1>1 DEF Loop!Positions
    <3>2. SUFFICES ASSUME q <= p + n PROVE FALSE
      BY <1>2, <1>3, <3>1
    <3>3. q - p \in 1..n /\ q = p + (q - p)
      BY <1>2, <1>3, <3>1, <3>2
    <3>4. history[q] = Loop!Result(s[q - p])
      BY <1>4, <3>3
    <3> QED
      BY <3>1, <3>4 DEF Loop!Result
  <2>2. \A q \in 1..Len(history) : history[q].role = "assistant" /\ q > p => q \in later
    BY <1>1 DEF Loop!Positions
  <2>3. CASE later = {}
    <3>1. upto = Len(history) + 1 /\ p + n <= Len(history)
      BY <1>1, <1>2, <2>3 DEF Answered, Whole, Settled
    <3> QED
      BY <1>1, <1>2, <1>3, <2>2, <2>3, <3>1
  <2>4. CASE later # {}
    <3>1. later \in SUBSET Nat
      BY <2>1
    <3> HIDE DEF later
    <3>2. upto \in later /\ \A r \in later : upto <= r
      BY <2>4, <3>1, LeastOf
    <3> QED
      BY <2>1, <2>2, <3>2
  <2> QED
    BY <2>3, <2>4
<1> HIDE DEF s, n, upto, later
<1>6. T = {p + i : i \in S}
  <2>1. ASSUME NEW i \in S PROVE p + i \in T
    <3>1. i \in 1..n /\ s[i] = id
      BY <1>3
    <3>2. history[p + i] = Loop!Result(id) /\ p + i \in 1..Len(history)
      BY <1>4, <3>1
    <3>3. p + i \in Loop!Positions("tool") /\ history[p + i].call = id
      BY <1>1, <3>2 DEF Loop!Positions, Loop!Result
    <3>4. p < p + i /\ p + i < upto
      BY <1>2, <1>3, <1>5, <3>1
    <3> QED
      BY <3>3, <3>4
  <2>2. ASSUME NEW j \in T PROVE \E i \in S : j = p + i
    <3>1. /\ j \in 1..Len(history) /\ history[j].role = "tool" /\ p < j /\ j < upto
          /\ history[j].call = id
      BY <1>1 DEF Loop!Positions
    <3>2. PICK q \in 1..(j - 1) :
            history[q].role = "assistant" /\ j - q <= Len(history[q].calls)
      BY <1>1, <3>1 DEF Answered, Owned
    <3>3. q \in 1..Len(history) /\ ~ (q > p)
      BY <1>1, <1>5, <3>1, <3>2
    <3>4. ~ (q < p)
      <4>1. SUFFICES ASSUME q < p PROVE FALSE
        OBVIOUS
      <4>2. Whole(history, q) /\ Len(history[q].calls) \in Nat
        BY <1>1, <3>2, <3>3, EntryHas DEF Answered
      <4>3. p - q \in 1..Len(history[q].calls) /\ p = q + (p - q)
        <5>1. q \in Int /\ j \in Int /\ p \in Int
          BY <1>1, <1>2, <3>1, <3>3
        <5> QED
          BY <3>1, <3>2, <4>1, <4>2, <5>1
      <4>4. history[p] = Loop!Result(history[q].calls[p - q])
        BY <4>2, <4>3 DEF Whole, Settled
      <4> QED
        BY <1>2, <4>4 DEF Loop!Result
    <3>5. q = p
      BY <1>2, <3>3, <3>4
    <3>6. j - p \in 1..n /\ j = p + (j - p)
      BY <1>2, <1>3, <3>1, <3>2, <3>5 DEF n, s
    <3>7. history[j] = Loop!Result(s[j - p])
      BY <1>4, <3>6
    <3>8. s[j - p] = id
      BY <3>1, <3>7 DEF Loop!Result
    <3> QED
      BY <1>3, <3>6, <3>8
  <2> QED
    BY <2>1, <2>2
<1>7. IsFiniteSet(S) /\ S \subseteq Int /\ p \in Int
  <2>1. S \subseteq 1..n /\ n \in Int
    BY <1>3
  <2>2. 1..n \subseteq Int /\ p \in Int
    BY <1>2, <2>1
  <2> HIDE DEF S
  <2> QED
    BY <2>1, <2>2, UpTo
<1> HIDE DEF S, T
<1>8. Cardinality(S) = Cardinality(T)
  BY <1>6, <1>7, Shifted
<1> QED
  BY <1>8 DEF S, T, s, upto, later

\* Wherever an exchange is interrupted, cut, stopped or regenerated, the model is never asked
\* with a call that has no result, or with a result too many (agent/agent.go, interrupt.go,
\* thread.go).
THEOREM CallsAreAnswered == Loop!Spec => []Loop!EveryCallAnswered
<1> QED
  BY LoopInitially, LoopStep, LoopFits, PTL DEF Loop!Spec

----------------------------------------------------------------------------
(* A language server and its manager (LanguageServer).                     *)
After == {"ask", "asked", "wait", "label", "recheck"}
Busy  == {"ensure", "scan", "sync"} \cup After

ScanType == {Analysis!Unscanned} \cup [Analysis!File -> Nat]
DocType == [version : Nat, text : Nat]
SetType == [version : Nat, text : Nat, seen : Nat, epoch : Nat, revision : Int]
InstType == [generation : Nat, failures : Nat, files : ScanType, untold : Nat, doc : DocType,
             next : Nat, client : BOOLEAN]
MessageType == [kind : {"sync"}, version : Nat, text : Nat] \cup [kind : {"watched", "ask"}]
ServerType == [up : BOOLEAN, inbox : Seq(MessageType), version : Nat, text : Nat, seen : Nat,
               pulls : BOOLEAN]
ReportType == [kind : {"publish", "report"}, version : Nat, text : Nat, seen : Nat]
ClientType == [epoch : Nat, pushed : SetType, pulled : SetType, revision : Nat, watches : BOOLEAN]
RefType == [text : Nat, seen : Nat, generation : Nat, untold : Nat]
ManagerType == [epoch : Nat, closing : BOOLEAN, shut : BOOLEAN, ref : RefType, queries : Nat]
QueryType == [kind : {"diagnostics", "navigate", "follow"}, resync : BOOLEAN]
Fresh == {"none", "unknown", "synchronized", "stale"}
Transactions ==
  [pc : Busy, query : QueryType, scan : ScanType, set : SetType, known : BOOLEAN, epoch : Nat,
   fresh : Fresh, asked : Int]

ServerTypes ==
  /\ disk \in [Analysis!File -> Nat] /\ manager \in ManagerType /\ server \in InstType
  /\ process \in ServerType /\ wire \in Seq(ReportType) /\ callbacks \in ClientType
  /\ transaction \in {Analysis!Idle, [pc |-> "closing"]} \cup Transactions

\* The server has seen what the last scan found, or was not told of it.
Caught(i, s) == i.files # Analysis!Unscanned => i.files["dependency"] = i.untold \/ s >= i.files["dependency"]

\* A transaction that resent the document, and waits for what the server makes of it.
Resyncing(t) == t.pc \in After /\ t.query.resync

\* What the server computed, and for which version of the document: the version decides the text,
\* and in a transaction (t) that resent the document the version decides that the scan was seen.
Belongs(i, d, t, v, text, s) ==
  /\ v <= i.next /\ s <= d
  /\ v # 0 /\ v = i.doc.version => text = i.doc.text /\ (Resyncing(t) => Caught(i, s))
Of(i, d, t, x) == Belongs(i, d, t, x.version, x.text, x.seen)
OfWire(i, d, t, w) == \A k \in 1..Len(w) : Of(i, d, t, w[k])
OfClient(i, d, t, c) == Of(i, d, t, c.pushed) /\ Of(i, d, t, c.pulled)

\* What is on its way to the server is of the same kind: the last document sent is the last the
\* server will have, and it is told of the scan before it is sent a document or asked.
Sent(i, t, b, s) ==
  \A k \in 1..Len(b) : b[k].kind = "sync" =>
    /\ b[k].version <= i.next /\ b[k].version > 0
    /\ b[k].version = i.doc.version =>
         /\ b[k].text = i.doc.text
         /\ Resyncing(t) => Caught(i, s) \/ \E l \in 1..(k - 1) : b[l].kind = "watched"
LastSent(i, b, v) ==
  /\ \A k \in 1..Len(b) :
       b[k].kind = "sync" /\ (\A l \in (k + 1)..Len(b) : b[l].kind # "sync")
         => b[k].version = i.doc.version
  /\ (\A k \in 1..Len(b) : b[k].kind # "sync") => v = i.doc.version
Told(i, b, s) == Caught(i, s) \/ \E k \in 1..Len(b) : b[k].kind = "watched"

\* One request at a time, and one report of it.
Asks(t, i, b, w) ==
  /\ \A k \in 1..Len(b) : b[k].kind = "ask" =>
       t.pc = "asked" /\ k = Len(b) /\ \A l \in 1..Len(w) : w[l].kind # "report"
  /\ \A k \in 1..Len(w) : w[k].kind = "report" =>
       /\ t.pc = "asked" /\ w[k].version = i.doc.version /\ Caught(i, w[k].seen)
       /\ \A l \in 1..Len(w) : w[l].kind = "report" => l = k

Instance(i, d) ==
  /\ i.doc.version <= i.next /\ (i.doc = Analysis!NoDoc \/ i.doc.version > 0)
  /\ i.files # Analysis!Unscanned => \A x \in Analysis!File : i.files[x] <= d[x]
  /\ ~i.client => i.files = Analysis!Unscanned /\ i.doc = Analysis!NoDoc
Conduct(i, d, t) ==
  /\ t.pc \in {"scan", "sync"} \cup After => i.client
  /\ t.pc \in Busy /\ t.scan # Analysis!Unscanned => \A x \in Analysis!File : t.scan[x] <= d[x]
  /\ t.pc \in {"sync"} \cup After => t.scan = i.files /\ t.scan # Analysis!Unscanned
  /\ t.pc \in After => i.doc.version > 0
  /\ t.pc \in Busy => Of(i, d["dependency"], t, t.set)
  /\ t.pc = "recheck" /\ t.fresh = "synchronized" =>
       t.set.version > 0 /\ t.set.version = i.doc.version
LspAnswer ==
  answer.fresh = "synchronized" =>
    /\ answer.text = answer.now
    /\ answer.resync /\ answer.scanned # answer.untold => answer.seen >= answer.scanned
LspRef == manager.ref.text # manager.ref.untold => manager.ref.seen = manager.ref.text

\* What holds of the server, of what it sent, and of what the callbacks keep.
Computed(i, d, t, x, w, c) ==
  /\ Of(i, d, t, x) /\ OfWire(i, d, t, w) /\ OfClient(i, d, t, c)
  /\ Sent(i, t, x.inbox, x.seen)
InTime(i, x) == x.up => LastSent(i, x.inbox, x.version) /\ Told(i, x.inbox, x.seen)

LspInv ==
  /\ ServerTypes /\ Instance(server, disk) /\ Conduct(server, disk, transaction)
  /\ Computed(server, disk["dependency"], transaction, process, wire, callbacks) /\ InTime(server, process)
  /\ (~manager.closing => Asks(transaction, server, process.inbox, wire))
  /\ LspAnswer /\ LspRef

----------------------------------------------------------------------------
(* What goes on holding when the instance, the files or the transaction     *)
(* move on.                                                                 *)
Moves(i, t, j, u) ==
  /\ i.next <= j.next
  /\ \/ j.doc.version > i.next
     \/ j.doc.version = 0
     \/ /\ j.doc = i.doc
        /\ Resyncing(u) => Resyncing(t) /\ j.files = i.files /\ j.untold = i.untold

LEMMA BelongsMoves ==
  ASSUME NEW i \in InstType, NEW j \in InstType, NEW d \in Nat, NEW e \in Nat, d <= e,
         NEW t, NEW u, Moves(i, t, j, u), NEW v \in Nat, NEW x, NEW s \in Nat,
         Belongs(i, d, t, v, x, s)
  PROVE  Belongs(j, e, u, v, x, s)
<1>1. /\ i.next \in Nat /\ j.next \in Nat /\ i.doc.version \in Nat /\ j.doc.version \in Nat
  BY DEF InstType, DocType
<1> QED
  BY <1>1 DEF Belongs, Moves, Caught

LEMMA ComputedMoves ==
  ASSUME NEW i \in InstType, NEW j \in InstType, NEW d \in Nat, NEW e \in Nat, d <= e,
         NEW t, NEW u, Moves(i, t, j, u), NEW x \in ServerType, NEW w \in Seq(ReportType),
         NEW c \in ClientType, Computed(i, d, t, x, w, c)
  PROVE  Computed(j, e, u, x, w, c)
<1>1. Of(j, e, u, x)
  <2>1. x.version \in Nat /\ x.seen \in Nat
    BY DEF ServerType
  <2> QED
    BY <2>1, BelongsMoves DEF Computed, Of
<1>2. OfWire(j, e, u, w)
  <2>1. SUFFICES ASSUME NEW k \in 1..Len(w) PROVE Of(j, e, u, w[k])
    BY DEF OfWire
  <2>2. w[k].version \in Nat /\ w[k].seen \in Nat /\ Of(i, d, t, w[k])
    <3>1. w[k] \in ReportType
      OBVIOUS
    <3>2. Of(i, d, t, w[k])
      BY DEF Computed, OfWire
    <3> QED
      BY <3>1, <3>2 DEF ReportType
  <2> QED
    BY <2>2, BelongsMoves DEF Of
<1>3. OfClient(j, e, u, c)
  <2>1. /\ c.pushed.version \in Nat /\ c.pushed.seen \in Nat
        /\ c.pulled.version \in Nat /\ c.pulled.seen \in Nat
    BY DEF ClientType, SetType
  <2> QED
    BY <2>1, BelongsMoves DEF Computed, OfClient, Of
<1>4. Sent(j, u, x.inbox, x.seen)
  <2>1. SUFFICES ASSUME NEW k \in 1..Len(x.inbox), x.inbox[k].kind = "sync"
        PROVE  LET b == x.inbox
               IN /\ b[k].version <= j.next /\ b[k].version > 0
                  /\ b[k].version = j.doc.version =>
                       /\ b[k].text = j.doc.text
                       /\ Resyncing(u) =>
                            Caught(j, x.seen) \/ \E l \in 1..(k - 1) : b[l].kind = "watched"
    BY DEF Sent
  <2>2. x.inbox[k].version \in Nat
    <3>1. x.inbox \in Seq(MessageType)
      BY DEF ServerType
    <3>2. x.inbox[k] \in MessageType
      BY <3>1
    <3> QED
      BY <2>1, <3>2 DEF MessageType
  <2>3. /\ i.next \in Nat /\ j.next \in Nat /\ i.doc.version \in Nat /\ j.doc.version \in Nat
    BY DEF InstType, DocType
  <2>4. /\ x.inbox[k].version <= i.next /\ x.inbox[k].version > 0
        /\ x.inbox[k].version = i.doc.version =>
             /\ x.inbox[k].text = i.doc.text
             /\ Resyncing(t) =>
                  Caught(i, x.seen) \/ \E l \in 1..(k - 1) : x.inbox[l].kind = "watched"
    BY <2>1 DEF Computed, Sent
  <2>5. /\ x.inbox[k].version <= j.next
        /\ x.inbox[k].version = j.doc.version => j.doc = i.doc
    BY <2>2, <2>3, <2>4 DEF Moves
  <2>6. x.inbox[k].version = j.doc.version /\ Resyncing(u) =>
          Resyncing(t) /\ j.files = i.files /\ j.untold = i.untold
    BY <2>2, <2>3, <2>4 DEF Moves
  <2>7. Caught(i, x.seen) /\ j.files = i.files /\ j.untold = i.untold => Caught(j, x.seen)
    BY DEF Caught
  <2> QED
    BY <2>4, <2>5, <2>6, <2>7
<1> QED
  BY <1>1, <1>2, <1>3, <1>4 DEF Computed

LEMMA Known ==
  ASSUME LspInv
  PROVE  /\ ServerTypes /\ Instance(server, disk) /\ Conduct(server, disk, transaction)
         /\ Computed(server, disk["dependency"], transaction, process, wire, callbacks)
         /\ InTime(server, process) /\ (~manager.closing => Asks(transaction, server, process.inbox, wire))
         /\ LspAnswer /\ LspRef
         /\ disk["dependency"] \in Nat /\ "dependency" \in Analysis!File
  BY DEF LspInv, ServerTypes, Analysis!File

\* The set that a transaction works with stays of its kind as it moves on.
LEMMA SetMoves ==
  ASSUME LspInv, transaction.pc \in Busy, NEW j \in InstType, NEW e \in Nat, disk["dependency"] <= e,
         NEW u, Moves(server, transaction, j, u)
  PROVE  Of(j, e, u, transaction.set)
<1>1. transaction \in Transactions
  BY Known DEF ServerTypes, Analysis!Idle, Busy, After
<1>2. transaction.set.version \in Nat /\ transaction.set.seen \in Nat /\ server \in InstType
  BY <1>1, Known DEF ServerTypes, Transactions, SetType
<1>3. Of(server, disk["dependency"], transaction, transaction.set)
  BY Known DEF Conduct
<1> QED
  BY <1>2, <1>3, Known, BelongsMoves DEF Of

\* A message or a report more, or the first one less.
LEMMA Queued ==
  ASSUME NEW S, NEW b \in Seq(S), NEW x \in S
  PROVE  /\ Append(b, x) \in Seq(S) /\ Len(Append(b, x)) = Len(b) + 1 /\ Len(b) \in Nat
         /\ \A k \in 1..Len(b) : Append(b, x)[k] = b[k]
         /\ Append(b, x)[Len(b) + 1] = x
         /\ \A k \in 1..(Len(b) + 1) : k \in 1..Len(b) \/ k = Len(b) + 1
  OBVIOUS

LEMMA Taken ==
  ASSUME NEW S, NEW b \in Seq(S), b # <<>>
  PROVE  /\ Tail(b) \in Seq(S) /\ Len(Tail(b)) = Len(b) - 1 /\ Len(b) \in Nat /\ Len(b) >= 1
         /\ Head(b) = b[1] /\ b[1] \in S
         /\ \A k \in 1..Len(Tail(b)) : Tail(b)[k] = b[k + 1]
  BY HeadTailProperties, EmptySeq

LEMMA IdleIs ==
  ASSUME ServerTypes
  PROVE  transaction.pc \in Busy => transaction \in Transactions
<1>1. Analysis!Idle.pc = "idle" /\ [pc |-> "closing"].pc = "closing"
  BY DEF Analysis!Idle
<1> QED
  BY <1>1 DEF ServerTypes, Busy, After

LEMMA GotoIs ==
  ASSUME NEW p \in Busy, transaction \in Transactions
  PROVE  LET t == Analysis!Goto(p)
         IN /\ t \in Transactions /\ t.pc = p /\ t.query = transaction.query /\ t.scan = transaction.scan
            /\ t.set = transaction.set /\ t.known = transaction.known /\ t.epoch = transaction.epoch /\ t.fresh = transaction.fresh
  BY DEF Analysis!Goto, Transactions

LEMMA EmptyIs == Len(<<>>) = 0 /\ \A S : <<>> \in Seq(S)
  OBVIOUS

\* Nothing is said of a server that is down.
LEMMA DownIs ==
  ASSUME NEW i \in InstType, NEW d \in Nat, NEW t, NEW c, OfClient(i, d, t, c)
  PROVE  Computed(i, d, t, Analysis!Down, <<>>, c) /\ InTime(i, Analysis!Down) /\ Asks(t, i, Analysis!Down.inbox, <<>>)
         /\ Analysis!Down \in ServerType
<1>1. i.next \in Nat
  BY DEF InstType
<1>2. Of(i, d, t, Analysis!Down)
  BY <1>1 DEF Of, Belongs, Analysis!Down
<1>3. Analysis!Down.inbox = <<>> /\ ~Analysis!Down.up /\ Analysis!Down \in ServerType
  BY EmptyIs DEF Analysis!Down, ServerType
<1> QED
  BY <1>2, <1>3, EmptyIs DEF Computed, InTime, Asks, OfWire, Sent

LEMMA WireLess ==
  ASSUME NEW i, NEW d, NEW t, NEW b, NEW w \in Seq(ReportType), w # <<>>
  PROVE  /\ OfWire(i, d, t, w) => OfWire(i, d, t, Tail(w))
         /\ Asks(t, i, b, w) => Asks(t, i, b, Tail(w))
<1>1. /\ Tail(w) \in Seq(ReportType) /\ Len(Tail(w)) = Len(w) - 1 /\ Len(w) \in Nat
      /\ \A k \in 1..Len(Tail(w)) : k + 1 \in 1..Len(w) /\ Tail(w)[k] = w[k + 1]
  BY Taken
<1>2. OfWire(i, d, t, w) => OfWire(i, d, t, Tail(w))
  BY <1>1 DEF OfWire
<1>3. Asks(t, i, b, w) => Asks(t, i, b, Tail(w))
  <2> SUFFICES ASSUME Asks(t, i, b, w) PROVE Asks(t, i, b, Tail(w))
    OBVIOUS
  <2>1. \A k \in 1..Len(b) : b[k].kind = "ask" =>
          t.pc = "asked" /\ k = Len(b) /\ \A l \in 1..Len(Tail(w)) : Tail(w)[l].kind # "report"
    BY <1>1 DEF Asks
  <2>2. ASSUME NEW k \in 1..Len(Tail(w)), Tail(w)[k].kind = "report"
        PROVE  /\ t.pc = "asked" /\ Tail(w)[k].version = i.doc.version
               /\ Caught(i, Tail(w)[k].seen)
               /\ \A l \in 1..Len(Tail(w)) : Tail(w)[l].kind = "report" => l = k
    <3>1. \A l \in 1..Len(Tail(w)) : l + 1 \in 1..Len(w) /\ (l + 1 = k + 1 => l = k)
      BY <1>1
    <3> QED
      BY <1>1, <2>2, <3>1 DEF Asks
  <2> QED
    BY <2>1, <2>2 DEF Asks
<1> QED
  BY <1>2, <1>3

LEMMA AsksNone ==
  ASSUME NEW t, NEW u, NEW i, NEW j, NEW b, NEW w, Asks(t, i, b, w), t.pc # "asked"
  PROVE  Asks(u, j, b, w)
  BY DEF Asks

LEMMA EditKeeps == ASSUME LspInv, NEW x \in Analysis!File, Analysis!Edit(x) PROVE LspInv'
<1>0. /\ disk' \in [Analysis!File -> Nat] /\ \A y \in Analysis!File : disk[y] <= disk'[y]
      /\ UNCHANGED <<manager, server, process, wire, callbacks, transaction, answer>>
  BY Known DEF Analysis!Edit, ServerTypes
<1>9. /\ disk'["dependency"] \in Nat /\ disk["dependency"] <= disk'["dependency"]
      /\ Moves(server, transaction, server, transaction)
  BY <1>0, Known DEF Moves, ServerTypes, InstType
<1>1. ServerTypes'
  BY <1>0, Known DEF ServerTypes
<1>2. Instance(server', disk') /\ Conduct(server', disk', transaction')
  <2>1. \A y \in Analysis!File : disk[y] \in Nat /\ disk'[y] \in Nat /\ disk[y] <= disk'[y]
    BY <1>0, <1>1, Known DEF ServerTypes
  <2>2. /\ server.files # Analysis!Unscanned => \A y \in Analysis!File : server.files[y] \in Nat
        /\ transaction.pc \in Busy /\ transaction.scan # Analysis!Unscanned => \A y \in Analysis!File : transaction.scan[y] \in Nat
    <3>1. server.files \in ScanType /\ (transaction.pc \in Busy => transaction.scan \in ScanType)
      BY Known, IdleIs DEF ServerTypes, InstType, Transactions
    <3> QED
      BY <3>1 DEF ScanType
  <2>3. Instance(server, disk')
    <3>1. Instance(server, disk)
      BY Known
    <3>2. server.files # Analysis!Unscanned => \A y \in Analysis!File : server.files[y] <= disk'[y]
      <4>1. SUFFICES ASSUME server.files # Analysis!Unscanned, NEW y \in Analysis!File PROVE server.files[y] <= disk'[y]
        OBVIOUS
      <4>2. server.files[y] <= disk[y]
        BY <3>1, <4>1 DEF Instance
      <4>3. server.files[y] \in Nat
        BY <2>2, <4>1
      <4> QED
        BY <2>1, <4>2, <4>3
    <3> QED
      BY <3>1, <3>2 DEF Instance
  <2>4. transaction.pc \in Busy => Of(server, disk'["dependency"], transaction, transaction.set)
    BY <1>9, Known, SetMoves DEF ServerTypes
  <2>5. transaction.pc \in Busy /\ transaction.scan # Analysis!Unscanned => \A y \in Analysis!File : transaction.scan[y] <= disk'[y]
    <3>1. SUFFICES ASSUME transaction.pc \in Busy, transaction.scan # Analysis!Unscanned, NEW y \in Analysis!File
          PROVE  transaction.scan[y] <= disk'[y]
      OBVIOUS
    <3>2. transaction.scan[y] <= disk[y]
      <4>1. Conduct(server, disk, transaction)
        BY Known
      <4> QED
        BY <3>1, <4>1 DEF Conduct
    <3>3. transaction.scan[y] \in Nat
      BY <2>2, <3>1
    <3> QED
      BY <2>1, <3>2, <3>3
  <2> QED
    BY <1>0, <2>3, <2>4, <2>5, Known DEF Conduct
<1>3. Computed(server', disk'["dependency"], transaction', process', wire', callbacks')
  BY <1>0, <1>9, Known, ComputedMoves DEF ServerTypes
<1>4. InTime(server', process')
  BY <1>0, Known
<1>5. ~manager'.closing => Asks(transaction', server', process'.inbox, wire')
  BY <1>0, Known
<1>6. LspAnswer' /\ LspRef'
  BY <1>0, Known DEF LspAnswer, LspRef
<1> QED
  BY <1>1, <1>2, <1>3, <1>4, <1>5, <1>6 DEF LspInv

LEMMA ChangedKeeps == ASSUME LspInv, Analysis!Changed PROVE LspInv'
<1>0. /\ manager' \in ManagerType /\ manager'.ref = manager.ref /\ manager'.closing = manager.closing
      /\ UNCHANGED <<disk, server, process, wire, callbacks, transaction, answer>>
  <2>1. manager \in ManagerType
    BY Known DEF ServerTypes
  <2> QED
    BY <2>1 DEF Analysis!Changed, ManagerType
<1>1. ServerTypes'
  BY <1>0, Known DEF ServerTypes
<1>2. Instance(server', disk') /\ Conduct(server', disk', transaction')
  BY <1>0, Known
<1>3. Computed(server', disk'["dependency"], transaction', process', wire', callbacks')
  BY <1>0, Known
<1>4. InTime(server', process')
  BY <1>0, Known
<1>5. ~manager'.closing => Asks(transaction', server', process'.inbox, wire')
  BY <1>0, Known
<1>6. LspAnswer' /\ LspRef'
  BY <1>0, Known DEF LspAnswer, LspRef
<1> QED
  BY <1>1, <1>2, <1>3, <1>4, <1>5, <1>6 DEF LspInv

LEMMA ServerDiesKeeps == ASSUME LspInv, Analysis!ServerDies PROVE LspInv'
<1>0. /\ process' = Analysis!Down /\ wire' = <<>> /\ UNCHANGED <<disk, manager, server, callbacks, transaction, answer>>
  BY DEF Analysis!ServerDies, Analysis!world
<1>9. OfClient(server, disk["dependency"], transaction, callbacks) /\ server \in InstType
  BY Known DEF Computed, ServerTypes
<1>10. /\ Computed(server, disk["dependency"], transaction, Analysis!Down, <<>>, callbacks) /\ InTime(server, Analysis!Down)
       /\ Asks(transaction, server, Analysis!Down.inbox, <<>>) /\ Analysis!Down \in ServerType /\ <<>> \in Seq(ReportType)
  BY <1>9, Known, DownIs, EmptyIs
<1>1. ServerTypes'
  BY <1>0, <1>10, Known DEF ServerTypes
<1>2. Instance(server', disk') /\ Conduct(server', disk', transaction')
  BY <1>0, Known
<1>3. Computed(server', disk'["dependency"], transaction', process', wire', callbacks')
  BY <1>0, <1>10, Known
<1>4. InTime(server', process')
  BY <1>0, <1>10, Known
<1>5. ~manager'.closing => Asks(transaction', server', process'.inbox, wire')
  BY <1>0, <1>10, Known
<1>6. LspAnswer' /\ LspRef'
  BY <1>0, Known DEF LspAnswer, LspRef
<1> QED
  BY <1>1, <1>2, <1>3, <1>4, <1>5, <1>6 DEF LspInv

LEMMA RefreshAskedKeeps == ASSUME LspInv, Analysis!RefreshAsked PROVE LspInv'
<1>0. /\ callbacks' \in ClientType /\ callbacks'.pushed = callbacks.pushed /\ callbacks'.pulled = callbacks.pulled
      /\ UNCHANGED <<disk, manager, server, process, wire, transaction, answer>>
  BY Known DEF Analysis!RefreshAsked, ServerTypes, ClientType, Analysis!world
<1>1. ServerTypes'
  BY <1>0, Known DEF ServerTypes
<1>2. Instance(server', disk') /\ Conduct(server', disk', transaction')
  BY <1>0, Known
<1>3. Computed(server', disk'["dependency"], transaction', process', wire', callbacks')
  BY <1>0, Known DEF Computed, OfClient
<1>4. InTime(server', process')
  BY <1>0, Known
<1>5. ~manager'.closing => Asks(transaction', server', process'.inbox, wire')
  BY <1>0, Known
<1>6. LspAnswer' /\ LspRef'
  BY <1>0, Known DEF LspAnswer, LspRef
<1> QED
  BY <1>1, <1>2, <1>3, <1>4, <1>5, <1>6 DEF LspInv

LEMMA RegistersKeeps == ASSUME LspInv, Analysis!Registers PROVE LspInv'
<1>0. /\ callbacks' \in ClientType /\ callbacks'.pushed = callbacks.pushed /\ callbacks'.pulled = callbacks.pulled
      /\ UNCHANGED <<disk, manager, server, process, wire, transaction, answer>>
  BY Known DEF Analysis!Registers, ServerTypes, ClientType, Analysis!world
<1>1. ServerTypes'
  BY <1>0, Known DEF ServerTypes
<1>2. Instance(server', disk') /\ Conduct(server', disk', transaction')
  BY <1>0, Known
<1>3. Computed(server', disk'["dependency"], transaction', process', wire', callbacks')
  BY <1>0, Known DEF Computed, OfClient
<1>4. InTime(server', process')
  BY <1>0, Known
<1>5. ~manager'.closing => Asks(transaction', server', process'.inbox, wire')
  BY <1>0, Known
<1>6. LspAnswer' /\ LspRef'
  BY <1>0, Known DEF LspAnswer, LspRef
<1> QED
  BY <1>1, <1>2, <1>3, <1>4, <1>5, <1>6 DEF LspInv

LEMMA PublishedKeeps == ASSUME LspInv, Analysis!Published PROVE LspInv'
<1>0. /\ UNCHANGED <<disk, manager, server, process, transaction, answer>> /\ wire # <<>> /\ wire' = Tail(wire)
      /\ wire \in Seq(ReportType)
      /\ callbacks' = [callbacks EXCEPT !.pushed = Analysis!Store(@, Analysis!AsSet(Head(wire), callbacks.epoch, 0))]
  BY Known DEF Analysis!Published, ServerTypes, Analysis!world
<1>9. Head(wire) \in ReportType /\ Of(server, disk["dependency"], transaction, Head(wire))
  <2>1. 1 \in 1..Len(wire)
    BY <1>0, Taken
  <2> QED
    BY <1>0, <2>1, Taken, Known DEF Computed, OfWire
<1>10. /\ callbacks' \in ClientType /\ callbacks'.pulled = callbacks.pulled
       /\ \/ callbacks'.pushed = callbacks.pushed
          \/ callbacks'.pushed = Analysis!AsSet(Head(wire), callbacks.epoch, 0)
  <2>1. callbacks \in ClientType /\ callbacks.epoch \in Nat /\ callbacks.pushed \in SetType
    BY Known DEF ServerTypes, ClientType
  <2>2. Analysis!AsSet(Head(wire), callbacks.epoch, 0) \in SetType
    BY <1>9, <2>1 DEF Analysis!AsSet, SetType, ReportType
  <2>3. Analysis!Store(callbacks.pushed, Analysis!AsSet(Head(wire), callbacks.epoch, 0)) \in
          {callbacks.pushed, Analysis!AsSet(Head(wire), callbacks.epoch, 0)}
    BY DEF Analysis!Store
  <2> DEFINE p == Analysis!Store(callbacks.pushed, Analysis!AsSet(Head(wire), callbacks.epoch, 0))
  <2>4. p \in SetType /\ callbacks' = [callbacks EXCEPT !.pushed = p]
    BY <1>0, <2>1, <2>2, <2>3
  <2> HIDE DEF p
  <2>5. callbacks' \in ClientType /\ callbacks'.pulled = callbacks.pulled /\ callbacks'.pushed = p
    BY <2>1, <2>4 DEF ClientType
  <2> QED
    BY <2>3, <2>5 DEF p
<1>1. ServerTypes'
  BY <1>0, <1>10, Taken, Known DEF ServerTypes
<1>2. Instance(server', disk') /\ Conduct(server', disk', transaction')
  BY <1>0, Known
<1>3. Computed(server', disk'["dependency"], transaction', process', wire', callbacks')
  <2>1. OfWire(server, disk["dependency"], transaction, wire')
    BY <1>0, WireLess, Known DEF Computed
  <2>2. OfClient(server, disk["dependency"], transaction, callbacks')
    BY <1>9, <1>10, Known DEF Computed, OfClient, Of, Analysis!AsSet
  <2> QED
    BY <1>0, <2>1, <2>2, Known DEF Computed
<1>4. InTime(server', process')
  BY <1>0, Known
<1>5. ~manager'.closing => Asks(transaction', server', process'.inbox, wire')
  BY <1>0, WireLess, Known
<1>6. LspAnswer' /\ LspRef'
  BY <1>0, Known DEF LspAnswer, LspRef
<1> QED
  BY <1>1, <1>2, <1>3, <1>4, <1>5, <1>6 DEF LspInv

LEMMA StartedKeeps == ASSUME LspInv, NEW query \in QueryType, transaction.pc # "asked", ~manager.closing, transaction' = Analysis!Started(query),
         manager' = [manager EXCEPT !.queries = @ + 1], answer' \in {answer, Analysis!NoAnswer},
         UNCHANGED <<disk, server, process, wire, callbacks>> PROVE LspInv'
<1>0. /\ transaction' = Analysis!Started(query) /\ manager' \in ManagerType /\ manager'.ref = manager.ref /\ manager'.closing = manager.closing
      /\ ~manager.closing /\ transaction.pc # "asked" /\ answer' \in {answer, Analysis!NoAnswer}
      /\ UNCHANGED <<disk, server, process, wire, callbacks>>
  BY Known DEF ServerTypes, ManagerType
<1>9. /\ transaction' \in Transactions /\ transaction'.pc = "ensure" /\ transaction'.scan = Analysis!Unscanned /\ transaction'.set = Analysis!NoSet
  <2>1. Analysis!NoSet \in SetType /\ Analysis!Unscanned \in ScanType /\ query \in QueryType
    BY DEF Analysis!NoSet, SetType, ScanType
  <2> QED
    BY <1>0, <2>1 DEF Analysis!Started, Transactions, Busy, Fresh
<1>10. ~Resyncing(transaction') /\ Moves(server, transaction, server, transaction') /\ Asks(transaction', server, process.inbox, wire)
  <2>1. server.next \in Nat /\ transaction'.pc \notin After
    BY <1>9, Known DEF ServerTypes, InstType, After
  <2> QED
    BY <1>0, <2>1, Known, AsksNone DEF Resyncing, Moves
<1>11. Of(server, disk["dependency"], transaction', Analysis!NoSet)
  <2>1. server.next \in Nat
    BY Known DEF ServerTypes, InstType
  <2> QED
    BY <2>1, Known DEF Of, Belongs, Analysis!NoSet
<1>1. ServerTypes'
  BY <1>0, <1>9, Known DEF ServerTypes
<1>2. Instance(server', disk') /\ Conduct(server', disk', transaction')
  BY <1>0, <1>9, <1>11, Known DEF Conduct, After
<1>3. Computed(server', disk'["dependency"], transaction', process', wire', callbacks')
  BY <1>0, <1>10, Known, ComputedMoves DEF ServerTypes
<1>4. InTime(server', process')
  BY <1>0, Known
<1>5. ~manager'.closing => Asks(transaction', server', process'.inbox, wire')
  BY <1>0, <1>10, Known
<1>6. LspAnswer' /\ LspRef'
  BY <1>0, Known DEF LspAnswer, LspRef, Analysis!NoAnswer
<1> QED
  BY <1>1, <1>2, <1>3, <1>4, <1>5, <1>6 DEF LspInv

LEMMA AcquireKeeps == ASSUME LspInv, Analysis!Acquire PROVE LspInv'
<1>1. PICK query \in Analysis!Query : transaction' = Analysis!Started(query)
  BY DEF Analysis!Acquire
<1>2. query \in QueryType
  BY DEF Analysis!Query, QueryType
<1> QED
  BY <1>1, <1>2, StartedKeeps DEF Analysis!Acquire, Analysis!world

LEMMA RefresherAcquiresKeeps == ASSUME LspInv, Analysis!RefresherAcquires PROVE LspInv'
<1>1. CASE UNCHANGED <<disk, manager, server, process, wire, callbacks, transaction, answer>>
  BY <1>1, Known DEF LspInv, ServerTypes, LspAnswer, LspRef
<1>2. CASE ~UNCHANGED <<disk, manager, server, process, wire, callbacks, transaction, answer>>
  <2> DEFINE query == [kind |-> "diagnostics", resync |-> FALSE]
  <2>1. /\ transaction.pc = "idle" /\ transaction' = Analysis!Started(query) /\ ~manager.closing
        /\ manager' = [manager EXCEPT !.queries = @ + 1]
        /\ UNCHANGED <<disk, server, process, wire, callbacks, answer>>
    BY <1>2 DEF Analysis!RefresherAcquires, Analysis!world
  <2>2. query \in QueryType
    BY DEF QueryType
  <2> HIDE DEF query
  <2> QED
    BY <2>1, <2>2, StartedKeeps
<1> QED
  BY <1>1, <1>2

\* The instance of which a server is started, or is not.
KnownOf(i) ==
  IF i.client THEN [i EXCEPT !.client = FALSE, !.doc = Analysis!NoDoc, !.files = Analysis!Unscanned, !.failures = @ + 1]
  ELSE i
LEMMA KnownIs ==
  ASSUME NEW i \in InstType, NEW d, Instance(i, d)
  PROVE  /\ KnownOf(i) \in InstType /\ ~KnownOf(i).client /\ KnownOf(i).files = Analysis!Unscanned
         /\ KnownOf(i).doc = Analysis!NoDoc /\ KnownOf(i).next = i.next /\ KnownOf(i).untold = i.untold
<1>1. Analysis!NoDoc \in DocType /\ Analysis!Unscanned \in ScanType
  BY DEF Analysis!NoDoc, DocType, ScanType
<1>2. CASE i.client
  <2>1. KnownOf(i) = [i EXCEPT !.client = FALSE, !.doc = Analysis!NoDoc, !.files = Analysis!Unscanned,
                               !.failures = @ + 1]
    BY <1>2 DEF KnownOf
  <2> DEFINE f == i.failures + 1
  <2>2. f \in Nat
    BY DEF InstType
  <2>3. KnownOf(i) = [i EXCEPT !.client = FALSE, !.doc = Analysis!NoDoc, !.files = Analysis!Unscanned,
                               !.failures = f]
    BY <2>1
  <2> HIDE DEF f
  <2>4. KnownOf(i) = [generation |-> i.generation, failures |-> f, files |-> Analysis!Unscanned,
                      untold |-> i.untold, doc |-> Analysis!NoDoc, next |-> i.next, client |-> FALSE]
    BY <2>3 DEF InstType
  <2>5. i.generation \in Nat /\ i.untold \in Nat /\ i.next \in Nat
    BY DEF InstType
  <2>6. KnownOf(i) \in InstType
    BY <1>1, <2>2, <2>4, <2>5 DEF InstType
  <2> QED
    BY <2>4, <2>6
<1>3. CASE ~i.client
  <2>1. KnownOf(i) = i
    BY <1>3 DEF KnownOf
  <2> QED
    BY <1>3, <2>1 DEF Instance
<1> QED
  BY <1>2, <1>3

LEMMA LostKeeps == ASSUME LspInv, server' \in {KnownOf(server), [KnownOf(server) EXCEPT !.failures = @ + 1]}, transaction.pc = "ensure",
         ~(server.client /\ process.up), transaction' = Analysis!Idle, UNCHANGED <<disk, manager, process, wire, callbacks, answer>> PROVE LspInv'
<1>0. /\ server' \in {KnownOf(server), [KnownOf(server) EXCEPT !.failures = @ + 1]} /\ transaction.pc = "ensure"
      /\ ~(server.client /\ process.up) /\ transaction' = Analysis!Idle
      /\ UNCHANGED <<disk, manager, process, wire, callbacks, answer>>
  OBVIOUS
<1>9. /\ server \in InstType /\ server' \in InstType /\ server'.files = Analysis!Unscanned /\ server'.doc = Analysis!NoDoc
      /\ server'.next = server.next
  <2>1. server \in InstType /\ KnownOf(server) \in InstType
    BY Known, KnownIs DEF ServerTypes
  <2>2. /\ KnownOf(server).files = Analysis!Unscanned /\ KnownOf(server).doc = Analysis!NoDoc
        /\ KnownOf(server).next = server.next
    BY <2>1, Known, KnownIs
  <2> QED
    BY <1>0, <2>1, <2>2 DEF InstType
<1>20. transaction'.pc = "idle" /\ transaction' = Analysis!Idle /\ ~Resyncing(transaction')
  BY <1>0 DEF Analysis!Idle, Resyncing, After
<1>21. Moves(server, transaction, server', transaction')
  BY <1>9, <1>20 DEF Moves, Analysis!NoDoc, InstType
<1>1. ServerTypes'
  BY <1>0, <1>9, <1>20, Known DEF ServerTypes
<1>2. Instance(server', disk') /\ Conduct(server', disk', transaction')
  <2>1. Instance(server', disk)
    BY <1>9 DEF Instance, Analysis!NoDoc, InstType
  <2> QED
    BY <1>0, <1>20, <2>1 DEF Conduct, Busy, After
<1>3. Computed(server', disk'["dependency"], transaction', process', wire', callbacks')
  BY <1>0, <1>9, <1>21, Known, ComputedMoves DEF ServerTypes
<1>4. InTime(server', process')
  <2>1. CASE server.client
    BY <1>0, <2>1 DEF InTime
  <2>2. CASE ~server.client
    BY <1>0, <1>9, <2>2, Known DEF InTime, Instance, LastSent, Told, Caught
  <2> QED
    BY <2>1, <2>2
<1>5. ~manager'.closing => Asks(transaction', server', process'.inbox, wire')
  BY <1>0, Known, AsksNone
<1>6. LspAnswer' /\ LspRef'
  BY <1>0, Known DEF LspAnswer, LspRef
<1> QED
  BY <1>1, <1>2, <1>3, <1>4, <1>5, <1>6 DEF LspInv

\* A server that has just started, and its instance.
LEMMA UpIs ==
  ASSUME NEW n \in Nat, NEW p \in BOOLEAN
  PROVE  LET x == [up |-> TRUE, inbox |-> <<>>, version |-> 0, text |-> 0, seen |-> n, pulls |-> p]
         IN x \in ServerType /\ x.up /\ x.inbox = <<>> /\ x.version = 0 /\ x.seen = n
  BY EmptyIs DEF ServerType

LEMMA RunsIs ==
  ASSUME NEW z \in InstType, NEW n \in Nat
  PROVE  LET y == [generation |-> n, failures |-> z.failures, files |-> z.files,
                   untold |-> z.untold, doc |-> z.doc, next |-> z.next, client |-> TRUE]
         IN y \in InstType /\ y.client /\ y.doc = z.doc /\ y.files = z.files /\ y.next = z.next
  BY DEF InstType

LEMMA StartingKeeps == ASSUME LspInv, NEW pulls \in BOOLEAN,
         server' = [KnownOf(server) EXCEPT !.client = TRUE, !.generation = @ + 1], transaction.pc = "ensure",
         process' = [Analysis!Down EXCEPT !.up = TRUE, !.seen = disk["dependency"], !.pulls = pulls],
         wire' = <<>>, callbacks' = Analysis!NewClient, transaction' = Analysis!Goto("scan"), UNCHANGED <<disk, manager, answer>> PROVE LspInv'
<1>0. /\ server' = [KnownOf(server) EXCEPT !.client = TRUE, !.generation = @ + 1] /\ transaction.pc = "ensure"
      /\ process' = [Analysis!Down EXCEPT !.up = TRUE, !.seen = disk["dependency"], !.pulls = pulls]
      /\ wire' = <<>> /\ callbacks' = Analysis!NewClient /\ transaction' = Analysis!Goto("scan") /\ UNCHANGED <<disk, manager, answer>>
  OBVIOUS
<1>9. /\ server \in InstType /\ server' \in InstType /\ server'.files = Analysis!Unscanned /\ server'.doc = Analysis!NoDoc
      /\ server'.next = server.next /\ server'.client
  <2>1. server \in InstType /\ KnownOf(server) \in InstType
    BY Known, KnownIs DEF ServerTypes
  <2>2. /\ KnownOf(server).files = Analysis!Unscanned /\ KnownOf(server).doc = Analysis!NoDoc
        /\ KnownOf(server).next = server.next
    BY <2>1, Known, KnownIs
  <2> DEFINE z == KnownOf(server)
  <2>3. z.generation + 1 \in Nat
    BY <2>1 DEF InstType
  <2>4. server' = [z EXCEPT !.client = TRUE, !.generation = z.generation + 1]
    BY <1>0
  <2>5. z \in InstType
    BY <2>1
  <2> HIDE DEF z
  <2>6. server' = [generation |-> z.generation + 1, failures |-> z.failures, files |-> z.files,
                 untold |-> z.untold, doc |-> z.doc, next |-> z.next, client |-> TRUE]
    BY <2>4, <2>5 DEF InstType
  <2> DEFINE n == z.generation + 1
             y == [generation |-> n, failures |-> z.failures, files |-> z.files,
                   untold |-> z.untold, doc |-> z.doc, next |-> z.next, client |-> TRUE]
  <2>7. y \in InstType /\ y.client /\ y.doc = z.doc /\ y.files = z.files /\ y.next = z.next
    <3>1. n \in Nat
      BY <2>3
    <3> HIDE DEF n
    <3> QED
      BY <2>5, <3>1, RunsIs
  <2>8. server' = y
    BY <2>6
  <2> HIDE DEF y
  <2> QED
    BY <2>1, <2>2, <2>7, <2>8 DEF z
<1>10. /\ process' \in ServerType /\ process'.up /\ process'.inbox = <<>> /\ process'.version = 0
       /\ process'.seen = disk["dependency"]
  <2>1. process' = [up |-> TRUE, inbox |-> <<>>, version |-> 0, text |-> 0,
                   seen |-> disk["dependency"], pulls |-> pulls]
    BY <1>0 DEF Analysis!Down
  <2> DEFINE n == disk["dependency"]
             x == [up |-> TRUE, inbox |-> <<>>, version |-> 0, text |-> 0, seen |-> n, pulls |-> pulls]
  <2>2. x \in ServerType /\ x.up /\ x.inbox = <<>> /\ x.version = 0 /\ x.seen = n
    <3>1. n \in Nat
      BY Known
    <3> HIDE DEF n
    <3> QED
      BY <3>1, UpIs
  <2>3. process' = x
    BY <2>1
  <2> HIDE DEF x
  <2> QED
    BY <2>2, <2>3
<1>11. callbacks' \in ClientType /\ callbacks'.pushed = Analysis!NoSet /\ callbacks'.pulled = Analysis!NoSet
  BY <1>0 DEF Analysis!NewClient, Analysis!NoSet, ClientType, SetType
<1>20. /\ transaction' \in Transactions /\ transaction'.pc = "scan" /\ transaction'.query = transaction.query /\ transaction'.scan = transaction.scan
       /\ transaction'.set = transaction.set /\ transaction'.known = transaction.known /\ transaction'.epoch = transaction.epoch /\ transaction'.fresh = transaction.fresh
  BY <1>0, Known, IdleIs, GotoIs DEF Busy, After
<1>21. Moves(server, transaction, server', transaction')
  BY <1>9 DEF Moves, Analysis!NoDoc, InstType
<1>1. ServerTypes'
  BY <1>0, <1>9, <1>10, <1>11, <1>20, EmptyIs, Known DEF ServerTypes
<1>2. Instance(server', disk') /\ Conduct(server', disk', transaction')
  <2>1. Instance(server', disk)
    BY <1>9 DEF Instance, Analysis!NoDoc, InstType
  <2>2. Of(server', disk["dependency"], transaction', transaction'.set)
    BY <1>9, <1>20, <1>21, Known, SetMoves DEF Busy, After, ServerTypes
  <2> QED
    BY <1>0, <1>9, <1>20, <2>1, <2>2, Known DEF Conduct, Busy, After
<1>3. Computed(server', disk'["dependency"], transaction', process', wire', callbacks')
  <2>1. Of(server', disk["dependency"], transaction', process')
    BY <1>9, <1>10, Known DEF Of, Belongs, InstType
  <2>2. Of(server', disk["dependency"], transaction', Analysis!NoSet)
    BY <1>9, Known DEF Of, Belongs, InstType, Analysis!NoSet
  <2> QED
    BY <1>0, <1>10, <1>11, <2>1, <2>2, EmptyIs DEF Computed, OfWire, OfClient, Sent
<1>4. InTime(server', process')
  BY <1>9, <1>10, EmptyIs DEF InTime, LastSent, Told, Caught, Analysis!NoDoc
<1>5. ~manager'.closing => Asks(transaction', server', process'.inbox, wire')
  BY <1>0, <1>10, EmptyIs DEF Asks
<1>6. LspAnswer' /\ LspRef'
  BY <1>0, Known DEF LspAnswer, LspRef
<1> QED
  BY <1>1, <1>2, <1>3, <1>4, <1>5, <1>6 DEF LspInv

LEMMA StillRunsKeeps == ASSUME LspInv, transaction.pc = "ensure", server.client, transaction' = Analysis!Goto("scan"),
         UNCHANGED <<disk, manager, server, process, wire, callbacks, answer>> PROVE LspInv'
<1>0. /\ transaction.pc = "ensure" /\ server.client /\ transaction' = Analysis!Goto("scan")
      /\ UNCHANGED <<disk, manager, server, process, wire, callbacks, answer>>
  OBVIOUS
<1>20. /\ transaction' \in Transactions /\ transaction'.pc = "scan" /\ transaction'.query = transaction.query /\ transaction'.scan = transaction.scan
       /\ transaction'.set = transaction.set /\ transaction'.known = transaction.known /\ transaction'.epoch = transaction.epoch /\ transaction'.fresh = transaction.fresh
  BY <1>0, Known, IdleIs, GotoIs DEF Busy, After
<1>21. Moves(server, transaction, server, transaction')
  BY <1>20, Known DEF Moves, Resyncing, After, ServerTypes, InstType
<1>1. ServerTypes'
  BY <1>0, <1>20, Known DEF ServerTypes
<1>2. Instance(server', disk') /\ Conduct(server', disk', transaction')
  <2>1. Of(server, disk["dependency"], transaction', transaction'.set)
    BY <1>0, <1>20, <1>21, Known, SetMoves DEF Busy, After, ServerTypes
  <2> QED
    BY <1>0, <1>20, <2>1, Known DEF Conduct, Busy, After
<1>3. Computed(server', disk'["dependency"], transaction', process', wire', callbacks')
  BY <1>0, <1>21, Known, ComputedMoves DEF ServerTypes
<1>4. InTime(server', process')
  BY <1>0, Known
<1>5. ~manager'.closing => Asks(transaction', server', process'.inbox, wire')
  BY <1>0, Known, AsksNone
<1>6. LspAnswer' /\ LspRef'
  BY <1>0, Known DEF LspAnswer, LspRef
<1> QED
  BY <1>1, <1>2, <1>3, <1>4, <1>5, <1>6 DEF LspInv

LEMMA EnsureKeeps == ASSUME LspInv, Analysis!Ensure PROVE LspInv'
<1>1. CASE server.client /\ process.up
  BY <1>1, StillRunsKeeps DEF Analysis!Ensure, Analysis!world
<1>2. CASE ~(server.client /\ process.up)
  <2>1. /\ transaction.pc = "ensure" /\ UNCHANGED <<disk, manager, answer>>
        /\ \/ server' = KnownOf(server) /\ transaction' = Analysis!Idle /\ UNCHANGED <<process, wire, callbacks>>
           \/ /\ server' = [KnownOf(server) EXCEPT !.client = TRUE, !.generation = @ + 1]
              /\ \E pulls \in BOOLEAN :
                   process' = [Analysis!Down EXCEPT !.up = TRUE, !.seen = disk["dependency"], !.pulls = pulls]
              /\ wire' = <<>> /\ callbacks' = Analysis!NewClient /\ transaction' = Analysis!Goto("scan")
           \/ /\ server' = [KnownOf(server) EXCEPT !.failures = @ + 1]
              /\ transaction' = Analysis!Idle /\ UNCHANGED <<process, wire, callbacks>>
    BY <1>2 DEF Analysis!Ensure, KnownOf, Analysis!world
  <2> QED
    BY <1>2, <2>1, LostKeeps, StartingKeeps
<1> QED
  BY <1>1, <1>2

LEMMA ScanKeeps == ASSUME LspInv, Analysis!Scan PROVE LspInv'
<1>0. /\ transaction.pc = "scan" /\ transaction' = [transaction EXCEPT !.scan = disk]
      /\ UNCHANGED <<disk, manager, server, process, wire, callbacks, answer>>
  BY DEF Analysis!Scan, Analysis!world
<1>20. /\ transaction' \in Transactions /\ transaction'.pc = "scan" /\ transaction'.set = transaction.set /\ transaction'.scan = disk
  <2>1. transaction \in Transactions /\ disk \in ScanType
    BY <1>0, Known, IdleIs DEF Busy, ScanType, ServerTypes
  <2> QED
    BY <1>0, <2>1 DEF Transactions
<1>21. Moves(server, transaction, server, transaction')
  BY <1>20, Known DEF Moves, Resyncing, After, ServerTypes, InstType
<1>1. ServerTypes'
  BY <1>0, <1>20, Known DEF ServerTypes
<1>2. Instance(server', disk') /\ Conduct(server', disk', transaction')
  <2>1. Of(server, disk["dependency"], transaction', transaction'.set)
    BY <1>0, <1>20, <1>21, Known, SetMoves DEF Busy, After, ServerTypes
  <2>2. \A x \in Analysis!File : disk[x] <= disk[x]
    BY Known DEF ServerTypes
  <2> QED
    BY <1>0, <1>20, <2>1, <2>2, Known DEF Conduct, Busy, After
<1>3. Computed(server', disk'["dependency"], transaction', process', wire', callbacks')
  BY <1>0, <1>21, Known, ComputedMoves DEF ServerTypes
<1>4. InTime(server', process')
  BY <1>0, Known
<1>5. ~manager'.closing => Asks(transaction', server', process'.inbox, wire')
  BY <1>0, Known, AsksNone
<1>6. LspAnswer' /\ LspRef'
  BY <1>0, Known DEF LspAnswer, LspRef
<1> QED
  BY <1>1, <1>2, <1>3, <1>4, <1>5, <1>6 DEF LspInv

LEMMA SendIs ==
  ASSUME NEW x \in ServerType, NEW msg \in MessageType, NEW y,
         y = [x EXCEPT !.inbox = IF x.up THEN Append(@, msg) ELSE @]
  PROVE  /\ y \in ServerType /\ y.up = x.up /\ y.version = x.version /\ y.text = x.text
         /\ y.seen = x.seen /\ y.pulls = x.pulls
         /\ y.inbox = IF x.up THEN Append(x.inbox, msg) ELSE x.inbox
<1>1. x.inbox \in Seq(MessageType) /\ Append(x.inbox, msg) \in Seq(MessageType)
  BY DEF ServerType
<1> DEFINE b == IF x.up THEN Append(x.inbox, msg) ELSE x.inbox
<1>2. b \in Seq(MessageType) /\ y = [x EXCEPT !.inbox = b]
  BY <1>1
<1> HIDE DEF b
<1>3. y \in ServerType /\ y.up = x.up /\ y.version = x.version /\ y.text = x.text
      /\ y.seen = x.seen /\ y.pulls = x.pulls /\ y.inbox = b
  BY <1>2 DEF ServerType
<1> QED
  BY <1>3 DEF b

LEMMA SentMore ==
  ASSUME NEW i, NEW t, NEW b \in Seq(MessageType), NEW msg \in MessageType, NEW s,
         Sent(i, t, b, s),
         msg.kind = "sync" =>
           /\ msg.version <= i.next /\ msg.version > 0
           /\ msg.version = i.doc.version =>
                /\ msg.text = i.doc.text
                /\ Resyncing(t) => Told(i, b, s)
  PROVE  Sent(i, t, Append(b, msg), s)
<1> DEFINE c == Append(b, msg)
<1>1. /\ Len(b) \in Nat /\ Len(c) = Len(b) + 1 /\ \A k \in 1..Len(b) : c[k] = b[k]
      /\ c[Len(b) + 1] = msg /\ \A k \in 1..(Len(b) + 1) : k \in 1..Len(b) \/ k = Len(b) + 1
  BY Queued
<1> HIDE DEF c
<1>2. ASSUME NEW k \in 1..Len(c), c[k].kind = "sync"
      PROVE  /\ c[k].version <= i.next /\ c[k].version > 0
             /\ c[k].version = i.doc.version =>
                  /\ c[k].text = i.doc.text
                  /\ Resyncing(t) => Caught(i, s) \/ \E l \in 1..(k - 1) : c[l].kind = "watched"
  <2>1. CASE k \in 1..Len(b)
    <3>1. \A l \in 1..(k - 1) : l \in 1..Len(b)
      BY <1>1, <2>1
    <3> QED
      BY <1>1, <1>2, <2>1, <3>1 DEF Sent
  <2>2. CASE k = Len(b) + 1
    <3>1. k - 1 = Len(b)
      BY <1>1, <2>2
    <3> QED
      BY <1>1, <1>2, <2>2, <3>1 DEF Told
  <2> QED
    BY <1>1, <2>1, <2>2
<1> QED
  BY <1>2 DEF Sent, c

LEMMA LastSentMore ==
  ASSUME NEW i, NEW b \in Seq(MessageType), NEW msg \in MessageType, NEW v,
         \/ msg.kind # "sync" /\ LastSent(i, b, v)
         \/ msg.kind = "sync" /\ msg.version = i.doc.version
  PROVE  LastSent(i, Append(b, msg), v)
<1> DEFINE c == Append(b, msg)
<1>1. /\ Len(b) \in Nat /\ Len(c) = Len(b) + 1 /\ \A k \in 1..Len(b) : c[k] = b[k]
      /\ c[Len(b) + 1] = msg /\ \A k \in 1..(Len(b) + 1) : k \in 1..Len(b) \/ k = Len(b) + 1
  BY Queued
<1> HIDE DEF c
<1>2. ASSUME NEW k \in 1..Len(c), c[k].kind = "sync", \A l \in (k + 1)..Len(c) : c[l].kind # "sync"
      PROVE  c[k].version = i.doc.version
  <2>1. CASE k \in 1..Len(b)
    <3>1. Len(b) + 1 \in (k + 1)..Len(c) /\ \A l \in (k + 1)..Len(b) : l \in (k + 1)..Len(c) /\ l \in 1..Len(b)
      BY <1>1, <2>1
    <3>2. msg.kind # "sync"
      BY <1>1, <1>2, <3>1
    <3>3. \A l \in (k + 1)..Len(b) : b[l].kind # "sync"
      BY <1>1, <1>2, <3>1
    <3> QED
      BY <1>1, <1>2, <2>1, <3>2, <3>3 DEF LastSent
  <2>2. CASE k = Len(b) + 1
    BY <1>1, <1>2, <2>2
  <2> QED
    BY <1>1, <2>1, <2>2
<1>3. ASSUME \A k \in 1..Len(c) : c[k].kind # "sync" PROVE v = i.doc.version
  <2>1. Len(b) + 1 \in 1..Len(c) /\ \A k \in 1..Len(b) : k \in 1..Len(c)
    BY <1>1
  <2> QED
    BY <1>1, <1>3, <2>1 DEF LastSent
<1> QED
  BY <1>2, <1>3 DEF LastSent, c

LEMMA ToldMore ==
  ASSUME NEW i, NEW b \in Seq(MessageType), NEW msg \in MessageType, NEW s,
         Told(i, b, s) \/ msg.kind = "watched"
  PROVE  Told(i, Append(b, msg), s)
<1>1. /\ Len(b) \in Nat /\ Len(Append(b, msg)) = Len(b) + 1
      /\ \A k \in 1..Len(b) : k \in 1..(Len(b) + 1) /\ Append(b, msg)[k] = b[k]
      /\ Len(b) + 1 \in 1..(Len(b) + 1) /\ Append(b, msg)[Len(b) + 1] = msg
  BY Queued
<1> QED
  BY <1>1 DEF Told

LEMMA AsksMore ==
  ASSUME NEW t, NEW u, NEW i, NEW j, NEW b \in Seq(MessageType), NEW msg \in MessageType, NEW w,
         Asks(t, i, b, w), t.pc # "asked", msg.kind = "ask" => u.pc = "asked"
  PROVE  Asks(u, j, Append(b, msg), w)
<1>1. /\ Len(b) \in Nat /\ Len(Append(b, msg)) = Len(b) + 1
      /\ \A k \in 1..Len(b) : Append(b, msg)[k] = b[k]
      /\ Append(b, msg)[Len(b) + 1] = msg /\ \A k \in 1..(Len(b) + 1) : k \in 1..Len(b) \/ k = Len(b) + 1
  BY Queued
<1>2. (\A k \in 1..Len(b) : b[k].kind # "ask") /\ (\A k \in 1..Len(w) : w[k].kind # "report")
  BY DEF Asks
<1> QED
  BY <1>1, <1>2 DEF Asks

LEMMA ReconcileKeeps == ASSUME LspInv, Analysis!Reconcile PROVE LspInv'
<1> DEFINE msg == [kind |-> "watched"]
           first == server.files = Analysis!Unscanned
           differs == ~first /\ transaction.scan # server.files
           changed == ~first /\ transaction.scan["dependency"] # server.files["dependency"]
           tells == changed /\ callbacks.watches
           e == IF differs THEN manager.epoch + 1 ELSE manager.epoch
           f == IF first \/ (changed /\ ~tells) THEN transaction.scan["dependency"] ELSE server.untold
<1>0. /\ transaction.pc = "scan" /\ transaction.scan # Analysis!Unscanned /\ transaction' = Analysis!Goto("sync")
      /\ manager' = [manager EXCEPT !.epoch = e] /\ callbacks' = [callbacks EXCEPT !.epoch = e]
      /\ server' = [server EXCEPT !.files = transaction.scan, !.untold = f]
      /\ process' = IF tells THEN Analysis!Send(msg) ELSE process
      /\ UNCHANGED <<disk, wire, answer>>
  BY DEF Analysis!Reconcile, Analysis!world
<1>15. msg \in MessageType /\ msg.kind = "watched"
  BY DEF MessageType
<1> HIDE DEF msg
<1>16. transaction \in Transactions /\ transaction.scan \in [Analysis!File -> Nat] /\ \A x \in Analysis!File : transaction.scan[x] <= disk[x]
  <2>1. transaction \in Transactions
    BY <1>0, Known, IdleIs DEF Busy
  <2> QED
    BY <1>0, <2>1, Known DEF Transactions, ScanType, Conduct, Busy
<1>14. e \in Nat /\ f \in Nat
  BY <1>16, Known DEF ServerTypes, ManagerType, InstType
<1> HIDE DEF e, f
<1>7. manager' \in ManagerType /\ manager'.closing = manager.closing /\ manager'.ref = manager.ref
  BY <1>0, <1>14, Known DEF ServerTypes, ManagerType
<1>8. callbacks' \in ClientType /\ callbacks'.pushed = callbacks.pushed /\ callbacks'.pulled = callbacks.pulled
  BY <1>0, <1>14, Known DEF ServerTypes, ClientType
<1>9. /\ server \in InstType /\ server' \in InstType /\ server'.files = transaction.scan /\ server'.doc = server.doc
      /\ server'.next = server.next /\ server'.client = server.client
      /\ server'.untold = f
  BY <1>0, <1>14, <1>16, Known DEF ServerTypes, InstType, ScanType
<1>10. /\ process' \in ServerType /\ process'.up = process.up /\ process'.version = process.version
       /\ process'.text = process.text /\ process'.seen = process.seen
       /\ process'.inbox = IF tells /\ process.up THEN Append(process.inbox, msg)
                          ELSE process.inbox
  <2>1. process \in ServerType
    BY Known DEF ServerTypes
  <2>2. CASE tells
    <3> HIDE DEF tells
    <3>0. process' = Analysis!Send(msg)
      BY <1>0, <2>2
    <3>1. process' = [process EXCEPT !.inbox = IF process.up THEN Append(@, msg) ELSE @]
      BY <3>0 DEF Analysis!Send
    <3> QED
      BY <1>15, <2>1, <2>2, <3>1, SendIs
  <2>3. CASE ~tells
    BY <1>0, <2>1, <2>3
  <2> QED
    BY <2>2, <2>3
<1>20. /\ transaction' \in Transactions /\ transaction'.pc = "sync" /\ transaction'.query = transaction.query /\ transaction'.scan = transaction.scan
       /\ transaction'.set = transaction.set /\ transaction'.known = transaction.known /\ transaction'.epoch = transaction.epoch /\ transaction'.fresh = transaction.fresh
  BY <1>0, Known, IdleIs, GotoIs DEF Busy, After
<1>21. Moves(server, transaction, server', transaction')
  BY <1>9, <1>20 DEF Moves, Resyncing, After, InstType
<1>1. ServerTypes'
  BY <1>0, <1>7, <1>8, <1>9, <1>10, <1>20, Known DEF ServerTypes
<1>2. Instance(server', disk') /\ Conduct(server', disk', transaction')
  <2>1. Instance(server', disk)
    BY <1>0, <1>16, <1>9, <1>20, Known DEF Conduct, Instance, Busy, After
  <2>2. Of(server', disk["dependency"], transaction', transaction'.set)
    BY <1>0, <1>9, <1>20, <1>21, Known, SetMoves DEF Busy, After, ServerTypes
  <2> QED
    BY <1>0, <1>16, <1>9, <1>20, <2>1, <2>2, Known DEF Conduct, Busy, After
<1>3. Computed(server', disk'["dependency"], transaction', process', wire', callbacks')
  <2>1. Computed(server', disk["dependency"], transaction', process, wire, callbacks)
    BY <1>9, <1>21, Known, ComputedMoves DEF ServerTypes
  <2>2. Sent(server', transaction', process'.inbox, process'.seen)
    <3>1. process.inbox \in Seq(MessageType) /\ Sent(server', transaction', process.inbox, process.seen)
      BY <2>1, Known DEF Computed, ServerTypes, ServerType
    <3>2. Sent(server', transaction', Append(process.inbox, msg), process.seen)
      BY <1>15, <3>1, SentMore
    <3> QED
      BY <1>10, <3>1, <3>2
  <2> QED
    BY <1>0, <1>8, <1>10, <2>1, <2>2 DEF Computed, OfClient, Of
<1>4. InTime(server', process')
  <2>1. SUFFICES ASSUME process.up
        PROVE  LastSent(server', process'.inbox, process.version) /\ Told(server', process'.inbox, process.seen)
    BY <1>10 DEF InTime
  <2>2. LastSent(server, process.inbox, process.version) /\ Told(server, process.inbox, process.seen)
    BY <2>1, Known DEF InTime
  <2>3. LastSent(server', process.inbox, process.version)
    BY <1>9, <2>2 DEF LastSent
  <2>4. process.inbox \in Seq(MessageType)
    BY Known DEF ServerTypes, ServerType
  <2>5. CASE tells
    <3> HIDE DEF tells
    <3>1. process'.inbox = Append(process.inbox, msg)
      BY <1>10, <2>1, <2>5
    <3> QED
      BY <1>15, <2>3, <2>4, <3>1, LastSentMore, ToldMore
  <2>6. CASE ~tells
    <3>1. process'.inbox = process.inbox
      BY <1>10, <2>6
    <3>2. Told(server', process.inbox, process.seen)
      <4>1. CASE first \/ changed
        <5>1. server'.untold = server'.files["dependency"]
          BY <1>9, <2>6, <4>1 DEF f
        <5> QED
          BY <5>1 DEF Told, Caught
      <4>2. CASE ~(first \/ changed)
        <5>1. server'.untold = server.untold /\ server'.files["dependency"] = server.files["dependency"] /\ server.files # Analysis!Unscanned
          BY <1>9, <4>2 DEF f
        <5> QED
          BY <2>2, <5>1 DEF Told, Caught
      <4> QED
        BY <4>1, <4>2
    <3> QED
      BY <2>3, <3>1, <3>2
  <2> QED
    BY <2>5, <2>6
<1>5. ~manager'.closing => Asks(transaction', server', process'.inbox, wire')
  <2>1. process.inbox \in Seq(MessageType)
    BY Known DEF ServerTypes, ServerType
  <2> QED
    BY <1>0, <1>15, <1>7, <1>10, <1>20, <2>1, Known, AsksNone, AsksMore
<1>6. LspAnswer' /\ LspRef'
  BY <1>0, <1>7, Known DEF LspAnswer, LspRef
<1> QED
  BY <1>1, <1>2, <1>3, <1>4, <1>5, <1>6 DEF LspInv

LEMMA UnsentKeeps == ASSUME LspInv, transaction.pc = "sync", NEW p \in {"wait", "ask"}, ~Analysis!MustSend(disk["document"]), transaction' = Analysis!Goto(p),
         UNCHANGED <<disk, manager, server, process, wire, callbacks, answer>> PROVE LspInv'
<1>0. /\ transaction.pc = "sync" /\ ~Analysis!MustSend(disk["document"]) /\ transaction' = Analysis!Goto(p) /\ p \in {"wait", "ask"}
      /\ UNCHANGED <<disk, manager, server, process, wire, callbacks, answer>>
  OBVIOUS
<1>20. /\ transaction' \in Transactions /\ transaction'.pc = p /\ transaction'.query = transaction.query /\ transaction'.scan = transaction.scan
       /\ transaction'.set = transaction.set /\ transaction'.known = transaction.known /\ transaction'.epoch = transaction.epoch /\ transaction'.fresh = transaction.fresh
  BY <1>0, Known, IdleIs, GotoIs DEF Busy, After
<1>21. Moves(server, transaction, server, transaction')
  BY <1>0, <1>20, Known DEF Moves, Resyncing, Analysis!MustSend, ServerTypes, InstType
<1>1. ServerTypes'
  BY <1>0, <1>20, Known DEF ServerTypes
<1>2. Instance(server', disk') /\ Conduct(server', disk', transaction')
  <2>1. Of(server, disk["dependency"], transaction', transaction'.set)
    BY <1>0, <1>20, <1>21, Known, SetMoves DEF Busy, After, ServerTypes
  <2>2. server.doc.version > 0
    BY <1>0, Known DEF Analysis!MustSend, Instance
  <2> QED
    BY <1>0, <1>20, <2>1, <2>2, Known DEF Conduct, Busy, After
<1>3. Computed(server', disk'["dependency"], transaction', process', wire', callbacks')
  BY <1>0, <1>21, Known, ComputedMoves DEF ServerTypes
<1>4. InTime(server', process')
  BY <1>0, Known
<1>5. ~manager'.closing => Asks(transaction', server', process'.inbox, wire')
  BY <1>0, Known, AsksNone
<1>6. LspAnswer' /\ LspRef'
  BY <1>0, Known DEF LspAnswer, LspRef
<1> QED
  BY <1>1, <1>2, <1>3, <1>4, <1>5, <1>6 DEF LspInv

LEMMA ResentKeeps == ASSUME LspInv, transaction.pc = "sync", NEW p \in {"wait", "ask"}, transaction' = Analysis!Goto(p),
         server' = [server EXCEPT !.next = server.next + 1,
                              !.doc = [version |-> server.next + 1, text |-> disk["document"]]],
         process' = Analysis!Send([kind |-> "sync", version |-> server.next + 1, text |-> disk["document"]]),
         UNCHANGED <<disk, manager, wire, callbacks, answer>> PROVE LspInv'
<1> DEFINE msg == [kind |-> "sync", version |-> server.next + 1, text |-> disk["document"]]
<1>0. /\ transaction.pc = "sync" /\ transaction' = Analysis!Goto(p) /\ p \in {"wait", "ask"} /\ process' = Analysis!Send(msg)
      /\ server' = [server EXCEPT !.next = server.next + 1,
                              !.doc = [version |-> server.next + 1, text |-> disk["document"]]]
      /\ UNCHANGED <<disk, manager, wire, callbacks, answer>>
  OBVIOUS
<1>14. server.next \in Nat /\ disk["document"] \in Nat
  BY Known DEF ServerTypes, InstType, Analysis!File
<1>15. /\ msg \in MessageType /\ msg.kind = "sync" /\ msg.version = server.next + 1
      /\ msg.text = disk["document"]
  BY <1>14 DEF MessageType
<1>9. /\ server \in InstType /\ server' \in InstType /\ server'.files = server.files
      /\ server'.next = server.next + 1 /\ server'.client = server.client /\ server'.untold = server.untold
      /\ server'.doc.version = server.next + 1 /\ server'.doc.text = disk["document"]
  <2> DEFINE z == [version |-> server.next + 1, text |-> disk["document"]]
             n == server.next + 1
  <2>1. z \in DocType /\ z.version = n /\ z.text = disk["document"] /\ n \in Nat
    BY <1>14 DEF DocType
  <2>2. server \in InstType /\ server' = [server EXCEPT !.next = n, !.doc = z] /\ n = server.next + 1
    BY <1>0, Known DEF ServerTypes
  <2> HIDE DEF z, n
  <2> QED
    BY <2>1, <2>2 DEF InstType
<1> HIDE DEF msg
<1>10. /\ process' \in ServerType /\ process'.up = process.up /\ process'.version = process.version
       /\ process'.text = process.text /\ process'.seen = process.seen
       /\ process'.inbox = IF process.up THEN Append(process.inbox, msg) ELSE process.inbox
  BY <1>0, <1>15, Known, SendIs DEF Analysis!Send, ServerTypes
<1>20. /\ transaction' \in Transactions /\ transaction'.pc = p /\ transaction'.query = transaction.query /\ transaction'.scan = transaction.scan
       /\ transaction'.set = transaction.set /\ transaction'.known = transaction.known /\ transaction'.epoch = transaction.epoch /\ transaction'.fresh = transaction.fresh
  BY <1>0, Known, IdleIs, GotoIs DEF Busy, After
<1>21. Moves(server, transaction, server', transaction')
  BY <1>9 DEF Moves, InstType
<1>1. ServerTypes'
  BY <1>0, <1>9, <1>10, <1>20, Known DEF ServerTypes
<1>2. Instance(server', disk') /\ Conduct(server', disk', transaction')
  <2>1. Of(server', disk["dependency"], transaction', transaction'.set)
    BY <1>9, <1>20, <1>21, Known, SetMoves DEF Busy, After, ServerTypes
  <2>2. server'.doc.version > 0 /\ server.client
    BY <1>0, <1>9, Known DEF InstType, Conduct
  <2>3. Instance(server', disk)
    BY <1>9, <2>2, Known DEF Instance, InstType
  <2> QED
    BY <1>0, <1>9, <1>20, <2>1, <2>2, <2>3, Known DEF Conduct, Busy, After
<1>3. Computed(server', disk'["dependency"], transaction', process', wire', callbacks')
  <2>1. Computed(server', disk["dependency"], transaction', process, wire, callbacks)
    BY <1>9, <1>21, Known, ComputedMoves DEF ServerTypes
  <2>2. Sent(server', transaction', process'.inbox, process'.seen)
    <3>1. CASE ~process.up
      BY <1>10, <2>1, <3>1 DEF Computed
    <3>2. CASE process.up
      <4>1. process.inbox \in Seq(MessageType) /\ Told(server', process.inbox, process.seen)
        BY <1>9, <3>2, Known DEF InTime, Told, Caught, ServerTypes, ServerType
      <4>2. msg.version <= server'.next /\ msg.version > 0 /\ msg.text = server'.doc.text
        BY <1>15, <1>9 DEF InstType
      <4>3. Sent(server', transaction', process.inbox, process.seen)
        BY <2>1 DEF Computed
      <4>4. Sent(server', transaction', Append(process.inbox, msg), process.seen)
        BY <1>15, <4>1, <4>2, <4>3, SentMore
      <4> QED
        BY <1>10, <3>2, <4>4
    <3> QED
      BY <3>1, <3>2
  <2> QED
    BY <1>0, <1>10, <2>1, <2>2 DEF Computed, Of
<1>4. InTime(server', process')
  <2>1. SUFFICES ASSUME process.up
        PROVE  LastSent(server', process'.inbox, process.version) /\ Told(server', process'.inbox, process.seen)
    BY <1>10 DEF InTime
  <2>2. process.inbox \in Seq(MessageType) /\ Told(server', process.inbox, process.seen)
    BY <1>9, <2>1, Known DEF InTime, Told, Caught, ServerTypes, ServerType
  <2>3. msg.version = server'.doc.version
    BY <1>15, <1>9
  <2> QED
    <3>1. LastSent(server', Append(process.inbox, msg), process.version)
      BY <1>15, <2>2, <2>3, LastSentMore
    <3>2. Told(server', Append(process.inbox, msg), process.seen)
      BY <1>15, <2>2, ToldMore
    <3> QED
      BY <1>10, <2>1, <3>1, <3>2
<1>5. ~manager'.closing => Asks(transaction', server', process'.inbox, wire')
  <2>1. process.inbox \in Seq(MessageType)
    BY Known DEF ServerTypes, ServerType
  <2> QED
    BY <1>0, <1>15, <1>10, <2>1, Known, AsksNone, AsksMore
<1>6. LspAnswer' /\ LspRef'
  BY <1>0, Known DEF LspAnswer, LspRef
<1> QED
  BY <1>1, <1>2, <1>3, <1>4, <1>5, <1>6 DEF LspInv

LEMMA SyncKeeps == ASSUME LspInv, Analysis!Sync PROVE LspInv'
<1> DEFINE p == IF transaction.query.kind = "diagnostics" /\ ~process.pulls THEN "wait" ELSE "ask"
<1>1. transaction.pc = "sync" /\ p \in {"wait", "ask"} /\ transaction' = Analysis!Goto(p) /\ UNCHANGED <<disk, manager, wire, callbacks, answer>>
  BY DEF Analysis!Sync, Analysis!world
<1>2. CASE ~Analysis!MustSend(disk["document"])
  <2>1. UNCHANGED <<server, process>>
    BY <1>2 DEF Analysis!Sync
  <2> HIDE DEF p
  <2> QED
    BY <1>1, <1>2, <2>1, UnsentKeeps
<1>3. CASE Analysis!MustSend(disk["document"])
  <2>1. /\ server' = [server EXCEPT !.next = server.next + 1,
                               !.doc = [version |-> server.next + 1, text |-> disk["document"]]]
        /\ process' = Analysis!Send([kind |-> "sync", version |-> server.next + 1, text |-> disk["document"]])
    BY <1>3 DEF Analysis!Sync
  <2> HIDE DEF p
  <2> QED
    BY <1>1, <2>1, ResentKeeps
<1> QED
  BY <1>2, <1>3

LEMMA AskKeeps == ASSUME LspInv, Analysis!Ask PROVE LspInv'
<1> DEFINE msg == [kind |-> "ask"]
<1>0. /\ transaction.pc = "ask" /\ process.up /\ process' = Analysis!Send(msg)
      /\ transaction' = [transaction EXCEPT !.pc = "asked", !.asked = callbacks.revision, !.epoch = manager.epoch]
      /\ UNCHANGED <<disk, manager, server, wire, callbacks, answer>>
  BY DEF Analysis!Ask, Analysis!world
<1>15. msg \in MessageType /\ msg.kind = "ask"
  BY DEF MessageType
<1> HIDE DEF msg
<1>10. /\ process' \in ServerType /\ process'.up /\ process'.version = process.version
       /\ process'.text = process.text /\ process'.seen = process.seen
       /\ process'.inbox = Append(process.inbox, msg)
  BY <1>0, <1>15, Known, SendIs DEF Analysis!Send, ServerTypes
<1>20. /\ transaction' \in Transactions /\ transaction'.pc = "asked" /\ transaction'.query = transaction.query /\ transaction'.scan = transaction.scan
       /\ transaction'.set = transaction.set /\ transaction'.fresh = transaction.fresh
  <2> DEFINE z == callbacks.revision
             e == manager.epoch
  <2>1. transaction \in Transactions /\ z \in Int /\ e \in Nat
    BY <1>0, Known, IdleIs DEF Busy, After, ServerTypes, ClientType, ManagerType
  <2>2. transaction' = [transaction EXCEPT !.pc = "asked", !.asked = z, !.epoch = e]
    BY <1>0
  <2> HIDE DEF z, e
  <2>3. "asked" \in Busy
    BY DEF Busy, After
  <2> QED
    BY <2>1, <2>2, <2>3 DEF Transactions
<1>21. Moves(server, transaction, server, transaction')
  BY <1>0, <1>20, Known DEF Moves, Resyncing, After, ServerTypes, InstType
<1>1. ServerTypes'
  BY <1>0, <1>10, <1>20, Known DEF ServerTypes
<1>2. Instance(server', disk') /\ Conduct(server', disk', transaction')
  <2>1. Of(server, disk["dependency"], transaction', transaction'.set)
    BY <1>0, <1>20, <1>21, Known, SetMoves DEF Busy, After, ServerTypes
  <2> QED
    BY <1>0, <1>20, <2>1, Known DEF Conduct, Busy, After
<1>3. Computed(server', disk'["dependency"], transaction', process', wire', callbacks')
  <2>1. Computed(server, disk["dependency"], transaction', process, wire, callbacks)
    BY <1>21, Known, ComputedMoves DEF ServerTypes
  <2>2. Sent(server, transaction', process'.inbox, process'.seen)
    <3>1. process.inbox \in Seq(MessageType) /\ Sent(server, transaction', process.inbox, process.seen)
      BY <2>1, Known DEF Computed, ServerTypes, ServerType
    <3>2. Sent(server, transaction', Append(process.inbox, msg), process.seen)
      BY <1>15, <3>1, SentMore
    <3> QED
      BY <1>10, <3>2
  <2> QED
    BY <1>0, <1>10, <2>1, <2>2 DEF Computed, Of
<1>4. InTime(server', process')
  <2>1. process.inbox \in Seq(MessageType)
    BY Known DEF ServerTypes, ServerType
  <2> QED
    BY <1>0, <1>10, <1>15, <2>1, Known, LastSentMore, ToldMore DEF InTime
<1>5. ~manager'.closing => Asks(transaction', server', process'.inbox, wire')
  <2>1. process.inbox \in Seq(MessageType)
    BY Known DEF ServerTypes, ServerType
  <2> QED
    <3>1. SUFFICES ASSUME ~manager.closing PROVE Asks(transaction', server, Append(process.inbox, msg), wire)
      BY <1>0, <1>10
    <3>2. Asks(transaction, server, process.inbox, wire) /\ transaction.pc # "asked"
      BY <1>0, <3>1, Known
    <3> QED
      BY <1>15, <1>20, <2>1, <3>2, AsksMore
<1>6. LspAnswer' /\ LspRef'
  BY <1>0, Known DEF LspAnswer, LspRef
<1> QED
  BY <1>1, <1>2, <1>3, <1>4, <1>5, <1>6 DEF LspInv

\* What a snapshot is taken of, it is like.
LEMMA SnapshotIs ==
  ASSUME NEW i \in InstType, NEW d \in Nat, NEW t, NEW c \in ClientType, OfClient(i, d, t, c)
  PROVE  Analysis!Snapshot(c) \in SetType /\ Of(i, d, t, Analysis!Snapshot(c))
<1>1. /\ c.pushed \in SetType /\ c.pulled \in SetType /\ c.revision \in Nat /\ i.next \in Nat
  BY DEF ClientType, InstType
<1>2. Of(i, d, t, c.pushed) /\ Of(i, d, t, c.pulled)
  BY DEF OfClient
<1> DEFINE z == Analysis!Pulled(c)
<1>3. z \in SetType /\ Of(i, d, t, z)
  <2>1. CASE c.pulled.revision = c.revision
    BY <1>1, <1>2, <2>1 DEF Analysis!Pulled
  <2>2. CASE c.pulled.revision # c.revision
    <3>1. z = [c.pulled EXCEPT !.version = 0]
      BY <2>2 DEF Analysis!Pulled
    <3>2. z \in SetType /\ z.version = 0 /\ z.seen = c.pulled.seen
      BY <1>1, <3>1 DEF SetType
    <3> QED
      BY <1>1, <1>2, <3>2 DEF Of, Belongs
  <2> QED
    BY <2>1, <2>2
<1> HIDE DEF z
<1>4. Analysis!Merged(c.pushed, z) \in SetType /\ Of(i, d, t, Analysis!Merged(c.pushed, z))
  <2> DEFINE y == Analysis!Merged(c.pushed, z)
             ver == IF c.pushed.version = z.version /\ c.pushed.epoch = z.epoch THEN z.version ELSE 0
             txt == Analysis!Less(c.pushed.text, z.text)
             see == Analysis!Less(c.pushed.seen, z.seen)
  <2>1. ver \in Nat /\ txt \in Nat /\ see \in Nat
    BY <1>1, <1>3 DEF SetType, Analysis!Less
  <2>2. /\ ver # 0 => ver = c.pushed.version /\ ver = z.version
        /\ txt \in {c.pushed.text, z.text} /\ see \in {c.pushed.seen, z.seen}
    BY DEF Analysis!Less
  <2>3. y = [z EXCEPT !.version = ver, !.text = txt, !.seen = see]
    BY DEF Analysis!Merged
  <2> HIDE DEF ver, txt, see, y
  <2>4. y \in SetType /\ y.version = ver /\ y.text = txt /\ y.seen = see
    BY <1>3, <2>1, <2>3 DEF SetType
  <2>5. Belongs(i, d, t, ver, txt, see)
    BY <1>1, <1>2, <1>3, <2>1, <2>2 DEF Of, Belongs
  <2> QED
    BY <2>4, <2>5 DEF Of, y
<1> QED
  BY <1>1, <1>2, <1>3, <1>4 DEF Analysis!Snapshot, z

\* An answered request: nothing else is on its way.
LEMMA AnsweredIs ==
  ASSUME LspInv, ~manager.closing, Analysis!Answered
  PROVE  /\ transaction.pc = "asked" /\ wire # <<>> /\ wire \in Seq(ReportType) /\ Head(wire) \in ReportType
         /\ Of(server, disk["dependency"], transaction, Head(wire))
         /\ Head(wire).version = server.doc.version /\ Caught(server, Head(wire).seen)
         /\ \A u : Asks(u, server, process.inbox, Tail(wire))
         /\ OfWire(server, disk["dependency"], transaction, Tail(wire))
<1>1. transaction.pc = "asked" /\ wire # <<>> /\ wire \in Seq(ReportType) /\ Head(wire).kind = "report"
  BY Known DEF Analysis!Answered, ServerTypes
<1>2. /\ Head(wire) = wire[1] /\ wire[1] \in ReportType /\ 1 \in 1..Len(wire)
      /\ Len(Tail(wire)) = Len(wire) - 1 /\ Len(wire) \in Nat
      /\ \A k \in 1..Len(Tail(wire)) : k + 1 \in 1..Len(wire) /\ k + 1 # 1 /\ Tail(wire)[k] = wire[k + 1]
  BY <1>1, Taken
<1>3. Of(server, disk["dependency"], transaction, Head(wire)) /\ OfWire(server, disk["dependency"], transaction, Tail(wire))
  BY <1>1, <1>2, Known, WireLess DEF Computed, OfWire
<1>4. Asks(transaction, server, process.inbox, wire)
  BY Known
<1>5. /\ wire[1].version = server.doc.version /\ Caught(server, wire[1].seen)
      /\ \A k \in 1..Len(wire) : wire[k].kind = "report" => k = 1
  BY <1>1, <1>2, <1>4 DEF Asks
<1>6. /\ \A k \in 1..Len(process.inbox) : process.inbox[k].kind # "ask"
      /\ \A k \in 1..Len(Tail(wire)) : Tail(wire)[k].kind # "report"
  BY <1>1, <1>2, <1>4, <1>5 DEF Asks
<1> QED
  BY <1>1, <1>2, <1>3, <1>5, <1>6 DEF Asks

LEMMA PullAnsweredKeeps == ASSUME LspInv, ~manager.closing, Analysis!PullAnswered PROVE LspInv'
<1> DEFINE s == [Analysis!AsSet(Head(wire), callbacks.epoch, transaction.asked) EXCEPT !.version = server.doc.version]
           c == [callbacks EXCEPT !.pulled = Analysis!Store(@, s)]
<1>0. /\ Analysis!Answered /\ transaction.pc = "asked" /\ wire' = Tail(wire) /\ callbacks' = c
      /\ transaction' = [transaction EXCEPT !.pc = "label", !.set = Analysis!Snapshot(c), !.known = TRUE]
      /\ UNCHANGED <<disk, manager, server, process, answer>> /\ server \in InstType
  BY Known DEF Analysis!PullAnswered, Analysis!Answered, Analysis!world, ServerTypes
<1>9. wire # <<>> /\ wire \in Seq(ReportType) /\ Head(wire) \in ReportType
  BY <1>0, AnsweredIs
<1>8. transaction \in Transactions /\ callbacks \in ClientType
  BY <1>0, Known, IdleIs DEF Busy, After, ServerTypes
<1>10. /\ s \in SetType /\ s.version = server.doc.version /\ s.text = Head(wire).text
       /\ s.seen = Head(wire).seen
  <2>1. /\ callbacks.epoch \in Nat /\ transaction.asked \in Int /\ server.doc.version \in Nat
    BY <1>0, <1>8 DEF Transactions, ClientType, InstType, DocType
  <2>2. Analysis!AsSet(Head(wire), callbacks.epoch, transaction.asked) \in SetType
    BY <1>9, <2>1 DEF Analysis!AsSet, SetType, ReportType
  <2> QED
    BY <1>9, <2>1, <2>2 DEF SetType, Analysis!AsSet
<1> HIDE DEF s
<1>11. /\ c \in ClientType /\ c.pushed = callbacks.pushed /\ c.pulled \in {callbacks.pulled, s}
  <2>1. Analysis!Store(callbacks.pulled, s) \in {callbacks.pulled, s} /\ callbacks.pulled \in SetType
    BY <1>8 DEF Analysis!Store, ClientType
  <2> QED
    BY <1>8, <1>10, <2>1 DEF ClientType
<1> HIDE DEF c
<1>19. transaction'.pc = "label" /\ transaction'.query = transaction.query
  BY <1>0, <1>8 DEF Transactions
<1>21. Moves(server, transaction, server, transaction')
  BY <1>0, <1>19 DEF Moves, Resyncing, After, InstType
<1>12. OfClient(server, disk["dependency"], transaction', callbacks')
  <2>1. OfClient(server, disk["dependency"], transaction', callbacks)
    BY <1>0, <1>21, Known, ComputedMoves DEF Computed, ServerTypes
  <2>2. Of(server, disk["dependency"], transaction', s)
    BY <1>0, <1>10, AnsweredIs, Known DEF Of, Belongs, Instance, InstType, DocType
  <2> QED
    BY <1>0, <1>11, <2>1, <2>2 DEF OfClient
<1>13. Analysis!Snapshot(c) \in SetType /\ Of(server, disk["dependency"], transaction', Analysis!Snapshot(c))
  BY <1>0, <1>11, <1>12, Known, SnapshotIs
<1>20. /\ transaction' \in Transactions /\ transaction'.pc = "label" /\ transaction'.scan = transaction.scan /\ transaction'.set = Analysis!Snapshot(c)
  BY <1>0, <1>8, <1>13 DEF Transactions, Busy, After
<1>1. ServerTypes'
  BY <1>0, <1>9, <1>11, <1>20, Taken, Known DEF ServerTypes
<1>2. Instance(server', disk') /\ Conduct(server', disk', transaction')
  <2>1. server.doc.version > 0
    BY <1>0, Known DEF Conduct, After
  <2> QED
    BY <1>0, <1>13, <1>20, <2>1, Known DEF Conduct, Busy, After
<1>3. Computed(server', disk'["dependency"], transaction', process', wire', callbacks')
  <2>1. Computed(server, disk["dependency"], transaction', process, wire, callbacks)
    BY <1>0, <1>21, Known, ComputedMoves DEF ServerTypes
  <2>2. OfWire(server, disk["dependency"], transaction', wire')
    BY <1>0, <1>9, <2>1, WireLess DEF Computed
  <2>3. OfClient(server, disk["dependency"], transaction', callbacks')
    BY <1>12
  <2> QED
    BY <1>0, <2>1, <2>2, <2>3 DEF Computed
<1>4. InTime(server', process')
  BY <1>0, Known
<1>5. ~manager'.closing => Asks(transaction', server', process'.inbox, wire')
  BY <1>0, AnsweredIs
<1>6. LspAnswer' /\ LspRef'
  BY <1>0, Known DEF LspAnswer, LspRef
<1> QED
  BY <1>1, <1>2, <1>3, <1>4, <1>5, <1>6 DEF LspInv

LEMMA PushAnsweredKeeps == ASSUME LspInv, Analysis!PushAnswered PROVE LspInv'
<1>0. /\ transaction.pc = "wait" /\ transaction' = [transaction EXCEPT !.pc = "label", !.set = callbacks.pushed, !.known = TRUE]
      /\ UNCHANGED <<disk, manager, server, process, wire, callbacks, answer>>
  BY DEF Analysis!PushAnswered, Analysis!world
<1>8. transaction \in Transactions /\ callbacks \in ClientType /\ server \in InstType
  BY <1>0, Known, IdleIs DEF Busy, After, ServerTypes
<1>19. transaction'.pc = "label" /\ transaction'.query = transaction.query
  BY <1>0, <1>8 DEF Transactions
<1>21. Moves(server, transaction, server, transaction')
  BY <1>0, <1>8, <1>19 DEF Moves, Resyncing, After, InstType
<1>12. /\ OfClient(server, disk["dependency"], transaction', callbacks) /\ callbacks.pushed \in SetType
       /\ Of(server, disk["dependency"], transaction', callbacks.pushed)
  <2>1. OfClient(server, disk["dependency"], transaction', callbacks)
    BY <1>8, <1>21, Known, ComputedMoves DEF Computed, ServerTypes
  <2> QED
    BY <1>8, <2>1, Known, SnapshotIs DEF OfClient, ClientType
<1>20. /\ transaction' \in Transactions /\ transaction'.pc = "label" /\ transaction'.scan = transaction.scan /\ transaction'.set = callbacks.pushed
  BY <1>0, <1>8, <1>12 DEF Transactions, Busy, After
<1>1. ServerTypes'
  BY <1>0, <1>20, Known DEF ServerTypes
<1>2. Instance(server', disk') /\ Conduct(server', disk', transaction')
  <2>1. server.doc.version > 0
    BY <1>0, Known DEF Conduct, After
  <2>2. Of(server, disk["dependency"], transaction', transaction'.set)
    BY <1>12, <1>20
  <2> QED
    BY <1>0, <1>20, <2>1, <2>2, Known DEF Conduct, Busy, After
<1>3. Computed(server', disk'["dependency"], transaction', process', wire', callbacks')
  BY <1>0, <1>21, Known, ComputedMoves DEF ServerTypes
<1>4. InTime(server', process')
  BY <1>0, Known
<1>5. ~manager'.closing => Asks(transaction', server', process'.inbox, wire')
  BY <1>0, Known, AsksNone
<1>6. LspAnswer' /\ LspRef'
  BY <1>0, Known DEF LspAnswer, LspRef
<1> QED
  BY <1>1, <1>2, <1>3, <1>4, <1>5, <1>6 DEF LspInv

LEMMA AskEndsKeeps == ASSUME LspInv, transaction.pc = "ask", NEW known \in BOOLEAN,
         transaction' = [transaction EXCEPT !.pc = "label", !.set = Analysis!Snapshot(callbacks), !.known = known],
         UNCHANGED <<disk, manager, server, process, wire, callbacks, answer>> PROVE LspInv'
<1>0. /\ transaction.pc = "ask" /\ known \in BOOLEAN
      /\ transaction' = [transaction EXCEPT !.pc = "label", !.set = Analysis!Snapshot(callbacks), !.known = known]
      /\ UNCHANGED <<disk, manager, server, process, wire, callbacks, answer>>
  OBVIOUS
<1>8. transaction \in Transactions /\ callbacks \in ClientType /\ server \in InstType
  BY <1>0, Known, IdleIs DEF Busy, After, ServerTypes
<1>19. transaction'.pc = "label" /\ transaction'.query = transaction.query
  BY <1>0, <1>8 DEF Transactions
<1>21. Moves(server, transaction, server, transaction')
  BY <1>0, <1>8, <1>19 DEF Moves, Resyncing, After, InstType
<1>12. /\ OfClient(server, disk["dependency"], transaction', callbacks) /\ Analysis!Snapshot(callbacks) \in SetType
       /\ Of(server, disk["dependency"], transaction', Analysis!Snapshot(callbacks))
  <2>1. OfClient(server, disk["dependency"], transaction', callbacks)
    BY <1>8, <1>21, Known, ComputedMoves DEF Computed, ServerTypes
  <2> QED
    BY <1>8, <2>1, Known, SnapshotIs DEF OfClient, ClientType
<1>20. /\ transaction' \in Transactions /\ transaction'.pc = "label" /\ transaction'.scan = transaction.scan /\ transaction'.set = Analysis!Snapshot(callbacks)
  BY <1>0, <1>8, <1>12 DEF Transactions, Busy, After
<1>1. ServerTypes'
  BY <1>0, <1>20, Known DEF ServerTypes
<1>2. Instance(server', disk') /\ Conduct(server', disk', transaction')
  <2>1. server.doc.version > 0
    BY <1>0, Known DEF Conduct, After
  <2>2. Of(server, disk["dependency"], transaction', transaction'.set)
    BY <1>12, <1>20
  <2> QED
    BY <1>0, <1>20, <2>1, <2>2, Known DEF Conduct, Busy, After
<1>3. Computed(server', disk'["dependency"], transaction', process', wire', callbacks')
  BY <1>0, <1>21, Known, ComputedMoves DEF ServerTypes
<1>4. InTime(server', process')
  BY <1>0, Known
<1>5. ~manager'.closing => Asks(transaction', server', process'.inbox, wire')
  BY <1>0, Known, AsksNone
<1>6. LspAnswer' /\ LspRef'
  BY <1>0, Known DEF LspAnswer, LspRef
<1> QED
  BY <1>1, <1>2, <1>3, <1>4, <1>5, <1>6 DEF LspInv

LEMMA WaitEndedKeeps == ASSUME LspInv, transaction.pc = "wait", NEW known \in BOOLEAN,
         transaction' = [transaction EXCEPT !.pc = "label", !.set = callbacks.pushed, !.known = known],
         UNCHANGED <<disk, manager, server, process, wire, callbacks, answer>> PROVE LspInv'
<1>0. /\ transaction.pc = "wait" /\ known \in BOOLEAN
      /\ transaction' = [transaction EXCEPT !.pc = "label", !.set = callbacks.pushed, !.known = known]
      /\ UNCHANGED <<disk, manager, server, process, wire, callbacks, answer>>
  OBVIOUS
<1>8. transaction \in Transactions /\ callbacks \in ClientType /\ server \in InstType
  BY <1>0, Known, IdleIs DEF Busy, After, ServerTypes
<1>19. transaction'.pc = "label" /\ transaction'.query = transaction.query
  BY <1>0, <1>8 DEF Transactions
<1>21. Moves(server, transaction, server, transaction')
  BY <1>0, <1>8, <1>19 DEF Moves, Resyncing, After, InstType
<1>12. /\ OfClient(server, disk["dependency"], transaction', callbacks) /\ callbacks.pushed \in SetType
       /\ Of(server, disk["dependency"], transaction', callbacks.pushed)
  <2>1. OfClient(server, disk["dependency"], transaction', callbacks)
    BY <1>8, <1>21, Known, ComputedMoves DEF Computed, ServerTypes
  <2> QED
    BY <1>8, <2>1, Known, SnapshotIs DEF OfClient, ClientType
<1>20. /\ transaction' \in Transactions /\ transaction'.pc = "label" /\ transaction'.scan = transaction.scan /\ transaction'.set = callbacks.pushed
  BY <1>0, <1>8, <1>12 DEF Transactions, Busy, After
<1>1. ServerTypes'
  BY <1>0, <1>20, Known DEF ServerTypes
<1>2. Instance(server', disk') /\ Conduct(server', disk', transaction')
  <2>1. server.doc.version > 0
    BY <1>0, Known DEF Conduct, After
  <2>2. Of(server, disk["dependency"], transaction', transaction'.set)
    BY <1>12, <1>20
  <2> QED
    BY <1>0, <1>20, <2>1, <2>2, Known DEF Conduct, Busy, After
<1>3. Computed(server', disk'["dependency"], transaction', process', wire', callbacks')
  BY <1>0, <1>21, Known, ComputedMoves DEF ServerTypes
<1>4. InTime(server', process')
  BY <1>0, Known
<1>5. ~manager'.closing => Asks(transaction', server', process'.inbox, wire')
  BY <1>0, Known, AsksNone
<1>6. LspAnswer' /\ LspRef'
  BY <1>0, Known DEF LspAnswer, LspRef
<1> QED
  BY <1>1, <1>2, <1>3, <1>4, <1>5, <1>6 DEF LspInv

LEMMA WaitEndsKeeps == ASSUME LspInv, Analysis!WaitEnds PROVE LspInv'
<1> DEFINE known == transaction.pc = "wait" /\ callbacks.pushed # Analysis!NoSet
<1>1. /\ transaction.pc \in {"ask", "wait"} /\ known \in BOOLEAN
      /\ transaction' = [transaction EXCEPT !.pc = "label", !.set = IF transaction.pc = "ask" THEN Analysis!Snapshot(callbacks) ELSE callbacks.pushed,
                       !.known = known]
      /\ UNCHANGED <<disk, manager, server, process, wire, callbacks, answer>>
  BY DEF Analysis!WaitEnds, Analysis!world
<1> HIDE DEF known
<1>2. CASE transaction.pc = "ask"
  BY <1>1, <1>2, AskEndsKeeps
<1>3. CASE transaction.pc = "wait"
  BY <1>1, <1>3, WaitEndedKeeps
<1> QED
  BY <1>1, <1>2, <1>3

\* A request that is answered, or ends with its server, or that never got through: the transaction
\* asks again, or waits for what is published, or ends.
LEMMA TurnKeeps == ASSUME LspInv, transaction.pc \in {"ask", "asked"},
         transaction' = Analysis!Idle \/ transaction' = Analysis!Goto("wait") \/ transaction' = Analysis!Goto("ask"),
         \/ UNCHANGED <<process, wire>> /\ transaction.pc # "asked"
         \/ process' = Analysis!Down /\ wire' = <<>>
         \/ ~manager.closing /\ Analysis!Answered /\ wire' = Tail(wire) /\ process' = process,
         UNCHANGED <<disk, manager, server, callbacks, answer>> PROVE LspInv'
<1>0. /\ transaction.pc \in {"ask", "asked"} /\ (transaction' = Analysis!Idle \/ transaction' = Analysis!Goto("wait") \/ transaction' = Analysis!Goto("ask"))
      /\ \/ UNCHANGED <<process, wire>> /\ transaction.pc # "asked"
         \/ process' = Analysis!Down /\ wire' = <<>>
         \/ ~manager.closing /\ Analysis!Answered /\ wire' = Tail(wire) /\ process' = process
      /\ UNCHANGED <<disk, manager, server, callbacks, answer>>
  OBVIOUS
<1>8. transaction \in Transactions /\ callbacks \in ClientType /\ server \in InstType
  BY <1>0, Known, IdleIs DEF Busy, After, ServerTypes
<1>9. \/ transaction' = Analysis!Idle /\ transaction'.pc = "idle"
      \/ /\ transaction' \in Transactions /\ transaction'.pc \in {"wait", "ask"} /\ transaction'.query = transaction.query
         /\ transaction'.scan = transaction.scan /\ transaction'.set = transaction.set
  BY <1>0, <1>8, GotoIs DEF Analysis!Idle, Busy, After
<1>21. Moves(server, transaction, server, transaction')
  BY <1>0, <1>8, <1>9 DEF Moves, Resyncing, After, InstType
<1>2. Instance(server', disk') /\ Conduct(server', disk', transaction')
  <2>1. CASE transaction'.pc = "idle"
    BY <1>0, <2>1, Known DEF Conduct, Busy, After
  <2>2. CASE transaction'.pc # "idle"
    <3>1. Of(server, disk["dependency"], transaction', transaction'.set)
      BY <1>0, <1>8, <1>9, <1>21, <2>2, Known, SetMoves DEF Busy, After
    <3> QED
      BY <1>0, <1>9, <2>2, <3>1, Known DEF Conduct, Busy, After
  <2> QED
    BY <2>1, <2>2
<1>10. Computed(server, disk["dependency"], transaction', process, wire, callbacks)
  BY <1>8, <1>21, Known, ComputedMoves DEF ServerTypes
<1>12. /\ Computed(server, disk["dependency"], transaction', Analysis!Down, <<>>, callbacks) /\ InTime(server, Analysis!Down)
       /\ Asks(transaction', server, Analysis!Down.inbox, <<>>) /\ Analysis!Down \in ServerType /\ <<>> \in Seq(ReportType)
  <2>1. OfClient(server, disk["dependency"], transaction', callbacks)
    BY <1>10 DEF Computed
  <2> QED
    BY <1>8, <2>1, Known, DownIs, EmptyIs
<1>13. ~manager.closing /\ Analysis!Answered =>
         /\ Tail(wire) \in Seq(ReportType) /\ Asks(transaction', server, process.inbox, Tail(wire))
         /\ Computed(server, disk["dependency"], transaction', process, Tail(wire), callbacks)
  <2> SUFFICES ASSUME ~manager.closing, Analysis!Answered
               PROVE  /\ Tail(wire) \in Seq(ReportType) /\ Asks(transaction', server, process.inbox, Tail(wire))
                      /\ Computed(server, disk["dependency"], transaction', process, Tail(wire), callbacks)
    OBVIOUS
  <2>1. wire # <<>> /\ wire \in Seq(ReportType) /\ Asks(transaction', server, process.inbox, Tail(wire))
    BY AnsweredIs
  <2> QED
    BY <1>10, <2>1, Taken, WireLess DEF Computed
<1>1. ServerTypes'
  BY <1>0, <1>9, <1>12, <1>13, Known DEF ServerTypes
<1>3. Computed(server', disk'["dependency"], transaction', process', wire', callbacks')
  BY <1>0, <1>10, <1>12, <1>13
<1>4. InTime(server', process')
  BY <1>0, <1>12, Known
<1>5. ~manager'.closing => Asks(transaction', server', process'.inbox, wire')
  <2>1. ~manager.closing /\ transaction.pc # "asked" => Asks(transaction', server, process.inbox, wire)
    BY Known, AsksNone
  <2> QED
    BY <1>0, <1>12, <1>13, <2>1
<1>6. LspAnswer' /\ LspRef'
  BY <1>0, Known DEF LspAnswer, LspRef
<1> QED
  BY <1>1, <1>2, <1>3, <1>4, <1>5, <1>6 DEF LspInv

LEMMA PullFailsKeeps == ASSUME LspInv, ~manager.closing, Analysis!PullFails PROVE LspInv'
  BY TurnKeeps DEF Analysis!PullFails, Analysis!world

LEMMA AskFailsKeeps == ASSUME LspInv, Analysis!AskFails PROVE LspInv'
  BY TurnKeeps DEF Analysis!AskFails, Analysis!world

LEMMA NavigateUnansweredKeeps == ASSUME LspInv, ~manager.closing, Analysis!NavigateUnanswered PROVE LspInv'
<1>1. Analysis!Answered /\ transaction.pc = "asked"
  BY DEF Analysis!NavigateUnanswered, Analysis!Answered
<1> QED
  BY <1>1, TurnKeeps DEF Analysis!NavigateUnanswered, Analysis!world

LEMMA NavigateFailsKeeps == ASSUME LspInv, Analysis!NavigateFails PROVE LspInv'
  BY TurnKeeps DEF Analysis!NavigateFails, Analysis!world

\* The first message is gone.
LEMMA SentLess ==
  ASSUME NEW i, NEW t, NEW b \in Seq(MessageType), b # <<>>, NEW s, NEW r, Sent(i, t, b, s),
         Caught(i, r) \/ (b[1].kind # "watched" /\ r = s)
  PROVE  Sent(i, t, Tail(b), r)
<1>1. /\ Len(Tail(b)) = Len(b) - 1 /\ Len(b) \in Nat /\ Len(b) >= 1
      /\ \A k \in 1..Len(Tail(b)) : k + 1 \in 1..Len(b) /\ Tail(b)[k] = b[k + 1]
  BY Taken
<1>2. ASSUME NEW k \in 1..Len(Tail(b)), Tail(b)[k].kind = "sync"
      PROVE  /\ Tail(b)[k].version <= i.next /\ Tail(b)[k].version > 0
             /\ Tail(b)[k].version = i.doc.version =>
                  /\ Tail(b)[k].text = i.doc.text
                  /\ Resyncing(t) =>
                       Caught(i, r) \/ \E l \in 1..(k - 1) : Tail(b)[l].kind = "watched"
  <2>1. k \in Nat /\ k + 1 \in 1..Len(b) /\ b[k + 1].kind = "sync" /\ (k + 1) - 1 = k
    BY <1>1, <1>2
  <2>2. /\ b[k + 1].version <= i.next /\ b[k + 1].version > 0
        /\ b[k + 1].version = i.doc.version =>
             /\ b[k + 1].text = i.doc.text
             /\ Resyncing(t) => Caught(i, s) \/ \E l \in 1..k : b[l].kind = "watched"
    BY <2>1 DEF Sent
  <2>3. ASSUME b[1].kind # "watched", NEW l \in 1..k, b[l].kind = "watched"
        PROVE  \E h \in 1..(k - 1) : Tail(b)[h].kind = "watched"
    <3>1. l # 1
      BY <2>3
    <3>2. l - 1 \in 1..(k - 1) /\ l - 1 \in 1..Len(Tail(b)) /\ (l - 1) + 1 = l
      BY <1>1, <2>1, <3>1
    <3> QED
      BY <1>1, <2>3, <3>2
  <2> QED
    BY <1>1, <1>2, <2>2, <2>3
<1> QED
  BY <1>2 DEF Sent

LEMMA LastSentLess ==
  ASSUME NEW i, NEW b \in Seq(MessageType), b # <<>>, NEW v, NEW z, LastSent(i, b, v),
         b[1].kind = "sync" => z = b[1].version, b[1].kind # "sync" => z = v
  PROVE  LastSent(i, Tail(b), z)
<1>1. /\ Len(Tail(b)) = Len(b) - 1 /\ Len(b) \in Nat /\ Len(b) >= 1 /\ 1 \in 1..Len(b)
      /\ \A k \in 1..Len(Tail(b)) : k + 1 \in 1..Len(b) /\ Tail(b)[k] = b[k + 1]
  BY Taken
<1>2. ASSUME NEW k \in 1..Len(Tail(b)), Tail(b)[k].kind = "sync",
             \A l \in (k + 1)..Len(Tail(b)) : Tail(b)[l].kind # "sync"
      PROVE  Tail(b)[k].version = i.doc.version
  <2>1. ASSUME NEW l \in ((k + 1) + 1)..Len(b) PROVE b[l].kind # "sync"
    <3>1. /\ l - 1 \in (k + 1)..Len(Tail(b)) /\ l - 1 \in 1..Len(Tail(b)) /\ (l - 1) + 1 = l
      BY <1>1
    <3>2. Tail(b)[l - 1].kind # "sync" /\ Tail(b)[l - 1] = b[(l - 1) + 1]
      BY <1>1, <1>2, <3>1
    <3> QED
      BY <3>1, <3>2
  <2>2. k + 1 \in 1..Len(b) /\ b[k + 1].kind = "sync" /\ Tail(b)[k] = b[k + 1]
    BY <1>1, <1>2
  <2> QED
    BY <2>1, <2>2 DEF LastSent
<1>3. ASSUME \A k \in 1..Len(Tail(b)) : Tail(b)[k].kind # "sync" PROVE z = i.doc.version
  <2>1. ASSUME NEW l \in (1 + 1)..Len(b) PROVE b[l].kind # "sync"
    <3>1. l - 1 \in 1..Len(Tail(b)) /\ (l - 1) + 1 = l
      BY <1>1
    <3>2. Tail(b)[l - 1].kind # "sync" /\ Tail(b)[l - 1] = b[(l - 1) + 1]
      BY <1>1, <1>3, <3>1
    <3> QED
      BY <3>1, <3>2
  <2>2. CASE b[1].kind = "sync"
    BY <1>1, <2>1, <2>2 DEF LastSent
  <2>3. CASE b[1].kind # "sync"
    <3>1. \A k \in 1..Len(b) : k = 1 \/ k \in (1 + 1)..Len(b)
      BY <1>1
    <3> QED
      BY <2>1, <2>3, <3>1 DEF LastSent
  <2> QED
    BY <2>2, <2>3
<1> QED
  BY <1>2, <1>3 DEF LastSent

LEMMA ToldLess ==
  ASSUME NEW i, NEW b \in Seq(MessageType), b # <<>>, NEW s, NEW r, Told(i, b, s),
         Caught(i, r) \/ (b[1].kind # "watched" /\ r = s)
  PROVE  Told(i, Tail(b), r)
<1>1. CASE Caught(i, r)
  BY <1>1 DEF Told
<1>2. CASE ~Caught(i, r)
  <2>1. PICK l \in 1..Len(b) : b[l].kind = "watched"
    BY <1>2 DEF Told
  <2>2. l # 1
    BY <1>2, <2>1
  <2>3. l - 1 \in 1..Len(Tail(b)) /\ Tail(b)[l - 1] = b[(l - 1) + 1] /\ (l - 1) + 1 = l
    BY <2>2, Taken
  <2> QED
    BY <2>1, <2>3 DEF Told
<1> QED
  BY <1>1, <1>2

LEMMA WireMore ==
  ASSUME NEW i, NEW d, NEW t, NEW w \in Seq(ReportType), NEW r \in ReportType,
         OfWire(i, d, t, w), Of(i, d, t, r)
  PROVE  OfWire(i, d, t, Append(w, r))
<1>1. /\ Len(Append(w, r)) = Len(w) + 1 /\ \A k \in 1..Len(w) : Append(w, r)[k] = w[k]
      /\ Append(w, r)[Len(w) + 1] = r /\ \A k \in 1..(Len(w) + 1) : k \in 1..Len(w) \/ k = Len(w) + 1
  BY Queued
<1> QED
  BY <1>1 DEF OfWire

LEMMA AsksLess ==
  ASSUME NEW i, NEW t, NEW b \in Seq(MessageType), b # <<>>, NEW w \in Seq(ReportType),
         NEW r \in ReportType, Asks(t, i, b, w)
  PROVE  /\ Asks(t, i, Tail(b), w)
         /\ r.kind # "report" => Asks(t, i, Tail(b), Append(w, r))
         /\ b[1].kind = "ask" /\ r.version = i.doc.version /\ Caught(i, r.seen)
              => Asks(t, i, Tail(b), Append(w, r))
<1> DEFINE y == Append(w, r)
<1>1. /\ Len(Tail(b)) = Len(b) - 1 /\ Len(b) \in Nat /\ Len(b) >= 1 /\ 1 \in 1..Len(b)
      /\ \A k \in 1..Len(Tail(b)) : k + 1 \in 1..Len(b) /\ Tail(b)[k] = b[k + 1]
  BY Taken
<1>2. /\ Len(y) = Len(w) + 1 /\ Len(w) \in Nat /\ \A k \in 1..Len(w) : y[k] = w[k]
      /\ y[Len(w) + 1] = r /\ \A k \in 1..Len(y) : k \in 1..Len(w) \/ k = Len(w) + 1
  BY Queued
<1> HIDE DEF y
<1>3. \A k \in 1..Len(Tail(b)) : Tail(b)[k].kind = "ask" =>
        t.pc = "asked" /\ k = Len(Tail(b)) /\ \A l \in 1..Len(w) : w[l].kind # "report"
  <2>1. SUFFICES ASSUME NEW k \in 1..Len(Tail(b)), Tail(b)[k].kind = "ask"
        PROVE  t.pc = "asked" /\ k = Len(Tail(b)) /\ \A l \in 1..Len(w) : w[l].kind # "report"
    OBVIOUS
  <2>2. k + 1 \in 1..Len(b) /\ b[k + 1].kind = "ask" /\ (k + 1 = Len(b) => k = Len(Tail(b)))
    <3>1. k + 1 \in 1..Len(b) /\ Tail(b)[k] = b[k + 1]
      BY <1>1
    <3>2. b[k + 1].kind = "ask"
      BY <2>1, <3>1
    <3>3. ASSUME k + 1 = Len(b) PROVE k = Len(Tail(b))
      <4>1. k = Len(b) - 1
        BY <3>3
      <4> QED
        BY <1>1, <4>1
    <3> QED
      BY <3>1, <3>2, <3>3
  <2> QED
    BY <2>2 DEF Asks
<1>4. Asks(t, i, Tail(b), w)
  BY <1>3 DEF Asks
<1>5. ASSUME r.kind # "report" PROVE Asks(t, i, Tail(b), y)
  <2>1. \A k \in 1..Len(Tail(b)) : Tail(b)[k].kind = "ask" =>
          t.pc = "asked" /\ k = Len(Tail(b)) /\ \A l \in 1..Len(y) : y[l].kind # "report"
    BY <1>2, <1>3, <1>5
  <2>2. \A k \in 1..Len(y) : y[k].kind = "report" => k \in 1..Len(w) /\ y[k] = w[k]
    BY <1>2, <1>5
  <2>3. \A k \in 1..Len(y) : y[k].kind = "report" =>
          /\ t.pc = "asked" /\ y[k].version = i.doc.version /\ Caught(i, y[k].seen)
          /\ \A l \in 1..Len(y) : y[l].kind = "report" => l = k
    BY <2>2 DEF Asks
  <2> QED
    BY <2>1, <2>3 DEF Asks
<1>6. ASSUME b[1].kind = "ask", r.version = i.doc.version, Caught(i, r.seen)
      PROVE  Asks(t, i, Tail(b), y)
  <2>1. t.pc = "asked" /\ Len(b) = 1 /\ \A l \in 1..Len(w) : w[l].kind # "report"
    BY <1>1, <1>6 DEF Asks
  <2>2. \A k \in 1..Len(y) : y[k].kind = "report" => k = Len(w) + 1 /\ y[k] = r
    BY <1>2, <2>1
  <2>3. \A k \in 1..Len(Tail(b)) : FALSE
    BY <1>1, <2>1
  <2> QED
    BY <1>6, <2>1, <2>2, <2>3 DEF Asks
<1> QED
  BY <1>4, <1>5, <1>6 DEF y

LEMMA ServerHandlesKeeps == ASSUME LspInv, Analysis!ServerHandles PROVE LspInv'
<1> DEFINE msg == Head(process.inbox)
           s == [process EXCEPT !.inbox = Tail(@)]
           told == IF msg.kind = "sync" THEN [s EXCEPT !.version = msg.version, !.text = msg.text]
                   ELSE IF msg.kind = "watched" THEN [s EXCEPT !.seen = disk["dependency"]]
                   ELSE s
           r == Analysis!Report(process', IF msg.kind = "ask" THEN "report" ELSE "publish")
<1>0. /\ process.up /\ process.inbox # <<>> /\ ~manager.closing /\ process' = told
      /\ wire' = IF msg.kind = "ask" THEN Append(wire, Analysis!Report(told, "report"))
                 ELSE IF told.version = 0 THEN wire ELSE Append(wire, Analysis!Report(told, "publish"))
      /\ UNCHANGED <<disk, manager, server, callbacks, transaction, answer>>
  BY DEF Analysis!ServerHandles, Analysis!world
<1>8. /\ process \in ServerType /\ process.inbox \in Seq(MessageType) /\ process.inbox # <<>>
      /\ msg = process.inbox[1] /\ msg \in MessageType /\ Tail(process.inbox) \in Seq(MessageType)
      /\ 1 \in 1..Len(process.inbox) /\ 1 - 1 = 0 /\ msg.kind \in {"sync", "watched", "ask"}
  <2>1. process \in ServerType /\ process.inbox \in Seq(MessageType)
    BY Known DEF ServerTypes, ServerType
  <2>2. msg \in MessageType
    BY <1>0, <2>1, Taken
  <2> QED
    BY <1>0, <2>1, <2>2, Taken DEF MessageType
<1>9. /\ process' \in ServerType /\ process'.up /\ process'.inbox = Tail(process.inbox)
      /\ msg.kind = "sync" => /\ process'.version = msg.version /\ process'.text = msg.text
                              /\ process'.seen = process.seen
      /\ msg.kind # "sync" => process'.version = process.version /\ process'.text = process.text
      /\ msg.kind = "watched" => process'.seen = disk["dependency"]
      /\ msg.kind # "watched" => process'.seen = process.seen
  <2>1. s \in ServerType /\ s.up /\ s.inbox = Tail(process.inbox) /\ s.version = process.version
        /\ s.text = process.text /\ s.seen = process.seen
    BY <1>0, <1>8 DEF ServerType
  <2>2. msg.kind = "sync" => msg.version \in Nat /\ msg.text \in Nat
    BY <1>8 DEF MessageType
  <2> HIDE DEF s, msg
  <2>3. CASE msg.kind = "sync"
    BY <1>0, <2>1, <2>2, <2>3 DEF ServerType
  <2>4. CASE msg.kind = "watched"
    BY <1>0, <2>1, <2>4, Known DEF ServerType
  <2>5. CASE msg.kind = "ask"
    BY <1>0, <2>1, <2>5
  <2> QED
    BY <1>8, <2>3, <2>4, <2>5
<1> HIDE DEF msg
<1>12. /\ r \in ReportType /\ r.kind = (IF msg.kind = "ask" THEN "report" ELSE "publish")
       /\ r.version = process'.version /\ r.text = process'.text /\ r.seen = process'.seen
       /\ wire' \in {wire, Append(wire, r)} /\ (msg.kind = "ask" => wire' = Append(wire, r))
  <2>1. process'.version \in Nat /\ process'.text \in Nat /\ process'.seen \in Nat
    BY <1>9 DEF ServerType
  <2>2. wire' \in {wire, Append(wire, r)} /\ (msg.kind = "ask" => wire' = Append(wire, r))
    BY <1>0
  <2> QED
    BY <2>1, <2>2 DEF Analysis!Report, ReportType
<1> HIDE DEF s, told, r
<1>11. Caught(server, process'.seen) \/ (process.inbox[1].kind # "watched" /\ process'.seen = process.seen)
  <2>1. CASE msg.kind = "watched"
    <3>1. server.files # Analysis!Unscanned => server.files["dependency"] <= disk["dependency"]
      BY Known DEF Instance
    <3>2. server.files # Analysis!Unscanned => server.files["dependency"] \in Nat
      BY Known DEF ServerTypes, InstType, ScanType
    <3> QED
      BY <1>9, <2>1, <3>1, <3>2, Known DEF Caught
  <2>2. CASE msg.kind # "watched"
    BY <1>8, <1>9, <2>2
  <2> QED
    BY <2>1, <2>2
<1>10. Of(server, disk["dependency"], transaction, process')
  <2>1. Of(server, disk["dependency"], transaction, process) /\ Sent(server, transaction, process.inbox, process.seen)
    BY Known DEF Computed
  <2>2. CASE msg.kind = "sync"
    <3>1. \A l \in 1..(1 - 1) : FALSE
      OBVIOUS
    <3>2. /\ msg.version <= server.next
          /\ msg.version = server.doc.version =>
               msg.text = server.doc.text /\ (Resyncing(transaction) => Caught(server, process.seen))
      BY <1>8, <2>1, <2>2, <3>1 DEF Sent
    <3> QED
      BY <1>9, <2>1, <2>2, <3>2 DEF Of, Belongs
  <2>3. CASE msg.kind = "watched"
    BY <1>8, <1>9, <1>11, <2>1, <2>3, Known DEF Of, Belongs
  <2>4. CASE msg.kind = "ask"
    BY <1>9, <2>1, <2>4 DEF Of, Belongs
  <2> QED
    BY <1>8, <2>2, <2>3, <2>4
<1>1. ServerTypes'
  <2>1. wire' \in Seq(ReportType)
    BY <1>12, Queued, Known DEF ServerTypes
  <2> QED
    BY <1>0, <1>9, <2>1, Known DEF ServerTypes
<1>2. Instance(server', disk') /\ Conduct(server', disk', transaction')
  BY <1>0, Known
<1>3. Computed(server', disk'["dependency"], transaction', process', wire', callbacks')
  <2>1. OfWire(server, disk["dependency"], transaction, wire')
    <3>1. Of(server, disk["dependency"], transaction, r)
      BY <1>10, <1>12 DEF Of
    <3> QED
      BY <1>12, <3>1, WireMore, Known DEF Computed, ServerTypes
  <2>2. Sent(server, transaction, process'.inbox, process'.seen)
    BY <1>8, <1>9, <1>11, SentLess, Known DEF Computed
  <2> QED
    BY <1>0, <1>10, <2>1, <2>2, Known DEF Computed
<1>4. InTime(server', process')
  <2>1. LastSent(server, process.inbox, process.version) /\ Told(server, process.inbox, process.seen)
    BY <1>0, Known DEF InTime
  <2>2. LastSent(server, process'.inbox, process'.version)
    BY <1>8, <1>9, <2>1, LastSentLess
  <2>3. Told(server, process'.inbox, process'.seen)
    BY <1>8, <1>9, <1>11, <2>1, ToldLess
  <2> QED
    BY <1>0, <2>2, <2>3 DEF InTime
<1>5. ~manager'.closing => Asks(transaction', server', process'.inbox, wire')
  <2>1. Asks(transaction, server, process.inbox, wire)
    BY <1>0, Known
  <2>2. CASE msg.kind # "ask"
    BY <1>0, <1>8, <1>9, <1>12, <2>1, <2>2, AsksLess, Known DEF ServerTypes
  <2>3. CASE msg.kind = "ask"
    <3>1. 1 = Len(process.inbox)
      BY <1>8, <2>1, <2>3 DEF Asks
    <3>2. \A k \in 1..Len(process.inbox) : process.inbox[k].kind = "ask"
      BY <1>8, <2>3, <3>1
    <3>3. LastSent(server, process.inbox, process.version) /\ Told(server, process.inbox, process.seen)
      BY <1>0, Known DEF InTime
    <3>4. r.version = server.doc.version /\ Caught(server, r.seen)
      BY <1>9, <1>12, <2>3, <3>2, <3>3 DEF LastSent, Told
    <3> QED
      BY <1>0, <1>8, <1>9, <1>12, <2>1, <2>3, <3>4, AsksLess, Known DEF ServerTypes
  <2> QED
    BY <2>2, <2>3
<1>6. LspAnswer' /\ LspRef'
  BY <1>0, Known DEF LspAnswer, LspRef
<1> QED
  BY <1>1, <1>2, <1>3, <1>4, <1>5, <1>6 DEF LspInv

LEMMA LabelKeeps == ASSUME LspInv, Analysis!Label PROVE LspInv'
<1> DEFINE f == IF ~(transaction.known /\ process.up /\ transaction.set.version > 0) THEN "unknown"
                 ELSE IF Analysis!IsCurrent(transaction.set) /\ disk["document"] = server.doc.text
                 THEN "synchronized" ELSE "stale"
<1>0. /\ transaction.pc = "label" /\ transaction' = [transaction EXCEPT !.pc = "recheck", !.epoch = callbacks.epoch, !.fresh = f]
      /\ UNCHANGED <<disk, manager, server, process, wire, callbacks, answer>>
  BY DEF Analysis!Label, Analysis!world
<1>20. /\ transaction' \in Transactions /\ transaction'.pc = "recheck" /\ transaction'.query = transaction.query /\ transaction'.scan = transaction.scan
       /\ transaction'.set = transaction.set /\ transaction'.fresh = f
  <2>1. transaction \in Transactions /\ callbacks.epoch \in Nat /\ f \in Fresh
    BY <1>0, Known, IdleIs DEF Busy, After, ServerTypes, ClientType, Fresh
  <2> HIDE DEF f
  <2> QED
    BY <1>0, <2>1 DEF Transactions, Busy, After
<1>21. Moves(server, transaction, server, transaction')
  BY <1>0, <1>20, Known DEF Moves, Resyncing, After, ServerTypes, InstType
<1>1. ServerTypes'
  BY <1>0, <1>20, Known DEF ServerTypes
<1>2. Instance(server', disk') /\ Conduct(server', disk', transaction')
  <2>1. server.doc.version > 0 /\ server.client /\ transaction.scan = server.files /\ transaction.scan # Analysis!Unscanned
    BY <1>0, Known DEF Conduct, After
  <2>2. Of(server, disk["dependency"], transaction', transaction'.set)
    BY <1>0, <1>20, <1>21, Known, SetMoves DEF Busy, After, ServerTypes
  <2>3. transaction'.fresh = "synchronized" => transaction.set.version > 0 /\ transaction.set.version = server.doc.version
    BY <1>20 DEF Analysis!IsCurrent
  <2> QED
    BY <1>0, <1>20, <2>1, <2>2, <2>3, Known DEF Conduct, Busy, After
<1>3. Computed(server', disk'["dependency"], transaction', process', wire', callbacks')
  BY <1>0, <1>21, Known, ComputedMoves DEF ServerTypes
<1>4. InTime(server', process')
  BY <1>0, Known
<1>5. ~manager'.closing => Asks(transaction', server', process'.inbox, wire')
  BY <1>0, Known, AsksNone
<1>6. LspAnswer' /\ LspRef'
  BY <1>0, Known DEF LspAnswer, LspRef
<1> QED
  BY <1>1, <1>2, <1>3, <1>4, <1>5, <1>6 DEF LspInv

LEMMA RecheckKeeps == ASSUME LspInv, Analysis!Recheck PROVE LspInv'
<1> DEFINE same == disk["document"] = server.doc.text /\ transaction.epoch = manager.epoch
<1>0. /\ transaction.pc = "recheck" /\ transaction' = Analysis!Idle
      /\ answer' = [fresh |-> IF same THEN transaction.fresh ELSE "stale", text |-> transaction.set.text,
                    seen |-> transaction.set.seen, now |-> disk["document"],
                    scanned |-> transaction.scan["dependency"], untold |-> server.untold,
                    resync |-> transaction.query.resync]
      /\ UNCHANGED <<disk, manager, server, process, wire, callbacks>>
  BY DEF Analysis!Recheck, Analysis!world
<1>20. transaction'.pc = "idle" /\ transaction' = Analysis!Idle /\ ~Resyncing(transaction')
  BY <1>0 DEF Analysis!Idle, Resyncing, After
<1>21. Moves(server, transaction, server, transaction')
  BY <1>20, Known DEF Moves, ServerTypes, InstType
<1>22. Conduct(server, disk, transaction')
  BY <1>20 DEF Conduct, Busy, After
<1>1. ServerTypes'
  BY <1>0, <1>20, Known DEF ServerTypes
<1>2. Instance(server', disk') /\ Conduct(server', disk', transaction')
  BY <1>0, <1>22, Known
<1>3. Computed(server', disk'["dependency"], transaction', process', wire', callbacks')
  BY <1>0, <1>21, Known, ComputedMoves DEF ServerTypes
<1>4. InTime(server', process')
  BY <1>0, Known
<1>5. ~manager'.closing => Asks(transaction', server', process'.inbox, wire')
  BY <1>0, Known, AsksNone
<1>6. LspAnswer' /\ LspRef'
  <2>1. LspRef'
    BY <1>0, Known DEF LspRef
  <2>2. ASSUME answer'.fresh = "synchronized"
        PROVE  /\ answer'.text = answer'.now
               /\ answer'.resync /\ answer'.scanned # answer'.untold => answer'.seen >= answer'.scanned
    <3>1. /\ same /\ transaction.fresh = "synchronized" /\ answer'.text = transaction.set.text
          /\ answer'.now = disk["document"] /\ answer'.seen = transaction.set.seen
          /\ answer'.scanned = transaction.scan["dependency"] /\ answer'.untold = server.untold
          /\ answer'.resync = transaction.query.resync
      BY <1>0, <2>2
    <3>2. /\ transaction.set.version > 0 /\ transaction.set.version = server.doc.version
          /\ transaction.scan = server.files /\ transaction.scan # Analysis!Unscanned /\ Of(server, disk["dependency"], transaction, transaction.set)
      BY <1>0, <3>1, Known DEF Conduct, Busy, After
    <3>3. transaction.set.version \in Nat
      BY <1>0, Known, IdleIs DEF Busy, After, Transactions, SetType
    <3>4. transaction.set.text = server.doc.text /\ (Resyncing(transaction) => Caught(server, transaction.set.seen))
      BY <3>2, <3>3 DEF Of, Belongs
    <3>5. transaction.query.resync => Resyncing(transaction)
      BY <1>0 DEF Resyncing, After
    <3> QED
      BY <3>1, <3>2, <3>4, <3>5 DEF Caught
  <2> QED
    BY <2>1, <2>2 DEF LspAnswer
<1> QED
  BY <1>1, <1>2, <1>3, <1>4, <1>5, <1>6 DEF LspInv

LEMMA NavigateAnsweredKeeps == ASSUME LspInv, ~manager.closing, Analysis!NavigateAnswered PROVE LspInv'
<1>0. /\ Analysis!Answered /\ transaction.pc = "asked" /\ wire' = Tail(wire) /\ transaction' = Analysis!Idle
      /\ manager' = [manager EXCEPT !.ref = IF Analysis!Locate(Head(wire)) = Analysis!NoRef THEN @ ELSE Analysis!Locate(Head(wire))]
      /\ UNCHANGED <<disk, server, process, callbacks, answer>>
  BY DEF Analysis!NavigateAnswered, Analysis!Answered, Analysis!world
<1>9. wire # <<>> /\ wire \in Seq(ReportType) /\ Head(wire) \in ReportType
  BY <1>0, AnsweredIs
<1>20. transaction'.pc = "idle" /\ transaction' = Analysis!Idle /\ ~Resyncing(transaction')
  BY <1>0 DEF Analysis!Idle, Resyncing, After
<1>21. Moves(server, transaction, server, transaction')
  BY <1>20, Known DEF Moves, ServerTypes, InstType
<1>22. Conduct(server, disk, transaction')
  BY <1>20 DEF Conduct, Busy, After
<1> DEFINE z == Analysis!Locate(Head(wire))
<1>11. z # Analysis!NoRef => z \in RefType /\ (z.text # z.untold => z.seen = z.text)
  <2>1. SUFFICES ASSUME z # Analysis!NoRef PROVE z \in RefType /\ (z.text # z.untold => z.seen = z.text)
    OBVIOUS
  <2>2. /\ disk["dependency"] = transaction.scan["dependency"]
        /\ z = [text |-> disk["dependency"], seen |-> Head(wire).seen,
                generation |-> server.generation, untold |-> server.untold]
    BY <2>1 DEF Analysis!Locate
  <2>3. /\ Head(wire).seen \in Nat /\ server.generation \in Nat /\ server.untold \in Nat
        /\ disk["dependency"] \in Nat
    BY <1>9, Known DEF ReportType, ServerTypes, InstType
  <2>4. transaction.scan = server.files /\ transaction.scan # Analysis!Unscanned
    BY <1>0, Known DEF Conduct, After
  <2>5. Caught(server, Head(wire).seen) /\ Head(wire).seen <= disk["dependency"]
    BY <1>0, AnsweredIs DEF Of, Belongs
  <2>6. server.untold # disk["dependency"] => Head(wire).seen = disk["dependency"]
    BY <2>2, <2>3, <2>4, <2>5 DEF Caught
  <2> QED
    BY <2>2, <2>3, <2>6 DEF RefType
<1>10. /\ manager' \in ManagerType /\ manager'.closing = manager.closing
       /\ (manager'.ref.text # manager'.ref.untold => manager'.ref.seen = manager'.ref.text)
  <2> DEFINE y == IF z = Analysis!NoRef THEN manager.ref ELSE z
  <2>1. manager \in ManagerType /\ (manager.ref.text # manager.ref.untold => manager.ref.seen = manager.ref.text)
    BY Known DEF ServerTypes, LspRef
  <2>2. y \in RefType /\ (y.text # y.untold => y.seen = y.text) /\ manager' = [manager EXCEPT !.ref = y]
    BY <1>0, <1>11, <2>1 DEF ManagerType
  <2> HIDE DEF y, z
  <2> QED
    BY <2>1, <2>2 DEF ManagerType
<1>1. ServerTypes'
  BY <1>0, <1>9, <1>20, <1>10, Taken, Known DEF ServerTypes
<1>2. Instance(server', disk') /\ Conduct(server', disk', transaction')
  BY <1>0, <1>22, Known
<1>3. Computed(server', disk'["dependency"], transaction', process', wire', callbacks')
  <2>1. Computed(server, disk["dependency"], transaction', process, wire, callbacks)
    BY <1>21, Known, ComputedMoves DEF ServerTypes
  <2> QED
    BY <1>0, <1>9, <2>1, WireLess DEF Computed
<1>4. InTime(server', process')
  BY <1>0, Known
<1>5. ~manager'.closing => Asks(transaction', server', process'.inbox, wire')
  BY <1>0, AnsweredIs
<1>6. LspAnswer' /\ LspRef'
  <2>1. LspAnswer'
    BY <1>0, Known DEF LspAnswer
  <2> QED
    BY <1>10, <2>1 DEF LspRef
<1> QED
  BY <1>1, <1>2, <1>3, <1>4, <1>5, <1>6 DEF LspInv

\* A transaction ends, whether or not it takes the server with it.

LEMMA EndedKeeps == ASSUME LspInv, transaction.pc \in Busy \cup {"closing"}, transaction' = Analysis!Idle, manager' = manager \/ manager' = [manager EXCEPT !.shut = TRUE],
         \/ UNCHANGED <<process, wire>> /\ (manager.closing \/ transaction.pc # "asked")
         \/ process' = Analysis!Down /\ wire' = <<>>,
         UNCHANGED <<disk, server, callbacks, answer>> PROVE LspInv'
<1>0. /\ transaction' = Analysis!Idle /\ UNCHANGED <<disk, server, callbacks, answer>>
      /\ \/ UNCHANGED <<process, wire>> /\ (manager.closing \/ transaction.pc # "asked")
         \/ process' = Analysis!Down /\ wire' = <<>>
  OBVIOUS
<1>10. manager' \in ManagerType /\ manager'.closing = manager.closing /\ manager'.ref = manager.ref
  BY Known DEF ServerTypes, ManagerType
<1>20. transaction'.pc = "idle" /\ transaction' = Analysis!Idle /\ ~Resyncing(transaction')
  BY <1>0 DEF Analysis!Idle, Resyncing, After
<1>21. Moves(server, transaction, server, transaction')
  BY <1>20, Known DEF Moves, ServerTypes, InstType
<1>22. Conduct(server, disk, transaction')
  BY <1>20 DEF Conduct, Busy, After
<1>12. /\ Computed(server, disk["dependency"], transaction', Analysis!Down, <<>>, callbacks) /\ InTime(server, Analysis!Down)
       /\ Asks(transaction', server, Analysis!Down.inbox, <<>>) /\ Analysis!Down \in ServerType /\ <<>> \in Seq(ReportType)
  <2>1. OfClient(server, disk["dependency"], transaction', callbacks) /\ server \in InstType
    BY <1>21, Known, ComputedMoves DEF Computed, ServerTypes
  <2> QED
    BY <2>1, Known, DownIs, EmptyIs
<1>1. ServerTypes'
  BY <1>0, <1>10, <1>12, <1>20, Known DEF ServerTypes
<1>2. Instance(server', disk') /\ Conduct(server', disk', transaction')
  BY <1>0, <1>22, Known
<1>3. Computed(server', disk'["dependency"], transaction', process', wire', callbacks')
  <2>1. Computed(server, disk["dependency"], transaction', process, wire, callbacks)
    BY <1>21, Known, ComputedMoves DEF ServerTypes
  <2> QED
    BY <1>0, <1>12, <2>1
<1>4. InTime(server', process')
  BY <1>0, <1>12, Known
<1>5. ~manager'.closing => Asks(transaction', server', process'.inbox, wire')
  <2>1. ASSUME ~manager.closing, UNCHANGED <<process, wire>>, transaction.pc # "asked"
        PROVE  Asks(transaction', server, process.inbox, wire)
    BY <2>1, Known, AsksNone
  <2> QED
    BY <1>0, <1>10, <1>12, <2>1
<1>6. LspAnswer' /\ LspRef'
  BY <1>0, <1>10, Known DEF LspAnswer, LspRef
<1> QED
  BY <1>1, <1>2, <1>3, <1>4, <1>5, <1>6 DEF LspInv

LEMMA AbandonKeeps == ASSUME LspInv, Analysis!Abandon PROVE LspInv'
<1>1. /\ manager.closing /\ transaction.pc \notin {"idle", "closing"} /\ transaction' = Analysis!Idle /\ manager' = manager
      /\ UNCHANGED <<disk, server, process, wire, callbacks, answer>>
  BY DEF Analysis!Abandon, Analysis!world
<1>2. transaction.pc \in Busy \cup {"closing"}
  BY <1>1, Known DEF ServerTypes, Analysis!Idle, Transactions
<1> QED
  BY <1>1, <1>2, EndedKeeps

LEMMA ShutKeeps == ASSUME LspInv, Analysis!Shut PROVE LspInv'
<1>1. /\ transaction.pc = "closing" /\ transaction' = Analysis!Idle /\ manager' = [manager EXCEPT !.shut = TRUE]
      /\ process' = Analysis!Down /\ wire' = <<>> /\ UNCHANGED <<disk, server, callbacks, answer>>
  BY DEF Analysis!Shut, Analysis!world
<1> QED
  BY <1>1, EndedKeeps

LEMMA CloseBeginsKeeps == ASSUME LspInv, Analysis!CloseBegins PROVE LspInv'
<1>0. /\ manager' \in ManagerType /\ manager'.ref = manager.ref /\ manager'.closing = TRUE
      /\ UNCHANGED <<disk, server, process, wire, callbacks, transaction, answer>>
  BY Known DEF Analysis!CloseBegins, ServerTypes, ManagerType, Analysis!world
<1>1. ServerTypes'
  BY <1>0, Known DEF ServerTypes
<1>2. Instance(server', disk') /\ Conduct(server', disk', transaction')
  BY <1>0, Known
<1>3. Computed(server', disk'["dependency"], transaction', process', wire', callbacks')
  BY <1>0, Known
<1>4. InTime(server', process')
  BY <1>0, Known
<1>5. ~manager'.closing => Asks(transaction', server', process'.inbox, wire')
  BY <1>0
<1>6. LspAnswer' /\ LspRef'
  BY <1>0, Known DEF LspAnswer, LspRef
<1> QED
  BY <1>1, <1>2, <1>3, <1>4, <1>5, <1>6 DEF LspInv

LEMMA TakeGateKeeps == ASSUME LspInv, Analysis!TakeGate PROVE LspInv'
<1>0. /\ manager.closing /\ transaction.pc = "idle" /\ transaction' = [pc |-> "closing"]
      /\ UNCHANGED <<disk, manager, server, process, wire, callbacks, answer>>
  BY DEF Analysis!TakeGate, Analysis!world
<1>20. transaction'.pc = "closing" /\ ~Resyncing(transaction')
  BY <1>0 DEF Resyncing, After
<1>21. Moves(server, transaction, server, transaction')
  BY <1>20, Known DEF Moves, ServerTypes, InstType
<1>22. Conduct(server, disk, transaction')
  BY <1>20 DEF Conduct, Busy, After
<1>1. ServerTypes'
  BY <1>0, Known DEF ServerTypes
<1>2. Instance(server', disk') /\ Conduct(server', disk', transaction')
  BY <1>0, <1>22, Known
<1>3. Computed(server', disk'["dependency"], transaction', process', wire', callbacks')
  BY <1>0, <1>21, Known, ComputedMoves DEF ServerTypes
<1>4. InTime(server', process')
  BY <1>0, Known
<1>5. ~manager'.closing => Asks(transaction', server', process'.inbox, wire')
  BY <1>0
<1>6. LspAnswer' /\ LspRef'
  BY <1>0, Known DEF LspAnswer, LspRef
<1> QED
  BY <1>1, <1>2, <1>3, <1>4, <1>5, <1>6 DEF LspInv

LEMMA StaysKeeps ==
  ASSUME LspInv, UNCHANGED <<disk, manager, server, process, wire, callbacks, transaction, answer>> PROVE LspInv'
  BY Known DEF LspInv, ServerTypes, LspAnswer, LspRef

----------------------------------------------------------------------------
LEMMA LspInitially == Analysis!Init => LspInv
<1> SUFFICES ASSUME Analysis!Init PROVE LspInv
  OBVIOUS
<1>1. /\ disk = [x \in Analysis!File |-> 1] /\ disk["dependency"] = 1
      /\ manager = [epoch |-> 0, closing |-> FALSE, shut |-> FALSE, ref |-> Analysis!NoRef, queries |-> 0]
      /\ server = [generation |-> 0, failures |-> 0, files |-> Analysis!Unscanned, untold |-> 0, doc |-> Analysis!NoDoc,
                 next |-> 0, client |-> FALSE]
      /\ process = Analysis!Down /\ wire = <<>> /\ callbacks = Analysis!NewClient /\ transaction = Analysis!Idle /\ answer = Analysis!NoAnswer
  BY DEF Analysis!Init, Analysis!File
<1>2. server \in InstType /\ manager \in ManagerType /\ callbacks \in ClientType
  BY <1>1 DEF InstType, ScanType, DocType, Analysis!NoDoc, ManagerType, RefType, Analysis!NoRef, ClientType, Analysis!NewClient,
             SetType, Analysis!NoSet
<1>3. OfClient(server, 1, transaction, callbacks)
  BY <1>1 DEF OfClient, Of, Belongs, Analysis!NewClient, Analysis!NoSet
<1>4. /\ Computed(server, 1, transaction, Analysis!Down, <<>>, callbacks) /\ InTime(server, Analysis!Down)
      /\ Asks(transaction, server, Analysis!Down.inbox, <<>>) /\ Analysis!Down \in ServerType /\ <<>> \in Seq(ReportType)
  BY <1>2, <1>3, DownIs, EmptyIs
<1>5. ServerTypes
  BY <1>1, <1>2, <1>4 DEF ServerTypes
<1>6. Instance(server, disk) /\ Conduct(server, disk, transaction)
  BY <1>1 DEF Instance, Conduct, Analysis!NoDoc, Analysis!Idle, Busy, After
<1>7. LspAnswer /\ LspRef
  BY <1>1 DEF LspAnswer, LspRef, Analysis!NoAnswer, Analysis!NoRef
<1> QED
  BY <1>1, <1>4, <1>5, <1>6, <1>7 DEF LspInv

LEMMA TransactionKeeps == ASSUME LspInv, Analysis!Transaction PROVE LspInv'
<1>1. /\ ~manager.closing
      /\ \/ Analysis!Ensure \/ Analysis!Scan \/ Analysis!Reconcile \/ Analysis!Sync \/ Analysis!Ask
         \/ Analysis!PullAnswered \/ Analysis!PullFails \/ Analysis!AskFails \/ Analysis!PushAnswered \/ Analysis!WaitEnds \/ Analysis!Label \/ Analysis!Recheck
         \/ Analysis!NavigateAnswered \/ Analysis!NavigateUnanswered \/ Analysis!NavigateFails
  BY DEF Analysis!Transaction
<1> QED
  BY <1>1, EnsureKeeps, ScanKeeps, ReconcileKeeps, SyncKeeps, AskKeeps, PullAnsweredKeeps,
     PullFailsKeeps, AskFailsKeeps, PushAnsweredKeeps, WaitEndsKeeps, LabelKeeps, RecheckKeeps,
     NavigateAnsweredKeeps, NavigateUnansweredKeeps, NavigateFailsKeeps

LEMMA LspStep == LspInv /\ [Analysis!Next]_(Analysis!vars) => LspInv'
<1> SUFFICES ASSUME LspInv, [Analysis!Next]_(Analysis!vars) PROVE LspInv'
  OBVIOUS
<1>1. CASE UNCHANGED Analysis!vars
  BY <1>1, StaysKeeps DEF Analysis!vars
<1>2. CASE Analysis!RefresherEnds
  BY <1>2, StaysKeeps DEF Analysis!RefresherEnds, Analysis!world
<1>3. CASE Analysis!Next /\ ~Analysis!RefresherEnds
  BY <1>3, EditKeeps, ChangedKeeps, ServerDiesKeeps, ServerHandlesKeeps, PublishedKeeps,
     RefreshAskedKeeps, RegistersKeeps, AcquireKeeps, RefresherAcquiresKeeps, TransactionKeeps, CloseBeginsKeeps,
     AbandonKeeps, TakeGateKeeps, ShutKeeps DEF Analysis!Next
<1> QED
  BY <1>1, <1>2, <1>3

LEMMA LspFits == LspInv => Analysis!SynchronizedIsExact /\ Analysis!ResyncConfirms /\ Analysis!LocatedInItsText
  BY DEF LspInv, LspAnswer, LspRef, Analysis!SynchronizedIsExact, Analysis!ResyncConfirms, Analysis!LocatedInItsText

THEOREM LspHolds == Analysis!Spec => [](Analysis!SynchronizedIsExact /\ Analysis!ResyncConfirms /\ Analysis!LocatedInItsText)
<1> QED
  BY LspInitially, LspStep, LspFits, PTL DEF Analysis!Spec

----------------------------------------------------------------------------
(* The player of a recorded session (Replay).                              *)
Below(g) == {h \in Player!Gate : h < g}
RecordType == [kind : ReplayKinds \cup {"user"}, by : Player!Actor]
Stand == Player!InAwait \cup {"ahead", "acting", "done", "lost", "ended"}
PlayerTypes ==
  /\ trace \in Seq(RecordType) /\ stands \in [Player!Point -> Stand]
  /\ passed \subseteq Player!Gate /\ nextGate \in 1..Player!End /\ acted \in Seq(Player!Gate)

\* Who is past await, without its context having ended, has all before its gate passed.
Entered == \A g \in Player!Gate \ cutOff : stands[g] \in {"leaving", "acting"} => Below(g) \subseteq passed

\* What was acted on is not acted on again, and if it waited all before it has passed.
BehindThem ==
  \A i \in DOMAIN acted :
    /\ stands[acted[i]] = "done"
    /\ Player!Record(acted[i]).kind \in Player!Awaited /\ acted[i] \notin cutOff => Below(acted[i]) \subseteq passed

Reported == \A h \in passed \ skipped : \E i \in DOMAIN acted : acted[i] = h
InOrder ==
  skipped = {} => \A i, j \in DOMAIN acted :
    i < j /\ Player!Record(acted[i]).kind \in Player!Awaited /\ acted[i] \notin cutOff => acted[i] < acted[j]

PlayerInv == PlayerTypes /\ Below(nextGate) \subseteq passed /\ Entered /\ BehindThem /\ Reported /\ InOrder

----------------------------------------------------------------------------
LEMMA GatesAre ==
  ASSUME trace \in Seq(RecordType)
  PROVE  /\ Player!Gate \subseteq Nat \ {0} /\ Player!End \in Nat \ {0} /\ \A g \in Player!Gate : g < Player!End
         /\ \A g \in Player!Gate : Player!Record(g).by \in Player!Actor
<1>1. DOMAIN trace = 1..Len(trace) /\ Len(trace) \in Nat
  OBVIOUS
<1>2. \A g \in Player!Gate : g \in 1..Len(trace) /\ trace[g] \in RecordType
  BY <1>1 DEF Player!Gate
<1> QED
  BY <1>1, <1>2 DEF Player!End, Player!Record, RecordType

\* The first gate that is open, from one on: all between have passed.
LEMMA FirstOpenIs ==
  ASSUME trace \in Seq(RecordType), NEW done, NEW from \in 1..Player!End
  PROVE  /\ Player!FirstOpen(done, from) \in from..Player!End
         /\ Player!FirstOpen(done, from) = Player!End \/ Player!FirstOpen(done, from) \in Player!Gate \ done
         /\ \A k \in Player!Gate : from <= k /\ k < Player!FirstOpen(done, from) => k \in done
<1> DEFINE open == {n \in from..Player!End : n = Player!End \/ n \in Player!Gate \ done}
<1>0. Player!End \in Nat /\ Player!Gate \subseteq Nat /\ \A g \in Player!Gate : g < Player!End
  BY GatesAre
<1>1. open \in SUBSET Nat /\ Player!End \in open
  BY <1>0
<1>2. PICK m \in open : \A x \in open : m <= x
  BY <1>1, LeastOf
<1>3. \A k \in Player!Gate \cap from..(m - 1) : k \in done
  BY <1>0, <1>1, <1>2
<1>4. \E n \in from..Player!End : /\ n = Player!End \/ n \in Player!Gate \ done
                                  /\ \A k \in Player!Gate \cap from..(n - 1) : k \in done
  BY <1>2, <1>3
<1>5. LET n == Player!FirstOpen(done, from)
      IN n \in from..Player!End /\ (n = Player!End \/ n \in Player!Gate \ done) /\ \A k \in Player!Gate \cap from..(n - 1) : k \in done
  BY <1>4 DEF Player!FirstOpen
<1> QED
  BY <1>0, <1>5

LEMMA SameTrace ==
  ASSUME UNCHANGED trace
  PROVE  /\ Player!Gate' = Player!Gate /\ Player!End' = Player!End /\ (\A g : Player!Record(g)' = Player!Record(g)) /\ (\A g : Below(g)' = Below(g))
  BY DEF Player!Gate, Player!End, Player!Record, Below

\* What lies before the first open gate has passed, if what lies before the start has.
LEMMA FirstOpenPast ==
  ASSUME trace \in Seq(RecordType), NEW done, nextGate \in 1..Player!End, Below(nextGate) \subseteq done
  PROVE  /\ Player!FirstOpen(done, nextGate) \in 1..Player!End /\ Below(Player!FirstOpen(done, nextGate)) \subseteq done
         /\ Player!FirstOpen(done, nextGate) = Player!End \/ Player!FirstOpen(done, nextGate) \in Player!Gate \ done
<1>0. Player!End \in Nat /\ Player!Gate \subseteq Nat
  BY GatesAre
<1>1. /\ Player!FirstOpen(done, nextGate) \in nextGate..Player!End
      /\ Player!FirstOpen(done, nextGate) = Player!End \/ Player!FirstOpen(done, nextGate) \in Player!Gate \ done
      /\ \A k \in Player!Gate : nextGate <= k /\ k < Player!FirstOpen(done, nextGate) => k \in done
  BY FirstOpenIs
<1>2. ASSUME NEW k \in Player!Gate, k < Player!FirstOpen(done, nextGate) PROVE k \in done
  <2>1. CASE k < nextGate
    BY <2>1 DEF Below
  <2>2. CASE nextGate <= k
    BY <1>1, <1>2, <2>2
  <2> QED
    BY <1>0, <2>1, <2>2
<1>3. Player!FirstOpen(done, nextGate) \in 1..Player!End
  <2>1. nextGate \in Nat /\ nextGate >= 1
    BY <1>0
  <2> HIDE DEF Player!FirstOpen
  <2> QED
    BY <1>0, <1>1, <2>1
<1> QED
  BY <1>1, <1>2, <1>3 DEF Below

LEMMA PlayerInitially == Player!Init => PlayerInv
<1> SUFFICES ASSUME Player!Init PROVE PlayerInv
  OBVIOUS
<1>1. trace \in Seq(RecordType)
  <2>1. PICK n \in 1..ReplayTrace : trace \in [1..n -> [kind : ReplayKinds, by : ReplayAgents] \cup [kind : {"user"}, by : {ReplayUser}]]
    BY DEF Player!Init, Player!Traces
  <2>2. n \in Nat
    OBVIOUS
  <2>3. trace \in [1..n -> RecordType]
    BY <2>1 DEF RecordType, Player!Actor
  <2> QED
    BY <2>2, <2>3
<1>2. /\ Player!End \in Nat \ {0} /\ Player!Gate \subseteq Nat \ {0}
  BY <1>1, GatesAre
<1>3. stands = [p \in Player!Point |-> "ahead"] /\ passed = {} /\ nextGate = 1 /\ acted = <<>> /\ cutOff = {}
  BY DEF Player!Init
<1>4. PlayerTypes
  BY <1>1, <1>2, <1>3 DEF PlayerTypes, Stand
<1>5. Below(nextGate) = {}
  <2>1. \A g \in Player!Gate : ~ (g < 1)
    BY <1>2
  <2> QED
    BY <1>3, <2>1 DEF Below
<1>6. Entered
  BY <1>3 DEF Entered, Player!Point
<1>7. DOMAIN acted = {}
  BY <1>3
<1> QED
  BY <1>3, <1>4, <1>5, <1>6, <1>7 DEF PlayerInv, BehindThem, Reported, InOrder

\* A step that acts on nothing.
LEMMA NothingActed ==
  ASSUME PlayerInv, UNCHANGED <<trace, acted>>, PlayerTypes', Below(nextGate)' \subseteq passed', Entered',
         passed \subseteq passed', skipped \subseteq skipped',
         passed' \ skipped' \subseteq passed \ skipped,
         \A g \in Player!Gate : stands[g] = "done" => stands'[g] = "done" /\ (g \in cutOff' <=> g \in cutOff)
  PROVE  PlayerInv'
<1>1. /\ Player!Gate' = Player!Gate /\ Player!End' = Player!End /\ (\A g : Player!Record(g)' = Player!Record(g)) /\ (\A g : Below(g)' = Below(g))
  BY SameTrace
<1>2. \A i \in DOMAIN acted : acted[i] \in Player!Gate
  BY DEF PlayerInv, PlayerTypes
<1>3. \A i \in DOMAIN acted : stands'[acted[i]] = "done" /\ (acted[i] \in cutOff' <=> acted[i] \in cutOff)
  BY <1>2 DEF PlayerInv, BehindThem
<1>4. BehindThem'
  BY <1>1, <1>3 DEF PlayerInv, BehindThem
<1>5. Reported'
  BY DEF PlayerInv, Reported
<1>6. InOrder'
  <2> SUFFICES ASSUME skipped' = {} PROVE InOrder'
    BY DEF InOrder
  <2>1. skipped = {}
    OBVIOUS
  <2> QED
    BY <1>1, <1>3, <2>1 DEF PlayerInv, InOrder
<1> QED
  BY <1>4, <1>5, <1>6 DEF PlayerInv

\* A step of one that has not acted, and that neither enters nor passes.
LEMMA NobodyEnters ==
  ASSUME PlayerInv, UNCHANGED <<trace, passed, skipped, acted>>, PlayerTypes', Below(nextGate)' \subseteq passed,
         \A g \in Player!Gate : stands[g] = "done" => stands'[g] = "done" /\ (g \in cutOff' <=> g \in cutOff),
         \A g \in Player!Gate \ cutOff' : stands'[g] \in {"leaving", "acting"} =>
           stands[g] \in {"leaving", "acting"} /\ g \notin cutOff
  PROVE  PlayerInv'
<1>1. /\ Player!Gate' = Player!Gate /\ (\A g : Below(g)' = Below(g))
  BY SameTrace
<1>2. Entered'
  BY <1>1 DEF PlayerInv, Entered
<1> QED
  BY <1>2, NothingActed

LEMMA ArriveKeeps == ASSUME PlayerInv, NEW g \in Player!Gate, Player!Arrive(g) PROVE PlayerInv'
<1>1. /\ Player!Gate' = Player!Gate /\ Player!End' = Player!End /\ (\A h : Below(h)' = Below(h))
  BY SameTrace DEF Player!Arrive
<1>2. /\ stands[g] = "ahead" /\ stands' = [stands EXCEPT ![g] = "come"]
      /\ UNCHANGED <<trace, passed, nextGate, skipped, cutOff, acted>>
  BY DEF Player!Arrive
<1>3. PlayerTypes'
  BY <1>1, <1>2 DEF PlayerInv, PlayerTypes, Player!Point, Stand, Player!InAwait
<1>4. Below(nextGate)' \subseteq passed
  BY <1>1, <1>2 DEF PlayerInv, Below
<1>5. \A h \in Player!Gate : stands'[h] = stands[h] \/ (h = g /\ stands'[h] = "come")
  BY <1>2 DEF PlayerInv, PlayerTypes, Player!Point
<1> QED
  BY <1>2, <1>3, <1>4, <1>5, NobodyEnters

LEMMA LookKeeps == ASSUME PlayerInv, NEW p \in Player!Point, Player!Look(p) PROVE PlayerInv'
<1> DEFINE n == Player!FirstOpen(passed, nextGate)
<1>0. /\ Player!Gate \subseteq Nat /\ Player!End \in Nat /\ \A g \in Player!Gate : g < Player!End
  BY GatesAre DEF PlayerInv, PlayerTypes
<1>1. /\ Player!Gate' = Player!Gate /\ Player!End' = Player!End /\ (\A g : Player!Record(g)' = Player!Record(g)) /\ (\A g : Below(g)' = Below(g))
  BY SameTrace DEF Player!Look
<1>2. n \in 1..Player!End /\ Below(n) \subseteq passed
  BY FirstOpenPast DEF PlayerInv, PlayerTypes
<1>3. nextGate' = n /\ UNCHANGED <<trace, cutOff, acted>> /\ stands[p] \in {"come", "waiting"}
  BY DEF Player!Look
<1>4. Player!Skippable(n) \subseteq Player!Gate \ passed
  BY DEF Player!Skippable
<1>5. \/ passed' = passed /\ skipped' = skipped
      \/ passed' = passed \cup Player!Skippable(n) /\ skipped' = skipped \cup Player!Skippable(n)
  BY DEF Player!Look
<1>6. \/ stands' = stands \/ stands' = [stands EXCEPT ![p] = "waiting"]
      \/ (stands' = [stands EXCEPT ![p] = "leaving"] /\ (n = Player!End \/ n = p))
  BY DEF Player!Look
<1>7. PlayerTypes'
  <2>1. stands' \in [Player!Point -> Stand]
    BY <1>6 DEF PlayerInv, PlayerTypes, Stand, Player!InAwait
  <2>2. Player!Point' = Player!Point /\ Stand' = Stand
    BY <1>1 DEF Player!Point, Stand
  <2>3. passed' \subseteq Player!Gate'
    BY <1>1, <1>4, <1>5 DEF PlayerInv, PlayerTypes
  <2> QED
    BY <1>1, <1>2, <1>3, <2>1, <2>2, <2>3 DEF PlayerInv, PlayerTypes
<1>8. Below(nextGate)' \subseteq passed'
  BY <1>1, <1>2, <1>3, <1>5 DEF Below
<1>9. \A g \in Player!Gate : \/ stands'[g] = stands[g]
                             \/ g = p /\ (stands'[g] = "waiting" \/ (stands'[g] = "leaving" /\ (n = Player!End \/ n = g)))
  BY <1>6 DEF PlayerInv, PlayerTypes, Player!Point
<1>10. Entered'
  <2> SUFFICES ASSUME NEW g \in Player!Gate, g \notin cutOff, stands'[g] \in {"leaving", "acting"}
               PROVE  Below(g) \subseteq passed'
    BY <1>1, <1>3 DEF Entered
  <2>1. CASE stands'[g] = stands[g]
    BY <1>5, <2>1 DEF PlayerInv, Entered
  <2>2. CASE stands'[g] # stands[g]
    <3>1. n = Player!End \/ n = g
      BY <1>9, <2>2
    <3>2. Below(g) \subseteq Below(n)
      BY <1>0, <3>1 DEF Below
    <3> QED
      BY <1>2, <1>5, <3>2
  <2> QED
    BY <2>1, <2>2
<1>11. \A g \in Player!Gate : stands[g] = "done" => stands'[g] = "done"
  BY <1>3, <1>9
<1> QED
  BY <1>3, <1>4, <1>5, <1>7, <1>8, <1>10, <1>11, NothingActed

LEMMA ContextEndsKeeps == ASSUME PlayerInv, NEW p \in Player!Point, Player!ContextEnds(p) PROVE PlayerInv'
<1>1. /\ Player!Gate' = Player!Gate /\ Player!End' = Player!End /\ (\A h : Below(h)' = Below(h))
  BY SameTrace DEF Player!ContextEnds
<1>2. /\ stands[p] = "waiting" /\ stands' = [stands EXCEPT ![p] = "ending"]
      /\ UNCHANGED <<trace, passed, nextGate, skipped, cutOff, acted>>
  BY DEF Player!ContextEnds
<1>3. PlayerTypes'
  BY <1>1, <1>2 DEF PlayerInv, PlayerTypes, Player!Point, Stand, Player!InAwait
<1>4. Below(nextGate)' \subseteq passed
  BY <1>1, <1>2 DEF PlayerInv, Below
<1>5. \A h \in Player!Gate : stands'[h] = stands[h] \/ (h = p /\ stands'[h] = "ending")
  BY <1>2 DEF PlayerInv, PlayerTypes, Player!Point
<1> QED
  BY <1>2, <1>3, <1>4, <1>5, NobodyEnters

LEMMA PlayerLeaves == ASSUME PlayerInv, NEW p \in Player!Point, Player!Leave(p) PROVE PlayerInv'
<1>1. /\ Player!Gate' = Player!Gate /\ Player!End' = Player!End /\ (\A h : Below(h)' = Below(h))
  BY SameTrace DEF Player!Leave
<1>2. /\ stands[p] = "leaving" /\ stands' = [stands EXCEPT ![p] = IF p = Player!End THEN "ahead" ELSE "acting"]
      /\ UNCHANGED <<trace, passed, nextGate, skipped, cutOff, acted>>
  BY DEF Player!Leave
<1>3. PlayerTypes'
  BY <1>1, <1>2 DEF PlayerInv, PlayerTypes, Player!Point, Stand
<1>4. Below(nextGate)' \subseteq passed
  BY <1>1, <1>2 DEF PlayerInv, Below
<1>5. \A h \in Player!Gate : stands'[h] = stands[h] \/ (h = p /\ stands'[h] # "done")
  BY <1>2 DEF PlayerInv, PlayerTypes, Player!Point
<1> QED
  BY <1>2, <1>3, <1>4, <1>5, NobodyEnters

LEMMA GiveUpKeeps == ASSUME PlayerInv, NEW p \in Player!Point, Player!GiveUp(p) PROVE PlayerInv'
<1> DEFINE goesOn == p # Player!End /\ Player!Record(p).kind \in {"tool", "send"}
<1>0. \A g \in Player!Gate : g # Player!End
  BY GatesAre DEF PlayerInv, PlayerTypes
<1>1. /\ Player!Gate' = Player!Gate /\ Player!End' = Player!End /\ (\A h : Below(h)' = Below(h))
  BY SameTrace DEF Player!GiveUp
<1>2. /\ stands[p] = "ending" /\ cutOff' = IF goesOn THEN cutOff \cup {p} ELSE cutOff
      /\ stands' = [q \in Player!Point |->
           CASE q = p /\ p # Player!End -> IF goesOn THEN "acting" ELSE "lost"
             [] q = Player!End /\ (p = Player!End \/ Player!Record(p).kind = "user") -> "ended"
             [] OTHER -> stands[q]]
      /\ UNCHANGED <<trace, passed, nextGate, skipped, acted>>
  BY DEF Player!GiveUp
<1>3. stands' \in [Player!Point -> Stand]
  <2>1. ASSUME NEW q \in Player!Point PROVE stands'[q] \in Stand
    <3>1. stands[q] \in Stand
      BY DEF PlayerInv, PlayerTypes
    <3>2. stands'[q] \in {"acting", "lost", "ended", stands[q]}
      BY <1>2
    <3> QED
      BY <3>1, <3>2 DEF Stand
  <2> QED
    BY <1>2, <2>1
<1>4. PlayerTypes'
  <2>1. Player!Point' = Player!Point /\ Stand' = Stand
    BY <1>1 DEF Player!Point, Stand
  <2> QED
    BY <1>1, <1>2, <1>3, <2>1 DEF PlayerInv, PlayerTypes
<1>5. Below(nextGate)' \subseteq passed
  BY <1>1, <1>2 DEF PlayerInv, Below
<1>6. \A h \in Player!Gate : h # p => stands'[h] = stands[h] /\ (h \in cutOff' <=> h \in cutOff)
  BY <1>0, <1>2 DEF Player!Point
<1>7. p \in Player!Gate => (stands'[p] = "acting" /\ p \in cutOff') \/ stands'[p] = "lost"
  BY <1>0, <1>2 DEF Player!Point
<1>8. \A h \in Player!Gate : stands[h] = "done" => stands'[h] = "done" /\ (h \in cutOff' <=> h \in cutOff)
  BY <1>2, <1>6
<1>9. \A h \in Player!Gate \ cutOff' : stands'[h] \in {"leaving", "acting"} =>
        stands[h] \in {"leaving", "acting"} /\ h \notin cutOff
  BY <1>6, <1>7
<1> QED
  BY <1>2, <1>4, <1>5, <1>8, <1>9, NobodyEnters

LEMMA SendFailsKeeps == ASSUME PlayerInv, NEW g \in Player!Gate, Player!SendFails(g) PROVE PlayerInv'
<1>0. g # Player!End /\ \A h \in Player!Gate : h # Player!End
  BY GatesAre DEF PlayerInv, PlayerTypes
<1>1. /\ Player!Gate' = Player!Gate /\ Player!End' = Player!End /\ (\A h : Below(h)' = Below(h))
  BY SameTrace DEF Player!SendFails
<1>2. /\ stands[g] = "acting" /\ cutOff' = cutOff \ {g}
      /\ \/ stands' = [stands EXCEPT ![g] = "ahead"]
         \/ stands' = [stands EXCEPT ![g] = "lost", ![Player!End] = "ended"]
      /\ UNCHANGED <<trace, passed, nextGate, skipped, acted>>
  BY DEF Player!SendFails
<1>3. PlayerTypes'
  <2>1. stands' \in [Player!Point -> Stand]
    BY <1>2 DEF PlayerInv, PlayerTypes, Stand
  <2>2. Player!Point' = Player!Point /\ Stand' = Stand
    BY <1>1 DEF Player!Point, Stand
  <2> QED
    BY <1>1, <1>2, <2>1, <2>2 DEF PlayerInv, PlayerTypes
<1>4. Below(nextGate)' \subseteq passed
  BY <1>1, <1>2 DEF PlayerInv, Below
<1>5. \A h \in Player!Gate : \/ h # g /\ stands'[h] = stands[h]
                             \/ h = g /\ stands'[h] \in {"ahead", "lost"}
  BY <1>0, <1>2 DEF PlayerInv, PlayerTypes, Player!Point
<1> QED
  BY <1>2, <1>3, <1>4, <1>5, NobodyEnters

LEMMA RunPollsKeeps == ASSUME PlayerInv, Player!RunPolls PROVE PlayerInv'
<1>0. \A h \in Player!Gate : h # Player!End
  BY GatesAre DEF PlayerInv, PlayerTypes
<1>1. /\ Player!Gate' = Player!Gate /\ Player!End' = Player!End /\ (\A h : Below(h)' = Below(h))
  BY SameTrace DEF Player!RunPolls
<1>2. /\ nextGate' = Player!FirstOpen(passed, nextGate)
      /\ stands' = [stands EXCEPT ![Player!End] = "ended"] \/ stands' = [stands EXCEPT ![Player!End] = "come"]
      /\ UNCHANGED <<trace, passed, skipped, cutOff, acted>>
  BY DEF Player!RunPolls
<1>3. nextGate' \in 1..Player!End /\ Below(nextGate') \subseteq passed
  BY <1>2, FirstOpenPast DEF PlayerInv, PlayerTypes
<1>4. PlayerTypes'
  <2>1. stands' \in [Player!Point -> Stand]
    BY <1>2 DEF PlayerInv, PlayerTypes, Stand, Player!InAwait
  <2>2. Player!Point' = Player!Point /\ Stand' = Stand
    BY <1>1 DEF Player!Point, Stand
  <2> QED
    BY <1>1, <1>2, <1>3, <2>1, <2>2 DEF PlayerInv, PlayerTypes
<1>5. Below(nextGate)' \subseteq passed
  BY <1>1, <1>3 DEF Below
<1>6. \A h \in Player!Gate : stands'[h] = stands[h]
  BY <1>0, <1>2 DEF PlayerInv, PlayerTypes, Player!Point
<1> QED
  BY <1>2, <1>4, <1>5, <1>6, NobodyEnters

\* Only a gate that was not acted on passes; what waited and lies behind it would have had it
\* passed, and acted on.
LEMMA PassKeeps ==
  ASSUME PlayerInv, NEW g \in Player!Gate, Player!PassGate(g), UNCHANGED <<trace, skipped, cutOff>>, stands[g] # "done",
         Player!Record(g).kind \in Player!Awaited /\ g \notin cutOff => Below(g) \subseteq passed
  PROVE  PlayerInv'
<1>1. /\ Player!Gate' = Player!Gate /\ Player!End' = Player!End /\ (\A h : Player!Record(h)' = Player!Record(h)) /\ (\A h : Below(h)' = Below(h))
  BY SameTrace
<1>2. /\ passed' = passed \cup {g} /\ nextGate' = Player!FirstOpen(passed', nextGate)
      /\ stands' = [stands EXCEPT ![g] = "done"] /\ acted' = Append(acted, g)
  BY DEF Player!PassGate
<1>3. Player!Gate \subseteq Nat /\ Player!End \in Nat
  BY GatesAre DEF PlayerInv, PlayerTypes
<1>4. \A h \in Player!Gate : stands'[h] = IF h = g THEN "done" ELSE stands[h]
  BY <1>2 DEF PlayerInv, PlayerTypes, Player!Point
<1>5. nextGate' \in 1..Player!End /\ Below(nextGate') \subseteq passed'
  <2>1. Below(nextGate) \subseteq passed'
    BY <1>2 DEF PlayerInv
  <2> QED
    BY <1>2, <2>1, FirstOpenPast DEF PlayerInv, PlayerTypes
<1>6. PlayerTypes'
  <2>1. acted' \in Seq(Player!Gate)
    BY <1>2 DEF PlayerInv, PlayerTypes
  <2>2. passed' \subseteq Player!Gate /\ stands' \in [Player!Point -> Stand]
    BY <1>2 DEF PlayerInv, PlayerTypes, Stand
  <2>3. Player!Point' = Player!Point /\ Stand' = Stand
    BY <1>1 DEF Player!Point, Stand
  <2> QED
    BY <1>1, <1>5, <2>1, <2>2, <2>3 DEF PlayerInv, PlayerTypes
<1>7. Entered'
  BY <1>1, <1>2, <1>4 DEF PlayerInv, Entered
<1>8. acted \in Seq(Player!Gate) /\ DOMAIN acted = 1..Len(acted) /\ Len(acted) \in Nat
  BY DEF PlayerInv, PlayerTypes
<1>9. /\ DOMAIN acted' = 1..(Len(acted) + 1) /\ acted'[Len(acted) + 1] = g
      /\ \A i \in 1..Len(acted) : acted'[i] = acted[i]
  BY <1>2, <1>8
<1>10. \A i \in 1..Len(acted) :
         /\ acted[i] \in Player!Gate /\ stands[acted[i]] = "done" /\ acted[i] # g
         /\ Player!Record(acted[i]).kind \in Player!Awaited /\ acted[i] \notin cutOff => Below(acted[i]) \subseteq passed
  BY <1>8 DEF PlayerInv, BehindThem
<1>11. BehindThem'
  <2> SUFFICES ASSUME NEW i \in DOMAIN acted'
               PROVE  /\ stands'[acted'[i]] = "done"
                      /\ Player!Record(acted'[i]).kind \in Player!Awaited /\ acted'[i] \notin cutOff
                           => Below(acted'[i]) \subseteq passed'
    BY <1>1 DEF BehindThem
  <2>1. CASE i = Len(acted) + 1
    BY <1>2, <1>4, <1>9, <2>1
  <2>2. CASE i \in 1..Len(acted)
    BY <1>2, <1>4, <1>9, <1>10, <2>2
  <2> QED
    BY <1>8, <1>9, <2>1, <2>2
<1>12. Reported'
  <2> SUFFICES ASSUME NEW h \in passed', h \notin skipped PROVE \E i \in DOMAIN acted' : acted'[i] = h
    BY DEF Reported
  <2>1. CASE h = g
    <3>1. Len(acted) + 1 \in DOMAIN acted'
      BY <1>8, <1>9
    <3> QED
      BY <1>9, <2>1, <3>1
  <2>2. CASE h # g
    <3>1. PICK i \in 1..Len(acted) : acted[i] = h
      BY <1>2, <1>8, <2>2 DEF PlayerInv, Reported
    <3>2. i \in DOMAIN acted'
      BY <1>8, <1>9
    <3> QED
      BY <1>9, <3>1, <3>2
  <2> QED
    BY <2>1, <2>2
<1>13. InOrder'
  <2> SUFFICES ASSUME skipped = {}, NEW i \in DOMAIN acted', NEW j \in DOMAIN acted', i < j,
                      Player!Record(acted'[i]).kind \in Player!Awaited, acted'[i] \notin cutOff
               PROVE  acted'[i] < acted'[j]
    BY <1>1 DEF InOrder
  <2>1. i \in 1..Len(acted) /\ acted'[i] = acted[i]
    BY <1>8, <1>9
  <2>2. CASE j \in 1..Len(acted)
    BY <1>8, <1>9, <2>1, <2>2 DEF PlayerInv, InOrder
  <2>3. CASE j = Len(acted) + 1
    <3>1. acted'[j] = g
      BY <1>9, <2>3
    <3>2. Below(acted[i]) \subseteq passed /\ acted[i] \in Player!Gate /\ acted[i] # g
      BY <1>10, <2>1
    <3>3. g \notin passed
      <4> SUFFICES ASSUME g \in passed PROVE FALSE
        OBVIOUS
      <4>1. PICK k \in 1..Len(acted) : acted[k] = g
        BY <1>8 DEF PlayerInv, Reported
      <4> QED
        BY <1>10, <4>1
    <3>4. ~ (g < acted[i])
      BY <3>2, <3>3 DEF Below
    <3>5. acted[i] \in Nat /\ g \in Nat
      BY <1>3, <3>2
    <3>6. acted[i] < g
      BY <3>2, <3>4, <3>5
    <3> QED
      BY <2>1, <3>1, <3>6
  <2> QED
    BY <1>8, <1>9, <2>2, <2>3
<1>14. Below(nextGate)' \subseteq passed'
  BY <1>1, <1>5 DEF Below
<1> QED
  BY <1>6, <1>7, <1>11, <1>12, <1>13, <1>14 DEF PlayerInv

LEMMA PlayerStep == PlayerInv /\ [Player!Next]_(Player!vars) => PlayerInv'
<1> SUFFICES ASSUME PlayerInv, [Player!Next]_(Player!vars) PROVE PlayerInv'
  OBVIOUS
<1>0. \A g \in Player!Gate : g \in Player!Point
  BY DEF Player!Point
<1>1. ASSUME NEW g \in Player!Gate, Player!Act(g) PROVE PlayerInv'
  <2>1. Player!PassGate(g) /\ UNCHANGED <<trace, skipped, cutOff>> /\ stands[g] = "acting"
    BY <1>1 DEF Player!Act
  <2>2. g \notin cutOff => Below(g) \subseteq passed
    BY <2>1 DEF PlayerInv, Entered
  <2> QED
    BY <2>1, <2>2, PassKeeps
<1>2. ASSUME NEW g \in Player!Gate, Player!Mark(g) PROVE PlayerInv'
  <2>1. Player!PassGate(g) /\ UNCHANGED <<trace, skipped, cutOff>> /\ stands[g] = "ahead"
    BY <1>2 DEF Player!Mark
  <2>2. Player!Record(g).kind \notin Player!Awaited
    BY <1>2 DEF Player!Mark, Player!Marked, Player!Awaited, Player!Calls
  <2> QED
    BY <2>1, <2>2, PassKeeps
<1>3. CASE UNCHANGED <<trace, stands, passed, nextGate, skipped, cutOff, acted>>
  <2>1. /\ Player!Gate' = Player!Gate /\ Player!End' = Player!End /\ (\A h : Below(h)' = Below(h))
    BY <1>3, SameTrace
  <2>2. PlayerTypes'
    BY <1>3, <2>1 DEF PlayerInv, PlayerTypes, Player!Point, Stand
  <2>3. Below(nextGate)' \subseteq passed
    BY <1>3, <2>1 DEF PlayerInv, Below
  <2> QED
    BY <1>3, <2>2, <2>3, NobodyEnters
<1>4. ASSUME NEW a \in ReplayAgents, Player!ExtraCall(a) PROVE PlayerInv'
  BY <1>3, <1>4 DEF Player!ExtraCall
<1>5. CASE Player!TimePasses
  BY <1>3, <1>5 DEF Player!TimePasses
<1>6. CASE UNCHANGED Player!vars
  BY <1>3, <1>6 DEF Player!vars
<1> QED
  BY <1>1, <1>2, <1>4, <1>5, <1>6, ArriveKeeps, LookKeeps, ContextEndsKeeps, PlayerLeaves, GiveUpKeeps,
     SendFailsKeeps, RunPollsKeeps, Zenon DEF Player!Next

LEMMA PlayerFits == PlayerInv => Player!OrderOrReport
<1> SUFFICES ASSUME PlayerInv PROVE Player!OrderOrReport
  OBVIOUS
<1>1. \A g \in Player!Gate \ cutOff : stands[g] = "acting" => \A h \in Player!Gate : h < g => h \in passed
  BY DEF PlayerInv, Entered, Below
<1> QED
  BY <1>1 DEF PlayerInv, Reported, InOrder, Player!OrderOrReport

=============================================================================
