------------------------------- MODULE Timing -------------------------------
(***************************************************************************)
(* Where a session's time went (eval/timing.go).  AnalyzeTiming reads a    *)
(* recorded trace, one record after the other, and then sweeps over what   *)
(* it found.  Here the session and the reader move together: an event of   *)
(* the session takes one unit of time and is read as it is recorded, so    *)
(* that every state is a trace that ends there, a crash included.  truth   *)
(* holds what ran in each unit of time; the properties compare it with     *)
(* what the sweep reports.                                                 *)
(***************************************************************************)
EXTENDS Naturals, Sequences, FiniteSets, SequencesExt, FiniteSetsExt, Functions

CONSTANTS Agents,     \* The session's agents.
          Role,         \* The role of each; one is the manager.
          Works,        \* Its works, the kind of each, and the work it is about.
          WorkKind,
          Parent,
          Tools,        \* Tools; those in Reads may run side by side.
          Reads,
          Unit,         \* The length of a moment, divisible by what may share it.
          MaxTime,      \* Bound: events of the trace.
          MaxSteps      \* Bound: calls and tools started.

VARIABLES now,        \* The time of the last record.
          flight,       \* What each agent has in flight.
          holding,      \* The session's works: their state and who has them.
          truth,        \* Per moment: the steps in flight and the agents running.
          models, spans, running, runs,      \* What the reader has gathered:
          works, open, holds, stages, starts, messages
                                             \* the locals of AnalyzeTiming.

vars == <<now, flight, holding, truth, models, spans, running, runs, works, open, holds,
          stages, starts, messages>>

None == MaxTime + 1      \* The zero time.
Manager == CHOOSE a \in Agents : Role[a] = "manager"
NoWork == [state |-> "none", who |-> Manager]

Init ==
  /\ now = 0 /\ truth = << >> /\ models = << >> /\ spans = {} /\ runs = {}
  /\ flight = [a \in Agents |-> {}] /\ running = [a \in Agents |-> None]
  /\ holding = [w \in Works |-> NoWork]
  /\ works = [w \in Works |-> [assigned |-> None, submitted |-> None, who |-> Manager, picked |-> FALSE]]
  /\ open = [w \in Works |-> [agent |-> Manager, from |-> None]]
  /\ holds = << >> /\ stages = {} /\ starts = {} /\ messages = {}

-----------------------------------------------------------------------------
\* A moment passes: what is in flight, and who is running, now runs through it.
Moment ==
  /\ now < MaxTime /\ now' = now + 1
  /\ truth' = Append(truth, [steps |-> UNION {flight[a] : a \in Agents},
                             run |-> {a \in Agents : running[a] # None}])

\* What the work an agent holds, if any, makes of the time it spends.
Phase(a, kind) ==
  IF kind \in {"web_research", "deep_research"} THEN "research"
  ELSE IF kind = "research" /\ Role[a] = "reviewer" THEN "review" ELSE kind

\* A worker that holds nothing gives its closing reply.
WrapUp(a) == Role[a] \o " wrap-up"

\* phaseOf, of the session itself: what the agent does when it starts a step.
Doing(a) ==
  IF Role[a] \in {"manager", "debugger"} THEN Role[a]
  ELSE LET mine == {w \in Works : holding[w].state = "active" /\ holding[w].who = a}
       IN IF mine = {} THEN WrapUp(a) ELSE Phase(a, WorkKind[CHOOSE w \in mine : TRUE])

Step(a, kind, name) == [agent |-> a, kind |-> kind, name |-> name, start |-> now + 1, phase |-> Doing(a)]
Started == Len(models) + Cardinality(spans)
           + Cardinality(UNION {{s \in flight[a] : s.kind # "model"} : a \in Agents})

\* agent_state: the agent runs, or no longer does.
Runs(a) ==
  /\ Moment /\ running[a] = None
  /\ running' = [running EXCEPT ![a] = now + 1]
  /\ UNCHANGED <<flight, holding, models, spans, runs, works, open, holds, stages, starts, messages>>

Rests(a) ==
  /\ Moment /\ running[a] # None /\ flight[a] = {}
  /\ runs' = runs \union {[agent |-> a, start |-> running[a], end |-> now + 1]}
  /\ running' = [running EXCEPT ![a] = None]
  /\ UNCHANGED <<flight, holding, models, spans, works, open, holds, stages, starts, messages>>

\* output_started: a call begins, and with it an assignment is picked up.
PickedUp(a) == {w \in Works : ~works[w].picked /\ works[w].who = a /\ works[w].assigned < now + 1}

CallStarts(a) ==
  /\ Moment /\ running[a] # None /\ flight[a] = {} /\ Started < MaxSteps
  /\ flight' = [flight EXCEPT ![a] = {Step(a, "model", Role[a])}]
  /\ models' = Append(models, [agent |-> a, start |-> now + 1, delta |-> None, reasoning |-> None,
                               content |-> None, end |-> None])
  /\ starts' = IF a = Manager THEN starts \union {now + 1} ELSE starts
  /\ works' = [w \in Works |-> IF w \in PickedUp(a) THEN [works[w] EXCEPT !.picked = TRUE] ELSE works[w]]
  /\ stages' = stages \union {[name |-> "picked up", work |-> w, who |-> a,
                               from |-> works[w].assigned, to |-> now + 1] : w \in PickedUp(a)}
  /\ UNCHANGED <<holding, spans, running, runs, open, holds, messages>>

\* output_delta and output_finished, of the call the agent has in flight.  A
\* later delta of a channel marks nothing and is left out.
CallOf(a) == CHOOSE i \in DOMAIN models : models[i].agent = a /\ models[i].end = None

Delta(a, channel) ==
  /\ Moment /\ \E s \in flight[a] : s.kind = "model"
  /\ IF channel = "reasoning" THEN models[CallOf(a)].reasoning = None ELSE models[CallOf(a)].content = None
  /\ LET i == CallOf(a)
         mark(at) == IF at = None THEN now + 1 ELSE at
     IN models' = [models EXCEPT ![i].delta = mark(@),
                                 ![i].reasoning = IF channel = "reasoning" THEN mark(@) ELSE @,
                                 ![i].content = IF channel # "reasoning" THEN mark(@) ELSE @]
  /\ UNCHANGED <<flight, holding, spans, running, runs, works, open, holds, stages, starts, messages>>

CallEnds(a) ==
  /\ Moment /\ \E s \in flight[a] : s.kind = "model"
  /\ models' = [models EXCEPT ![CallOf(a)].end = now + 1]
  /\ flight' = [flight EXCEPT ![a] = {}]
  /\ UNCHANGED <<holding, spans, running, runs, works, open, holds, stages, starts, messages>>

\* tool: the record of a start says nothing to the reader, that of an end all.
ToolStarts(a, n) ==
  /\ Moment /\ running[a] # None /\ Started < MaxSteps
  /\ \A s \in flight[a] : {s.name, n} \subseteq Reads
  /\ flight' = [flight EXCEPT ![a] = @ \union {Step(a, IF n = "wait_for_input" THEN "wait" ELSE "tool", n)}]
  /\ UNCHANGED <<holding, models, spans, running, runs, works, open, holds, stages, starts, messages>>

ToolEnds(a, s) ==
  /\ Moment /\ s \in flight[a] /\ s.kind # "model"
  /\ flight' = [flight EXCEPT ![a] = @ \ {s}]
  /\ spans' = spans \union {[start |-> s.start, end |-> now + 1, agent |-> a, kind |-> s.kind, name |-> s.name]}
  /\ UNCHANGED <<holding, models, running, runs, works, open, holds, stages, starts, messages>>

\* message: someone writes to the manager.
Writes ==
  /\ Moment /\ Cardinality(messages) < 1 /\ messages' = messages \union {now + 1}
  /\ UNCHANGED <<flight, holding, models, spans, running, runs, works, open, holds, stages, starts>>

\* work: a change of the ledger, which the reader takes one work at a time.
Change(w, state, a) ==
  LET at == now + 1
      gone == open[w].from # None /\ (state # "active" \/ open[w].agent # a)
      kept == IF gone THEN [open[w] EXCEPT !.from = None] ELSE open[w]
      taken == state = "active" /\ (works[w].assigned = None \/ works[w].who # a)
  IN /\ holding' = [holding EXCEPT ![w] = [state |-> state, who |-> a]]
     /\ holds' = IF gone THEN Append(holds, [agent |-> open[w].agent, kind |-> WorkKind[w],
                                             from |-> open[w].from, to |-> at])
                 ELSE holds
     /\ open' = [open EXCEPT ![w] = IF state = "active" /\ kept.from = None
                                    THEN [agent |-> a, from |-> at] ELSE kept]
     /\ works' = [works EXCEPT ![w] =
          IF taken THEN [@ EXCEPT !.assigned = at, !.who = a, !.picked = FALSE]
          ELSE IF state = "needs_check" /\ (@.submitted = None \/ WorkKind[w] # "audit")
               THEN [@ EXCEPT !.submitted = at]
          ELSE IF state \in {"delivered", "closed"} THEN [@ EXCEPT !.assigned = None] ELSE @]
     /\ stages' = stages
          \union
          (IF taken /\ WorkKind[w] = "audit" /\ works[Parent[w]].submitted # None
           THEN {[name |-> "audit assigned", work |-> w, who |-> a,
                  from |-> works[Parent[w]].submitted, to |-> at]}
           ELSE {})
          \union
          IF state \in {"needs_check", "delivered", "closed"} /\ works[w].assigned # None
             /\ (state = "needs_check" => works[w].submitted = None \/ WorkKind[w] # "audit")
          THEN {[name |-> state, work |-> w, who |-> works[w].who, from |-> works[w].assigned, to |-> at]}
          ELSE {}
     /\ UNCHANGED <<flight, models, spans, running, runs, starts, messages>>

Free(a) == \A w \in Works : ~(holding[w].state = "active" /\ holding[w].who = a)

WorkChanges ==
  /\ Moment
  /\ \E w \in Works, a \in Agents :
       \/ holding[w].state \in {"none", "needs_check"} /\ Role[a] # "manager" /\ Free(a)
          /\ Change(w, "active", a)
       \/ holding[w].state = "active" /\ holding[w].who # a /\ Role[a] # "manager" /\ Free(a)
          /\ Change(w, "active", a)
       \/ holding[w].state = "active" /\ holding[w].who = a
          /\ \E state \in {"needs_check", "delivered", "closed"} : Change(w, state, a)

-----------------------------------------------------------------------------
(* What AnalyzeTiming makes of the trace when it ends here. *)

End == now
Ends(at) == IF at = None THEN End ELSE at

\* The holds still open and the runs still going end with the trace.
Holds == holds \o SetToSeq({[agent |-> open[w].agent, kind |-> WorkKind[w], from |-> open[w].from, to |-> End] :
                            w \in {v \in Works : open[v].from # None}})
AllRuns == runs \union {[agent |-> a, start |-> running[a], end |-> End] :
                        a \in {b \in Agents : running[b] # None}}

\* phaseOf, of a span: the first hold its start falls into.
PhaseOf(a, start) ==
  IF Role[a] \in {"manager", "debugger"} THEN Role[a]
  ELSE LET in == {i \in DOMAIN Holds : Holds[i].agent = a /\ Holds[i].from <= start /\ start < Holds[i].to}
       IN IF in = {} THEN WrapUp(a) ELSE Phase(a, Holds[Min(in)].kind)

Spans == {[agent |-> s.agent, kind |-> s.kind, name |-> s.name, start |-> s.start, end |-> s.end,
           phase |-> PhaseOf(s.agent, s.start)] :
          s \in spans \union {[start |-> m.start, end |-> Ends(m.end), agent |-> m.agent, kind |-> "model",
                               name |-> Role[m.agent]] : m \in Range(models)}}
RunSpans == {[agent |-> r.agent, kind |-> "run", name |-> "", start |-> r.start, end |-> r.end, phase |-> ""] :
             r \in AllRuns}

\* sweep: what is active between two instants shares the time between them.
Bucket(models_, tools, harness) ==
  IF models_ # {} /\ tools # {} THEN "model+tool"
  ELSE IF models_ # {} THEN "model" ELSE IF tools # {} THEN "tool"
  ELSE IF harness THEN "harness" ELSE "idle"

Kind(active, k) == {s \in active : s.kind = k}
HarnessWhileWaiting(active) == Kind(active, "run") # {}
Harness(active) == {s.agent : s \in Kind(active, "run")} \ {s.agent : s \in Kind(active, "wait")} # {}
BucketOf(active) == Bucket(Kind(active, "model"), Kind(active, "tool"), Harness(active))
PhasesOf(active) == LET busy == Kind(active, "model") \union Kind(active, "tool")
                    IN IF busy = {} THEN {BucketOf(active)} ELSE {s.phase : s \in busy}
Shares(active) == IF Kind(active, "tool") # {} THEN Kind(active, "tool") ELSE Kind(active, "model")

\* What [from, to) adds to each account; the last two give the calls in flight while any is.
Account(active, d) ==
  {[to |-> <<"bucket", BucketOf(active)>>, d |-> d]}
  \union {[to |-> <<"phase", p>>, d |-> d \div Cardinality(PhasesOf(active))] : p \in PhasesOf(active)}
  \union {[to |-> <<s.kind, s.name>>, d |-> (d \div Cardinality(Shares(active)))
             * Cardinality({r \in Shares(active) : r.name = s.name})] : s \in Shares(active)}
  \union {[to |-> <<"calls", c>>, d |-> IF c = "busy" THEN d ELSE d * Cardinality(Kind(active, "model"))] :
          c \in IF Kind(active, "model") # {} THEN {"busy", "in flight"} ELSE {}}

Add(book, entries) == [k \in DOMAIN book \union {e.to : e \in entries} |->
  (IF k \in DOMAIN book THEN book[k] ELSE 0) + SumSet({e.d : e \in {f \in entries : f.to = k}})]

\* The edges in order of time: at an instant, spans close before others open.
Sweep ==
  LET all == {s \in Spans \union RunSpans : s.end > s.start}
      at(s, t) == [active |-> {r \in s.active : r.end # t} \union {r \in all : r.start = t},
                   prev |-> t,
                   book |-> IF t > s.prev THEN Add(s.book, Account(s.active, (t - s.prev) * Unit)) ELSE s.book]
      edges == SelectSeq([i \in 1..End |-> i],
                         LAMBDA t : t = End \/ \E r \in all : t \in {r.start, r.end})
  IN FoldLeft(at, [book |-> << >>, prev |-> 0, active |-> {}], edges).book

\* harnessGaps: between one step of an agent and the next by their starts.
Gaps ==
  {g \in {[agent |-> s.agent, from |-> s.end, to |-> r.start, kind |-> IF s.kind = "model" THEN "dispatch" ELSE "resume"] :
          s \in Spans, r \in Spans} :
     /\ g.from < g.to
     /\ \E s, r \in Spans : s.agent = g.agent /\ r.agent = g.agent /\ s.end = g.from /\ r.start = g.to
          /\ s.start < r.start /\ ~\E q \in Spans : q.agent = g.agent /\ s.start < q.start /\ q.start < r.start
     /\ \E run \in AllRuns : run.agent = g.agent /\ run.start <= g.from /\ g.to <= run.end}

\* The parts of a call, and the manager's answers to its messages.
Parts(m) ==
  [prefill |-> IF m.delta = None THEN 0 ELSE m.delta - m.start,
   reasoning |-> IF m.reasoning = None THEN 0
                 ELSE (IF m.content # None /\ m.content > m.reasoning THEN m.content ELSE Ends(m.end)) - m.reasoning,
   answer |-> IF m.content # None /\ (m.reasoning = None \/ m.content > m.reasoning)
              THEN Ends(m.end) - m.content ELSE 0]
Answers == {[from |-> at, to |-> Min({s \in starts : s > at})] : at \in {t \in messages : \E s \in starts : s > t}}

Next ==
  \/ \E a \in Agents : Runs(a) \/ Rests(a) \/ CallStarts(a) \/ CallEnds(a)
  \/ \E a \in Agents, c \in {"reasoning", "content"} : Delta(a, c)
  \/ \E a \in Agents, n \in Tools : ToolStarts(a, n)
  \/ \E a \in Agents : \E s \in flight[a] : ToolEnds(a, s)
  \/ WorkChanges
  \/ Writes

Spec == Init /\ [][Next]_vars

-----------------------------------------------------------------------------
TypeOK ==
  /\ now \in 0..MaxTime /\ Len(truth) = now
  /\ \A a \in Agents : running[a] \in 0..None

In(book, k) == IF k \in DOMAIN book THEN book[k] ELSE 0
Total(book, account) == FoldSet(LAMBDA k, sum : sum + book[k], 0, {k \in DOMAIN book : k[1] = account})

\* What was really going on in a moment, a tool still running not yet recorded.
TrueBucket(t) == Bucket({s \in t.steps : s.kind = "model"}, {s \in t.steps : s.kind = "tool"},
                        t.run \ {s.agent : s \in {r \in t.steps : r.kind = "wait"}} # {})
TruePhases(t) == LET busy == {s \in t.steps : s.kind # "wait"}
                 IN IF busy = {} THEN {TrueBucket(t)} ELSE {s.phase : s \in busy}
Recorded == \A a \in Agents : \A s \in flight[a] : s.kind = "model"
Sum(f) == FoldFunction(LAMBDA a, b : a + b, 0, f)

\* The buckets and the phases share out the wall clock by what was running at
\* each moment, whatever overlaps and whenever the trace ends; what the roles
\* and the tools are charged adds up to their buckets, and the calls in flight
\* are those that were (Timing's comments, sweep, phaseOf).
WallClockIsAccounted ==
  LET book == Sweep
  IN /\ Total(book, "bucket") = now * Unit /\ Total(book, "phase") = now * Unit
     /\ Total(book, "model") = In(book, <<"bucket", "model">>)
     /\ Total(book, "tool") = In(book, <<"bucket", "tool">>) + In(book, <<"bucket", "model+tool">>)
     /\ Recorded =>
          /\ \A b \in {"model", "model+tool", "tool", "harness", "idle"} :
               In(book, <<"bucket", b>>) = Unit * Cardinality({i \in 1..now : TrueBucket(truth[i]) = b})
          /\ In(book, <<"calls", "in flight">>)
               = Unit * Sum([i \in 1..now |-> Cardinality({s \in truth[i].steps : s.kind = "model"})])
          /\ \A k \in {k \in DOMAIN book : k[1] = "phase"} :
               book[k] = Sum([i \in 1..now |-> IF k[2] \in TruePhases(truth[i])
                                               THEN Unit \div Cardinality(TruePhases(truth[i])) ELSE 0])

\* The parts of a call do not overlap, whichever channel spoke first
\* (AnalyzeTiming, on ModelCall).
CallPartsFit ==
  \A i \in DOMAIN models : LET m == models[i]  p == Parts(m)
                           IN p.prefill + p.reasoning + p.answer <= Ends(m.end) - m.start

\* A work is picked up by the first call its assignee makes after it was
\* assigned, once per assignment, and the manager answers a message with the
\* first call it makes after it (AnalyzeTiming, on output_started and at the end).
StagesAreFirst ==
  /\ \A s \in stages : s.from < s.to
  /\ \A s \in {r \in stages : r.name = "picked up"} :
       /\ ~\E i \in DOMAIN models : models[i].agent = s.who /\ s.from < models[i].start /\ models[i].start < s.to
       /\ ~\E r \in stages \ {s} : r.name = "picked up" /\ r.work = s.work /\ r.from = s.from /\ r.who = s.who
  /\ \A r \in Answers : ~\E s \in starts : r.from < s /\ s < r.to

\* A gap is time an agent was running but neither calling the model nor a tool
\* (the comment on Gap).
GapsAreTheHarness ==
  Recorded => \A g \in Gaps : \A i \in g.from + 1..g.to :
    g.agent \in truth[i].run /\ ~\E s \in truth[i].steps : s.agent = g.agent

\* So it is, as long as an agent takes one step at a time, and then no such
\* time between two steps of a run is missed (harnessGaps).
OneAtATime == \A i \in DOMAIN truth, a \in Agents : Cardinality({s \in truth[i].steps : s.agent = a}) <= 1
GapsBetweenSteps ==
  OneAtATime => /\ GapsAreTheHarness
                /\ Recorded => \A a \in Agents, i \in DOMAIN truth :
                     LET idle(j) == a \in truth[j].run /\ ~\E s \in truth[j].steps : s.agent = a
                         step(j) == \E s \in truth[j].steps : s.agent = a
                     IN idle(i) /\ (\E b, c \in DOMAIN truth : b < i /\ i < c /\ step(b) /\ step(c)
                                     /\ \A j \in b..c : a \in truth[j].run)
                        => \E g \in Gaps : g.agent = a /\ g.from < i /\ i <= g.to

TimingHolds == TypeOK /\ WallClockIsAccounted /\ CallPartsFit /\ StagesAreFirst /\ GapsBetweenSteps
=============================================================================
