------------------------------ MODULE Research ------------------------------
(***************************************************************************)
(* A deep research run (research): a plan of questions, scouts that search,  *)
(* read and make claims at the same time, a synthesis whose claims are        *)
(* verified one by one, and a report.  Calls of the model, tokens, fetches    *)
(* and what is retained have budgets; a quarter of the calls is kept for the  *)
(* report.  Everything is recorded before it counts.                          *)
(***************************************************************************)
EXTENDS Integers, Sequences, FiniteSets, TLC

CONSTANTS Scouts, Urls, Sources, \* Scouts = 1..n, a question each; what reading may find
          ScoutSlots, ModelSlots,
          ModelCalls, Tokens, Reservation, Fetches, Searches, Retention, SourceRoom, \* budgets
          Requirements, MaxRounds, Inferred   \* Inferred: the sources of inferred claims

VARIABLES
  stage,       \* where the run is
  round, depends,
  live,        \* "all", "report" (no time left to acquire) or "none": the contexts
  bound,       \* the assignment is still the one the run was bound to
  scout,       \* what each scout does, and the url it reads
  call,        \* the model call of each thread, 0 is the run's own
  flights,     \* per url: "none", "open", or what it found
  retaining,   \* who holds the sources to retain one; 0 is nobody
  sources, claims,
  spend,       \* calls, charged tokens, searches, fetches, room taken by sources
  retained, recordFailed,
  records,     \* the sources, checkpoints and reports that were recorded
  failed,      \* some step of the run had an error
  draft,       \* the claims that the synthesis selected and that are not verified yet
  report

budget == <<spend, retained>>
log == <<records, recordFailed>>
facts == <<flights, retaining, sources, claims>>
vars == <<stage, round, depends, live, bound, scout, call, facts, budget, log, failed, draft, report>>

Threads == Scouts \cup {0}
NoCall == [place |-> "none", attempt |-> 0, for |-> "none"]
ScoutDone(i) == scout[i].place = "done"

----------------------------------------------------------------------------
(* emit: an event is recorded, or it does not fit and only this step fails,   *)
(* or the recorder fails and the run is over.  A finished report has room.    *)

Fits(kind) == kind = "finished" \/ retained < Retention
Record(kind, what) ==
  /\ ~recordFailed /\ Fits(kind)
  /\ records' = IF kind \in {"source", "checkpoint", "finished"}
                THEN Append(records, [kind |-> kind, what |-> what]) ELSE records
  /\ retained' = IF kind = "finished" THEN retained ELSE retained + 1
  /\ UNCHANGED <<recordFailed, live>>
RecordFails(kind) ==
  \/ (recordFailed \/ ~Fits(kind)) /\ UNCHANGED <<log, retained, live>>
  \/ /\ ~recordFailed /\ Fits(kind)
     /\ recordFailed' = TRUE /\ live' = "none"
     /\ retained' = IF kind = "finished" THEN retained ELSE retained + 1
     /\ UNCHANGED records

----------------------------------------------------------------------------
(* submit: one call of the model, within its budget.                         *)

Terminal(for) == for \in {"synthesize", "verify", "coverage"}
Acquires == live = "all"
May(for) == IF Terminal(for) THEN live # "none" ELSE Acquires
Share(n, for) == IF Terminal(for) THEN n ELSE (n * 3) \div 4

InCall == {t \in Threads : call[t].place = "submitted"}

Affords(for) ==
  /\ spend.calls < Share(ModelCalls, for)
  /\ Reservation <= Share(Tokens, for) - spend.charged

Goes(t, place) == call' = [call EXCEPT ![t].place = place]
Submit(t) ==
  LET for == call[t].for
  IN /\ call[t].place = "wanted"
     /\ \/ /\ Cardinality(InCall) < ModelSlots /\ May(for) /\ bound /\ Affords(for)
           /\ spend' = [spend EXCEPT !.calls = @ + 1, !.charged = @ + Reservation]
           /\ \/ Record("progress", "model") /\ Goes(t, "submitted")
              \/ RecordFails("progress") /\ Goes(t, "failed")
        \/ /\ ~May(for) \/ (Cardinality(InCall) < ModelSlots /\ ~(bound /\ Affords(for)))
           /\ Goes(t, "failed")
           /\ UNCHANGED <<spend, retained, log, live>>
  /\ UNCHANGED <<stage, round, depends, bound, scout, facts, failed, draft, report>>

\* The charge falls to what the call took, if the model says so.  A result that is not
\* valid is asked for once more.
Settle(t, used) ==
  /\ call[t].place = "submitted"
  /\ spend' = [spend EXCEPT !.charged = @ - (Reservation - used)]
  /\ \/ /\ Record("usage", "model")
        /\ \/ May(call[t].for) /\ Goes(t, "answered")
           \/ /\ May(call[t].for) /\ call[t].attempt = 0
              /\ call' = [call EXCEPT ![t].place = "wanted", ![t].attempt = 1]
           \/ Goes(t, "failed")
     \/ RecordFails("usage") /\ Goes(t, "failed")
  /\ UNCHANGED <<stage, round, depends, bound, scout, facts, failed, draft, report>>

Ask(t, for) == call' = [call EXCEPT ![t] = [place |-> "wanted", attempt |-> 0, for |-> for]]
Asked(t, for) == call[t].for = for /\ call[t].place = "answered"
AskFailed(t, for) == call[t].for = for /\ call[t].place = "failed"

----------------------------------------------------------------------------
(* Scouts.                                                                  *)

Scouting(i, place) == scout' = [scout EXCEPT ![i].place = place] /\ UNCHANGED failed
Rests == [place |-> "done", url |-> "none", flew |-> FALSE]
Ends(i) == scout' = [scout EXCEPT ![i] = Rests] /\ failed' = TRUE

\* A scout waits for those it depends on, and then for a slot.
Busy == {i \in Scouts : scout[i].place \notin {"waiting", "done"}}
ScoutStarts(i) ==
  /\ stage = "scouts" /\ scout[i].place = "waiting"
  /\ IF Acquires
     THEN /\ \A j \in depends[i] : ScoutDone(j)
          /\ Cardinality(Busy) < ScoutSlots /\ Scouting(i, "search")
     ELSE Ends(i)
  /\ UNCHANGED <<stage, round, depends, live, bound, call, facts, budget, log, draft, report>>

Search(i) ==
  /\ scout[i].place = "search"
  /\ IF Acquires /\ bound /\ spend.searches < Searches
     THEN /\ spend' = [spend EXCEPT !.searches = @ + 1]
          /\ \/ /\ Record("progress", "search")
                /\ (Scouting(i, "think") /\ Ask(i, "scout")) \/ (Ends(i) /\ UNCHANGED call)
             \/ RecordFails("progress") /\ Ends(i) /\ UNCHANGED call
     ELSE Ends(i) /\ UNCHANGED <<spend, retained, log, live, call>>
  /\ UNCHANGED <<stage, round, depends, bound, facts, draft, report>>

\* What the model chose: claims about sources that are retained, and what to do next.
Claim(s) == [source |-> s, basis |-> IF s \in Inferred THEN "inferred" ELSE "observed",
             verdict |-> "unverified"]
Act(i) ==
  /\ Asked(i, "scout")
  /\ \E S \in SUBSET sources :
       /\ Cardinality(S) <= 1 /\ claims' = claims \cup {Claim(s) : s \in S}
  /\ call' = [call EXCEPT ![i] = NoCall]
  /\ \/ /\ Record("progress", "scout")
        /\ \/ Ends(i)
           \/ scout' = [scout EXCEPT ![i] = Rests] /\ UNCHANGED failed
           \/ Scouting(i, "search")
           \/ \E u \in Urls : /\ scout' = [scout EXCEPT ![i] =
                                               [place |-> "read", url |-> u, flew |-> FALSE]]
                             /\ UNCHANGED failed
     \/ RecordFails("progress") /\ Ends(i)
  /\ UNCHANGED <<stage, round, depends, bound, flights, retaining, sources, spend, draft, report>>

ActFails(i) ==
  /\ AskFailed(i, "scout") /\ Ends(i) /\ call' = [call EXCEPT ![i] = NoCall]
  /\ UNCHANGED <<stage, round, depends, live, bound, facts, budget, log, draft, report>>

\* One of those that want a url flies for it, the others wait for what it finds.
Fetch(i) ==
  /\ scout[i].place = "read" /\ ~scout[i].flew
  /\ LET u == scout[i].url
     IN \/ /\ ~(Acquires /\ bound) /\ Ends(i)
           /\ UNCHANGED <<spend, retained, log, live, call, flights>>
        \/ /\ Acquires /\ bound /\ flights[u] = "none"
           /\ IF spend.fetches < Fetches
              THEN /\ spend' = [spend EXCEPT !.fetches = @ + 1]
                   /\ \/ /\ Record("progress", "read")
                         /\ flights' = [flights EXCEPT ![u] = "open"]
                         /\ scout' = [scout EXCEPT ![i].flew = TRUE] /\ UNCHANGED failed
                      \/ /\ RecordFails("progress") /\ Ends(i)
                         /\ flights' = [flights EXCEPT ![u] = "failed"]
                   /\ UNCHANGED call
              ELSE Ends(i) /\ UNCHANGED <<spend, retained, log, live, call, flights>>
        \/ /\ flights[u] \notin {"none", "open"}
           /\ \/ Scouting(i, "think") /\ Ask(i, "scout")
              \/ flights[u] = "failed" /\ Ends(i) /\ UNCHANGED call
           /\ UNCHANGED <<spend, retained, log, live, flights>>
  /\ UNCHANGED <<stage, round, depends, bound, retaining, sources, claims, draft, report>>

Lands(i, found) ==
  /\ flights' = [flights EXCEPT ![scout[i].url] = found]
  /\ scout' = [scout EXCEPT ![i].place = "read", ![i].flew = FALSE] /\ UNCHANGED failed

\* What was read is retained once, whichever url it was read at, and while there is room;
\* the room is taken before the source is recorded, and stays taken.
Reads(i, alone) ==
  /\ scout[i].place = "read" /\ scout[i].flew
  /\ \/ Lands(i, "failed") /\ UNCHANGED <<retaining, spend>>
     \/ \E s \in Sources :
          /\ Acquires /\ alone
          /\ IF s \in sources THEN Lands(i, s) /\ UNCHANGED <<retaining, spend>>
             ELSE IF spend.room = SourceRoom
             THEN Lands(i, "failed") /\ UNCHANGED <<retaining, spend>>
             ELSE /\ retaining' = i /\ spend' = [spend EXCEPT !.room = @ + 1]
                  /\ Scouting(i, s) /\ UNCHANGED flights
  /\ UNCHANGED <<stage, round, depends, live, bound, call, sources, claims, retained, log, draft,
                 report>>
\* Faulty variant: others retain at the same time.
FetchedTogether(i) == Reads(i, TRUE)
Fetched(i) == Reads(i, retaining = 0)
Retain(i) ==
  /\ scout[i].place \in Sources
  /\ LET s == scout[i].place
     IN \/ Record("source", s) /\ sources' = sources \cup {s} /\ Lands(i, s)
        \/ RecordFails("source") /\ Lands(i, "failed") /\ UNCHANGED sources
  /\ retaining' = 0
  /\ UNCHANGED <<stage, round, depends, bound, call, claims, spend, draft, report>>

----------------------------------------------------------------------------
(* The run.                                                                 *)

NoReport == [status |-> "none", claims |-> {}, covered |-> {}, sources |-> {}]
At(place) == stage' = place
Still == UNCHANGED <<round, depends, bound, flights, retaining, sources>>
Errs == failed' = TRUE

\* Run: the room for the first and the last report is reserved.
Start ==
  /\ stage = "idle"
  /\ \/ Record("started", {}) /\ At("plan") /\ Ask(0, "plan")
     \/ RecordFails("started") /\ At("over") /\ UNCHANGED call
  /\ UNCHANGED <<scout, claims, spend, failed, draft, report>> /\ Still

\* A question depends on earlier ones only; none at all is an answer too.
Plan ==
  /\ stage \in {"plan", "reconcile"} /\ Asked(0, stage)
  /\ call' = [call EXCEPT ![0] = NoCall]
  /\ \/ /\ depends' \in {d \in [Scouts -> SUBSET Scouts] : \A i \in Scouts : \A k \in d[i] : k < i}
        /\ At("scouts")
        /\ scout' = [i \in Scouts |-> [Rests EXCEPT !.place = "waiting"]]
     \/ At("synthesize") /\ UNCHANGED <<depends, scout>>
  /\ UNCHANGED <<round, live, bound, facts, budget, log, failed, draft, report>>
PlanFails ==
  /\ stage \in {"plan", "reconcile"} /\ AskFailed(0, stage)
  /\ call' = [call EXCEPT ![0] = NoCall] /\ At("synthesize") /\ Errs
  /\ UNCHANGED <<live, scout, claims, budget, log, draft, report>> /\ Still

\* When every scout is done, a checkpoint, and another round while there is news.
Checkpoint ==
  /\ stage = "scouts" /\ \A i \in Scouts : ScoutDone(i)
  /\ \/ /\ Record("checkpoint", claims)
        /\ \/ Acquires /\ round < MaxRounds /\ At("reconcile") /\ Ask(0, "reconcile") /\ UNCHANGED failed
           \/ At("synthesize") /\ failed' = (failed \/ ~Acquires) /\ UNCHANGED call
     \/ RecordFails("checkpoint") /\ At("synthesize") /\ Errs /\ UNCHANGED call
  /\ round' = round + 1
  /\ UNCHANGED <<depends, bound, scout, facts, spend, draft, report>>

\* finish: the model selects among the claims, each is verified, and the requirements are
\* held against those that are supported.
Synthesize ==
  /\ stage = "synthesize" /\ call[0] = NoCall
  /\ IF live # "none" /\ claims # {} THEN At("select") /\ Ask(0, "synthesize")
     ELSE At("report") /\ UNCHANGED call
  /\ UNCHANGED <<live, scout, claims, budget, log, failed, draft, report>> /\ Still
Select ==
  /\ stage = "select" /\ Asked(0, "synthesize")
  /\ draft' \in SUBSET claims
  /\ IF draft' = {} THEN At("cover") /\ Ask(0, "coverage") ELSE At("verify") /\ Ask(0, "verify")
  /\ UNCHANGED <<live, scout, claims, budget, log, failed, report>> /\ Still

Supported(c) ==
  \/ c.basis = "observed" /\ c.verdict = "supported"
  \/ c.basis = "inferred" /\ c.verdict = "premises_supported"
Verdicts(c) == {"insufficient"} \cup {v \in {"supported", "premises_supported"} :
                                        Supported([c EXCEPT !.verdict = v])}
\* One batch at a time, here one claim.
Verify ==
  /\ stage = "verify" /\ Asked(0, "verify")
  /\ \E c \in draft : \E v \in Verdicts(c) :
       /\ claims' = (claims \ {c}) \cup {[c EXCEPT !.verdict = v]}
       /\ draft' = draft \ {c}
  /\ \/ /\ Record("checkpoint", claims')
        /\ IF draft' = {} THEN At("cover") /\ Ask(0, "coverage") ELSE Ask(0, "verify") /\ UNCHANGED stage
        /\ UNCHANGED failed
     \/ RecordFails("checkpoint") /\ At("report") /\ Errs /\ call' = [call EXCEPT ![0] = NoCall]
  /\ UNCHANGED <<scout, spend, report>> /\ Still

\* A requirement is met only by claims that are supported.
Accepted == {c \in claims : Supported(c)}
Cover ==
  /\ stage = "cover" /\ Asked(0, "coverage")
  /\ \E R \in SUBSET Requirements :
       /\ R # {} => Accepted # {}
       /\ report' = [report EXCEPT !.covered = R]
  /\ At("report") /\ call' = [call EXCEPT ![0] = NoCall]
  /\ UNCHANGED <<live, scout, claims, budget, log, failed, draft>> /\ Still
FinishFails ==
  /\ \E for \in {"synthesize", "verify", "coverage"} : AskFailed(0, for)
  /\ At("report") /\ call' = [call EXCEPT ![0] = NoCall] /\ Errs
  /\ UNCHANGED <<live, scout, claims, budget, log, draft, report>> /\ Still

\* The last report: complete only if every requirement is met and nothing went wrong.
Finish ==
  /\ stage = "report"
  /\ LET done == /\ Accepted # {} /\ report.covered = Requirements /\ live # "none"
                 /\ ~failed
         last == [claims |-> Accepted, covered |-> report.covered, sources |-> sources,
                  status |-> IF sources = {} THEN "failed"
                             ELSE IF done THEN "complete" ELSE "partial"]
     IN report' = last /\ (Record("finished", last.claims) \/ RecordFails("finished"))
  /\ At("over")
  /\ UNCHANGED <<scout, call, claims, spend, failed, draft>> /\ Still

\* Time runs out, first for acquiring; the caller cancels; the assignment is retired.
AcquireTimeout ==
  /\ stage \notin {"idle", "over"} /\ live = "all" /\ live' = "report"
  /\ UNCHANGED <<stage, scout, call, claims, budget, log, failed, draft, report>> /\ Still
Cancel ==
  /\ stage \notin {"idle", "over"} /\ live # "none" /\ live' = "none"
  /\ UNCHANGED <<stage, scout, call, claims, budget, log, failed, draft, report>> /\ Still
Reassign ==
  /\ bound /\ bound' = FALSE
  /\ UNCHANGED <<stage, round, depends, live, scout, call, facts, budget, log, failed, draft, report>>

Init ==
  /\ stage = "idle" /\ round = 0 /\ depends = [i \in Scouts |-> {}] /\ live = "all" /\ bound = TRUE
  /\ scout = [i \in Scouts |-> [place |-> "done", url |-> "none", flew |-> FALSE]]
  /\ call = [t \in Threads |-> NoCall]
  /\ flights = [u \in Urls |-> "none"] /\ retaining = 0 /\ sources = {} /\ claims = {}
  /\ spend = [calls |-> 0, charged |-> 0, searches |-> 0, fetches |-> 0, room |-> 0] /\ retained = 0
  /\ records = <<>> /\ recordFailed = FALSE /\ failed = FALSE /\ draft = {} /\ report = NoReport

Step ==
  \/ Start \/ Plan \/ PlanFails \/ Checkpoint \/ Synthesize \/ Select \/ Verify \/ Cover
  \/ FinishFails \/ Finish
  \/ \E t \in Threads : Submit(t) \/ \E used \in 1..Reservation : Settle(t, used)
  \/ \E i \in Scouts :
       ScoutStarts(i) \/ Search(i) \/ Act(i) \/ ActFails(i) \/ Fetch(i) \/ Fetched(i) \/ Retain(i)

Next == Step \/ AcquireTimeout \/ Cancel \/ Reassign

Spec == Init /\ [][Next]_vars

----------------------------------------------------------------------------
\* No budget is exceeded, whatever goes on at the same time, and the report's share of the
\* calls is there when the acquisition ends (model.go:103-122).
WithinBudget ==
  /\ spend.calls <= ModelCalls /\ spend.charged <= Tokens
  /\ spend.searches <= Searches /\ spend.fetches <= Fetches /\ retained <= Retention
  /\ Cardinality(sources) <= spend.room /\ spend.room <= SourceRoom
  /\ stage \in {"plan", "scouts", "reconcile"} => spend.calls <= (ModelCalls * 3) \div 4

\* A source is recorded once, and before any claim about it is; nothing is recorded after
\* the last report (engine.go:240-280, scout.go:347-366).
RecordsHold ==
  /\ \A p, q \in 1..Len(records) :
       records[p].kind = "source" /\ records[q] = records[p] => p = q
  /\ \A q \in 1..Len(records) : records[q].kind \in {"checkpoint", "finished"} =>
       \A c \in records[q].what :
         \E p \in 1..(q - 1) : records[p] = [kind |-> "source", what |-> c.source]
  /\ \A p \in 1..Len(records) : records[p].kind = "finished" => p = Len(records)

\* A report claims what was verified, and is complete when that meets what was asked.
ReportIsEarned ==
  /\ \A c \in report.claims : Supported(c) /\ c.source \in report.sources
  /\ report.status = "complete" => report.claims # {} /\ report.covered = Requirements

\* A run that is not over goes on: no scout waits for one that waits for it.
GoesOn == stage # "over" => ENABLED Step

ResearchIsSound == WithinBudget /\ RecordsHold /\ ReportIsEarned /\ GoesOn
=============================================================================
