----------------------------- MODULE SoloFinish -----------------------------
(***************************************************************************)
(* How a solo agent's exchange ends (harness/finish.go, tester.go).  The   *)
(* harness sees what the agent writes and how its commands end; a reply    *)
(* over an unchecked or failing change is held, and once the facts are     *)
(* clean a tester, if the request asks for one, tries the change in a copy *)
(* of the workspace and sends the failures the harness reproduced.         *)
(***************************************************************************)
EXTENDS Naturals, FiniteSets

CONSTANTS
  Paths, Code,           \* Files, and those a language server covers.
  Checks,                \* soloSpec.ReplyChecks.
  Calls, Failures,       \* testerCalls, testerFailures.
  MaxEdits, MaxSeen, MaxExchanges  \* Bounds: writes, reports of a run, exchanges.

VARIABLES
  pc,        \* Where the exchange is: idle, model, check, tester, calls, done.
  exchanges, edits,
  always,    \* Config.Tester.
  requested, tested, held, changed, ran, failed, \* finishFacts.
  sound,     \* The language server has nothing to report of the change.
  replyChecks,
  run,       \* The tester's run: its calls, its failures, its copy.
  events,    \* The runs published in this exchange.
  holds,     \* The notices of this exchange: what each was about.
  sent       \* The last reply: what it left, and what had been held before it.

vars == <<pc, exchanges, edits, always, requested, tested, held, changed, ran, failed, sound,
          replyChecks, run, events, holds, sent>>

facts == <<changed, ran, failed, sound, edits>>
NoRun == [calls |-> 0, warned |-> FALSE, late |-> "early", seen |-> 0, copy |-> FALSE]
NoReply == [dirty |-> FALSE, facts |-> 0, tests |-> 0, after |-> 0]

Init ==
  /\ pc = "idle" /\ exchanges = 0 /\ edits = 0 /\ always \in BOOLEAN
  /\ requested = FALSE /\ tested = FALSE /\ held = 0
  /\ changed = {} /\ ran = FALSE /\ failed = FALSE /\ sound = TRUE
  /\ replyChecks = 0 /\ run = NoRun /\ events = 0 /\ holds = NoReply /\ sent = NoReply

\* reset: facts are of one exchange, but what the user asked for stays until
\* the user speaks again.
Reset(asked) ==
  /\ changed' = {} /\ ran' = FALSE /\ failed' = FALSE /\ tested' = FALSE /\ held' = 0
  /\ requested' = IF asked = "nothing" THEN requested ELSE always \/ asked = "adversarial"

ExchangeStarts ==
  /\ pc = "idle" /\ exchanges < MaxExchanges
  /\ \E asked \in {"nothing", "plain", "adversarial"} : Reset(asked)
  /\ pc' = "model" /\ exchanges' = exchanges + 1 /\ replyChecks' = 0
  /\ events' = 0 /\ holds' = NoReply /\ sent' = NoReply
  /\ UNCHANGED <<edits, always, sound, run>>

-----------------------------------------------------------------------------
(* The agent's calls, seen by factTool.                                    *)

\* wrote.
Writes(p) ==
  /\ pc = "model" /\ edits < MaxEdits /\ edits' = edits + 1
  /\ changed' = changed \cup {p} /\ ran' = FALSE /\ failed' = FALSE
  /\ sound' \in (IF p \in Code THEN BOOLEAN ELSE {sound})
  /\ UNCHANGED <<pc, exchanges, always, requested, tested, held, replyChecks, run, events, holds, sent>>

\* command: one that ran before any change says nothing; an ending that
\* cannot be read counts as success (shellStatus).
Command ==
  /\ pc = "model" /\ changed # {} /\ ran' = TRUE /\ failed' \in BOOLEAN
  /\ UNCHANGED <<pc, exchanges, edits, always, requested, tested, held, changed, sound,
                 replyChecks, run, events, holds, sent>>

-----------------------------------------------------------------------------
(* The reply: exchange of agent.go, and check.                             *)

Unsound == ~sound /\ changed \cap Code # {}
Dirty == changed # {} /\ (Unsound \/ ~ran \/ failed)
HasCode == changed \cap Code # {}

Send ==
  /\ pc' = "done"
  /\ sent' = [holds EXCEPT !.dirty = Dirty]
Notice(about) ==
  /\ pc' = "model"
  /\ holds' = CASE about = "facts" -> [holds EXCEPT !.facts = @ + 1, !.after = IF holds.tests > 0 THEN @ + 1 ELSE @]
                [] about = "tests" -> [holds EXCEPT !.tests = @ + 1]

\* A reply the agent's checks are used up for goes out as it is.
RepliesUnchecked ==
  /\ pc = "model" /\ replyChecks >= Checks /\ Send
  /\ UNCHANGED <<exchanges, edits, always, requested, tested, held, changed, ran, failed, sound,
                 replyChecks, run, events, holds>>

\* The facts hold a reply once, and once more after the tester's failures.
LimitOfOne == 1
Limit == IF tested THEN 2 ELSE 1

RepliesDirty ==
  /\ pc = "model" /\ replyChecks < Checks /\ Dirty
  /\ replyChecks' = replyChecks + 1
  /\ IF held >= Limit THEN Send /\ UNCHANGED <<held, holds>>
     ELSE held' = held + 1 /\ Notice("facts") /\ UNCHANGED sent
  /\ UNCHANGED <<exchanges, always, requested, tested, run, events>> /\ UNCHANGED facts

\* Clean facts: the tester is used up for the exchange, even when it has
\* nothing to test.
RepliesClean ==
  /\ pc = "model" /\ replyChecks < Checks /\ ~Dirty
  /\ replyChecks' = replyChecks + 1 /\ tested' = (tested \/ requested)
  /\ IF tested \/ ~requested \/ ~HasCode THEN Send ELSE pc' = "tester" /\ UNCHANGED sent
  /\ UNCHANGED <<exchanges, always, requested, held, run, events, holds>> /\ UNCHANGED facts

-----------------------------------------------------------------------------
(* tester.run.                                                             *)

\* A recorded run is served without a copy; the same notice comes of it.
Recorded ==
  /\ pc = "tester" /\ \E n \in 0..MaxSeen : run' = [NoRun EXCEPT !.seen = n]
  /\ pc' = "over"
  /\ UNCHANGED <<exchanges, always, requested, tested, held, replyChecks, events, holds, sent>> /\ UNCHANGED facts

Begins ==
  /\ pc = "tester" /\ run' = [NoRun EXCEPT !.copy = TRUE] /\ pc' = "submit"
  /\ UNCHANGED <<exchanges, always, requested, tested, held, replyChecks, events, holds, sent>> /\ UNCHANGED facts

\* No directory, or the copy fails.
BeginFails ==
  /\ pc = "tester" /\ run' = NoRun /\ pc' = "over"
  /\ UNCHANGED <<exchanges, always, requested, tested, held, replyChecks, events, holds, sent>> /\ UNCHANGED facts

\* The clock: the last quarter of the budget, then its end.
TimePasses ==
  /\ pc \in {"submit", "calls"} /\ run.late # "over"
  /\ run' = [run EXCEPT !.late = IF @ = "early" THEN "late" ELSE "over"]
  /\ UNCHANGED <<pc, exchanges, always, requested, tested, held, replyChecks, events, holds, sent>> /\ UNCHANGED facts

Ends == pc' = "over" /\ run' = [run EXCEPT !.copy = FALSE]

\* One model call: tool calls, a reply, or an error.
Submits ==
  /\ pc = "submit"
  /\ IF run.calls < Calls /\ run.late # "over"
     THEN /\ run' = [run EXCEPT !.calls = @ + 1, !.warned = (@ \/ run.late = "late")]
          /\ pc' = "calls"
     ELSE Ends
  /\ UNCHANGED <<exchanges, always, requested, tested, held, replyChecks, events, holds, sent>> /\ UNCHANGED facts

CallsDone ==
  /\ pc = "calls"
  /\ \/ pc' = "submit" /\ UNCHANGED run
     \/ Ends
  /\ UNCHANGED <<exchanges, always, requested, tested, held, replyChecks, events, holds, sent>> /\ UNCHANGED facts

\* report_failure: the harness runs the command itself.
Reproduced(status) == status # ""

ReportFailure ==
  /\ pc = "calls" /\ run.seen < MaxSeen /\ run.late # "over"
  /\ \E status \in {"", "exited with status 1"} :
       run' = IF Reproduced(status) THEN [run EXCEPT !.seen = @ + 1] ELSE run
  /\ UNCHANGED <<pc, exchanges, always, requested, tested, held, replyChecks, events, holds, sent>> /\ UNCHANGED facts

\* The run is published however it ended, and its first failures go to the agent.
FirstFailures == IF run.seen < Failures THEN run.seen ELSE Failures

Over ==
  /\ pc = "over" /\ events' = events + 1
  /\ IF FirstFailures > 0 THEN Notice("tests") /\ UNCHANGED sent ELSE Send /\ UNCHANGED holds
  /\ UNCHANGED <<exchanges, always, requested, tested, held, replyChecks, run>> /\ UNCHANGED facts

\* An interruption ends the exchange, a run under way with it.
Interrupted ==
  /\ pc \in {"model", "tester", "submit", "calls"}
  /\ pc' = "idle" /\ events' = events + (IF pc = "model" THEN 0 ELSE 1)
  /\ run' = [run EXCEPT !.copy = FALSE]
  /\ UNCHANGED <<exchanges, always, requested, tested, held, replyChecks, holds, sent>> /\ UNCHANGED facts

Delivered ==
  /\ pc = "done" /\ pc' = "idle"
  /\ UNCHANGED <<exchanges, always, requested, tested, held, replyChecks, run, events, holds, sent>> /\ UNCHANGED facts

Next ==
  \/ ExchangeStarts \/ Command \/ RepliesUnchecked \/ RepliesDirty \/ RepliesClean
  \/ Recorded \/ Begins \/ BeginFails \/ TimePasses \/ Submits \/ CallsDone \/ ReportFailure
  \/ Over \/ Interrupted \/ Delivered
  \/ \E p \in Paths : Writes(p)

Spec == Init /\ [][Next]_vars

-----------------------------------------------------------------------------
TypeOK ==
  /\ pc \in {"idle", "model", "tester", "submit", "calls", "over", "done"}
  /\ changed \subseteq Paths /\ held \in 0..2 /\ run.calls \in 0..Calls

\* A reply that leaves an unchecked or failing change was held for it, and
\* again after the tester's failures sent the agent back to change the code
\* (check's comment; session.go: "an unchecked change, the tester's failures,
\* then the fix unchecked").
NoChangeSlips ==
  pc = "done" /\ sent.dirty => sent.facts > 0 /\ (sent.tests > 0 => sent.after > 0)

\* The agent hears of the tester at most once in an exchange, only when it was
\* asked for, and every run is published once.
OneRunAnExchange ==
  /\ events <= 1 /\ holds.tests <= events
  /\ events > 0 => tested /\ requested

\* A copy of the workspace lasts as long as the run in it.
CopyGoes == run.copy => pc \in {"submit", "calls"}

FinishHolds == TypeOK /\ NoChangeSlips /\ OneRunAnExchange /\ CopyGoes
=============================================================================
