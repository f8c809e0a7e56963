------------------------------- MODULE Replay -------------------------------
(***************************************************************************)
(* harness/replay: a recorded session is run again.  Its trace gives the    *)
(* points (gates) the replay must pass in order: model outputs, messages,   *)
(* tool starts and environment calls wait for every earlier point, history  *)
(* appends and consumptions are passed as they happen.  When nothing moves  *)
(* for the stall period, the points nobody waits at are reported and        *)
(* skipped.                                                                 *)
(*                                                                         *)
(* The replayed agents are the program under test: one may reach its points *)
(* late, several at once (the calls of a batch), or never, and its context  *)
(* may end while it waits.                                                  *)
(***************************************************************************)
EXTENDS Naturals, Sequences

CONSTANTS
  Agent,
  User,          \* the host, which sends the user's messages and ends the replay
  Kind,          \* the kinds of records a trace holds
  MaxTrace       \* bounds the records of a trace

VARIABLES
  trace,         \* the recording: records with a kind and who made them
  stands,        \* how far what each gate is about has come
  looks,         \* the waiters whose wake-up is due
  passed, next,
  quiet,         \* how long nothing has moved: "moving", "idle" or "stall"
  skipped,       \* the gates reported as never reached
  cut,           \* the gates acted on because a context ended (the code keeps no record)
  acted,         \* the gates acted on, in order
  crashed

vars == <<trace, stands, looks, passed, next, quiet, skipped, cut, acted, crashed>>

Actor == Agent \cup {User}

\* Open and newPlayer: which records become gates.  An output's own message follows its
\* output, and a failure is reported by the controller, outside the order of sends.
Calls == {"tool", "environment"}
Awaited == {"output", "send", "user"} \cup Calls
Marked == {"append", "consumed"}
IsGate(r) == r.kind \in Awaited \cup Marked

\* A gate is known by the sequence of its record, by which the gates are sorted.
Record(g) == trace[g]
Gate == {g \in DOMAIN trace : IsGate(Record(g))}
Same(g) == {h \in Gate : Record(h).by = Record(g).by /\ Record(h).kind = Record(g).kind}

\* A key no gate has: "end of recording", at which Run waits.
End == Len(trace) + 1
Point == Gate \cup {End}

\* The stands of a point: not reached; in await, at its first look or later; its turn, or its
\* context ended; past await; passed; given up.
InAwait == {"come", "waiting", "leaving", "ending"}
UnderWay == InAwait \cup {"acting"}

FirstOpen(done, from) ==
  CHOOSE n \in from..End : /\ n = End \/ n \in Gate \ done
                           /\ \A k \in Gate \cap from..(n - 1) : k \in done

Waiting == {p \in Point : stands[p] = "waiting"}
Notify == quiet' = "moving" /\ looks' = Waiting

----------------------------------------------------------------------------
\* What is served by its number comes in its order (Submit, sendOrder, sendUsers, Appended): a
\* message that was refused leaves its number to the next.  An agent asks its model when its
\* calls have ended, and calls when its model has answered.
InTurn(g) ==
  LET r == Record(g) IN
  /\ r.kind \in {"output", "send", "user", "append"} =>
       \A h \in Same(g) : h < g => stands[h] \in {"done", "lost"}
  /\ \A h \in Gate : Record(h).by = r.by /\ stands[h] \in UnderWay =>
       /\ r.kind = "output" => Record(h).kind \notin Calls
       /\ r.kind \in Calls => Record(h).kind # "output"

\* Faulty variant: who arrives at its gate does not wait.
ArriveActing(g) ==
  /\ stands[g] = "ahead" /\ Record(g).kind \in Awaited /\ InTurn(g)
  /\ stands' = [stands EXCEPT ![g] = "acting"]
  /\ UNCHANGED <<trace, looks, passed, next, quiet, skipped, cut, acted, crashed>>
\* The first section of await.
Arrive(g) ==
  /\ stands[g] = "ahead" /\ Record(g).kind \in Awaited /\ InTurn(g)
  /\ stands' = [stands EXCEPT ![g] = "come"]
  /\ UNCHANGED <<trace, looks, passed, next, quiet, skipped, cut, acted, crashed>>

\* The gates a stall skips: those from the first open one to the next that is waited at.
Skippable(n) ==
  LET ends == {h \in n..End : h = End \/ (h \in Gate /\ stands[h] \in InAwait)}
      end == CHOOSE h \in ends : \A k \in ends : h <= k
  IN (Gate \cap n..(end - 1)) \ passed

\* A section of the loop of await.  The stall that finds somebody already at the first
\* open gate skips nothing, and reporting the first of no gates ends the process.
Look(p) ==
  LET n == FirstOpen(passed, next)
      turn == n = End \/ n = p
  IN
  /\ stands[p] = "come" \/ (stands[p] = "waiting" /\ p \in looks)
  /\ next' = n
  /\ \/ /\ turn
        /\ stands' = [stands EXCEPT ![p] = "leaving"] /\ looks' = looks \ {p}
        /\ UNCHANGED <<passed, quiet, skipped, crashed>>
     \/ /\ ~turn /\ quiet # "stall"
        /\ stands' = [stands EXCEPT ![p] = "waiting"] /\ looks' = looks \ {p}
        /\ UNCHANGED <<passed, quiet, skipped, crashed>>
     \/ /\ ~turn /\ quiet = "stall" /\ Skippable(n) # {}
        /\ passed' = passed \cup Skippable(n)
        /\ skipped' = skipped \cup Skippable(n)
        /\ Notify
        /\ UNCHANGED <<stands, crashed>>
     \/ /\ ~turn /\ quiet = "stall" /\ Skippable(n) = {}
        /\ crashed' = TRUE
        /\ UNCHANGED <<stands, looks, passed, quiet, skipped>>
  /\ UNCHANGED <<trace, cut, acted>>

\* The select of await finds the context done: the agent was stopped or interrupted, or the
\* caller of Run gave up.
ContextEnds(p) ==
  /\ stands[p] = "waiting"
  /\ stands' = [stands EXCEPT ![p] = "ending"] /\ looks' = looks \ {p}
  /\ UNCHANGED <<trace, passed, next, quiet, skipped, cut, acted, crashed>>

\* The deferred section of await, and what its caller does next.
Leave(p) ==
  /\ stands[p] = "leaving"
  /\ stands' = [stands EXCEPT ![p] = IF p = End THEN "ahead" ELSE "acting"]
  /\ UNCHANGED <<trace, looks, passed, next, quiet, skipped, cut, acted, crashed>>

\* The same with an error.  ToolStart and sendOrder go on regardless; Submit and the call of an
\* environment tool return it, and the gate is never passed; Run ends.
GiveUp(p) ==
  LET goesOn == p # End /\ Record(p).kind \in {"tool", "send"} IN
  /\ stands[p] = "ending"
  /\ cut' = IF goesOn THEN cut \cup {p} ELSE cut
  /\ stands' = [q \in Point |->
       CASE q = p /\ p # End -> IF goesOn THEN "acting" ELSE "lost"
         [] q = End /\ (p = End \/ Record(p).kind = "user") -> "ended"
         [] OTHER -> stands[q]]
  /\ UNCHANGED <<trace, looks, passed, next, quiet, skipped, acted, crashed>>

\* pass, after the output, the send, the tool start or the environment call.
PassGate(g) ==
  /\ passed' = passed \cup {g}
  /\ next' = FirstOpen(passed', next)
  /\ stands' = [stands EXCEPT ![g] = "done"]
  /\ acted' = Append(acted, g)
  /\ Notify

Act(g) ==
  /\ stands[g] = "acting"
  /\ PassGate(g)
  /\ UNCHANGED <<trace, skipped, cut, crashed>>

\* A message the controller refused leaves its gate to the sender's next one; a refused message
\* of the user ends Run.
SendFails(g) ==
  /\ stands[g] = "acting"
  /\ \/ /\ Record(g).kind = "send"
        /\ stands' = [stands EXCEPT ![g] = "ahead"]
     \/ /\ Record(g).kind = "user"
        /\ stands' = [stands EXCEPT ![g] = "lost", ![End] = "ended"]
  /\ cut' = cut \ {g}
  /\ UNCHANGED <<trace, looks, passed, next, quiet, skipped, acted, crashed>>

\* Appended and Consumed wait for nothing.
Mark(g) ==
  /\ stands[g] = "ahead" /\ Record(g).kind \in Marked /\ InTurn(g)
  /\ PassGate(g)
  /\ UNCHANGED <<trace, skipped, cut, crashed>>

\* Submit: the recording has no answer to this call, which is reported.
ExtraCall(a) ==
  /\ \A g \in Gate : Record(g).by = a =>
       /\ Record(g).kind = "output" => stands[g] \in {"done", "lost"}
       /\ Record(g).kind \in Calls => stands[g] \notin UnderWay
  /\ Notify
  /\ UNCHANGED <<trace, stands, passed, next, skipped, cut, acted, crashed>>

\* Time passes; the timers of the waiters all count from the last progress.
TimePasses ==
  /\ quiet # "stall"
  /\ quiet' = IF quiet = "moving" THEN "idle" ELSE "stall"
  /\ looks' = looks \cup Waiting
  /\ UNCHANGED <<trace, stands, passed, next, skipped, cut, acted, crashed>>

\* The loop of Run, after the last user message.
RunPolls ==
  LET n == FirstOpen(passed, next) IN
  /\ stands[End] = "ahead" /\ \A g \in Gate : Record(g).kind = "user" => stands[g] = "done"
  /\ next' = n
  /\ \/ n = End /\ quiet # "moving" /\ stands' = [stands EXCEPT ![End] = "ended"]
     \/ n # End /\ quiet = "stall" /\ stands' = [stands EXCEPT ![End] = "come"]
  /\ UNCHANGED <<trace, looks, passed, quiet, skipped, cut, acted, crashed>>

----------------------------------------------------------------------------
Traces ==
  UNION {[1..n -> [kind : Kind, by : Agent] \cup [kind : {"user"}, by : {User}]] : n \in 1..MaxTrace}

Init ==
  /\ trace \in {t \in Traces : t[1].by = User}
  /\ stands = [p \in Point |-> "ahead"]
  /\ looks = {} /\ passed = {} /\ next = 1 /\ quiet = "moving"
  /\ skipped = {} /\ cut = {} /\ acted = <<>> /\ crashed = FALSE

Next ==
  /\ ~crashed /\ stands[End] # "ended"
  /\ \/ TimePasses \/ RunPolls
     \/ \E p \in Point : Look(p) \/ ContextEnds(p) \/ Leave(p) \/ GiveUp(p)
     \/ \E g \in Gate : Arrive(g) \/ Act(g) \/ SendFails(g) \/ Mark(g)
     \/ \E a \in Agent : ExtraCall(a)

Spec == Init /\ [][Next]_vars

----------------------------------------------------------------------------
\* Unless its context ended while it waited, an awaited point is acted on only when every point
\* recorded before it was passed or is reported as skipped.  So where nothing is reported, all
\* that is acted on after such a point was recorded after it.
OrderOrReport ==
  /\ \A g \in Gate \ cut : stands[g] = "acting" => \A h \in Gate : h < g => h \in passed
  /\ \A h \in passed \ skipped : \E i \in DOMAIN acted : acted[i] = h
  /\ skipped = {} => \A i, j \in DOMAIN acted :
       i < j /\ Record(acted[i]).kind \in Awaited /\ acted[i] \notin cut => acted[i] < acted[j]

\* A tool starts and a message is sent at its place in the recording, or the replay says what it
\* skipped (comments of sequence and sendOrder).  Not so once a context ends: ToolStart and
\* sendOrder ignore the error of await, and act ahead of earlier points without a report.
ActsInPlace ==
  skipped = {} => \A g \in Gate : stands[g] = "acting" => \A h \in Gate : h < g => h \in passed

\* await: when nothing moves, the gates that hold the replay up are reported and skipped.
StallReports == ~crashed
=============================================================================
