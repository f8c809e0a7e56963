------------------------------ MODULE Recorder ------------------------------
(***************************************************************************)
(* The recorder of harness/machine folds a session's events into a         *)
(* timeline, says when the session has settled, and checks the timeline    *)
(* against rules of its own (recorder.go, rules.go, timeline.go).  Beside  *)
(* it a small session that keeps to the harness: a manager, two            *)
(* implementors and an auditor around one implementation.                  *)
(***************************************************************************)
EXTENDS Naturals, Sequences, SequencesExt

CONSTANTS MaxTurns, MaxWrites, MaxWorks, MaxControls
  \* Bounds: user messages, writes, repairs and audits; pauses, stops and failures of agents.

Manager == "m"
Workers == {"w1", "w2"}
Agents == {Manager, "aud"} \cup Workers
Terminal == {"accepted", "closed", "cancelled"}

VARIABLES
  now,       \* Time, in changes of the ledger: the rules compare no finer.
  mail, state, at, controls,
             \* The session: queued messages, agents' states as reported, where in their loops
             \* they are, and how many were paused, stopped or failed.
  work,      \* Work items by number: kind, state, assignee; 1 is the implementation.
  notices,   \* What the ledger is still to send.
  writing,   \* The workers with an open write.
  lost,      \* Those whose work was cancelled during the write.
  rec        \* The recorder.

vars == <<now, mail, state, at, controls, work, notices, writing, lost, rec>>

Idle == [a \in Agents |-> "idle"]
None == [a \in Agents |-> 0]
Empty == [state |-> Idle, open |-> {}, pending |-> None, holding |-> {}, replied |-> FALSE,
          turns |-> 0, unanswered |-> 0, workLog |-> <<>>, writes |-> <<>>]

Init ==
  /\ now = 0 /\ mail = None /\ state = Idle /\ at = [a \in Agents |-> "rest"] /\ controls = 0
  /\ work = <<>> /\ notices = <<>> /\ writing = {} /\ lost = {} /\ rec = Empty

-----------------------------------------------------------------------------
(* Observe, one operator for each event it folds.                          *)

\* A message waits for its reader; the user's makes its reader owe an answer,
\* and any reply to the user settles what its sender owes.
OnMessage(r, m) ==
  [r EXCEPT
    !.pending = IF m.to = "user" THEN @ ELSE [@ EXCEPT ![m.to] = @ + 1],
    !.holding = IF m.from = "user" THEN @ \cup {m.to} ELSE IF m.to = "user" THEN @ \ {m.from} ELSE @,
    !.replied = IF m.from = "user" THEN FALSE ELSE @ \/ m.to = "user",
    !.turns = IF m.from = "user" THEN @ + 1 ELSE @,
    !.unanswered = IF m.from = "user" THEN @ + 1 ELSE IF m.to = "user" THEN 0 ELSE @]
OnConsumed(r, a) == [r EXCEPT !.pending[a] = @ - 1]
OnUndelivered(r, a, n) == [r EXCEPT !.pending[a] = @ - n]
OnState(r, a, s) == [r EXCEPT !.state[a] = s]
OnExited(r, a) == [r EXCEPT !.state[a] = "stopped"]
OnToolStart(r, a) == [r EXCEPT !.open = @ \cup {a}]
OnToolEnd(r, a) == [r EXCEPT !.open = @ \ {a}]
OnWrite(r, a) == [r EXCEPT !.writes = Append(@, [at |-> now, agent |-> a])]

\* A work's state is logged when it changes; the record also carries works
\* that did not change.
OnWork(r, changed) ==
  LET Change(w) == [at |-> now', id |-> w, kind |-> work'[w].kind, assignee |-> work'[w].assignee,
                    from |-> IF w \in DOMAIN work THEN work[w].state ELSE "", to |-> work'[w].state]
      order == SetToSortSeq(changed, LAMBDA v, w : v < w)
  IN [r EXCEPT !.workLog = @ \o [i \in DOMAIN order |-> Change(order[i])]]

-----------------------------------------------------------------------------
(* The session.                                                            *)

Message(from, to) == [from |-> from, to |-> to]
Post(m) == mail' = [mail EXCEPT ![m.to] = @ + 1]
Ended == {"stopped", "failed"}
Live(a) == state[a] \notin Ended \cup {"stop_requested"}  \* It is sent messages.
Parent(a) == IF a = Manager THEN "user" ELSE Manager

Moves(a, s) == state' = [state EXCEPT ![a] = s] /\ rec' = OnState(rec, a, s)
Goes(a, place) == at' = [at EXCEPT ![a] = place]

UserSends ==
  /\ rec.turns < MaxTurns /\ Live(Manager)
  /\ LET m == Message("user", Manager) IN Post(m) /\ rec' = OnMessage(rec, m)
  /\ UNCHANGED <<now, state, at, controls, work, notices, writing, lost>>

\* waitInbox reports that the agent runs before it receives.
Wakes(a) ==
  /\ at[a] = "rest" /\ state[a] = "idle" /\ mail[a] > 0
  /\ Moves(a, "running") /\ Goes(a, "woken")
  /\ UNCHANGED <<now, mail, controls, work, notices, writing, lost>>

\* An agent asked to pause goes on to its next safe point.
GoesOn(a) == state[a] \in {"running", "pause_requested"} /\ a \notin writing
Acts(a) == at[a] = "exchange" /\ GoesOn(a)

Consumes(a) ==
  /\ at[a] \in {"woken", "exchange"} /\ GoesOn(a) /\ mail[a] > 0
  /\ mail' = [mail EXCEPT ![a] = @ - 1] /\ rec' = OnConsumed(rec, a) /\ Goes(a, "exchange")
  /\ UNCHANGED <<now, state, controls, work, notices, writing, lost>>

\* The reply that ends an exchange goes to the agent's parent, which must not have ended.
Replies(a) ==
  /\ Acts(a) /\ Goes(a, "replied")
  /\ LET m == Message(a, Parent(a)) IN
     /\ rec' = OnMessage(rec, m)
     /\ IF a = Manager THEN UNCHANGED mail ELSE Live(Manager) /\ Post(m)
  /\ UNCHANGED <<now, state, controls, work, notices, writing, lost>>

\* The manager waits for the work it has given out instead.
Waits ==
  /\ Acts(Manager)
  /\ \E w \in DOMAIN work : work[w].state \notin Terminal
  /\ Goes(Manager, "replied")
  /\ UNCHANGED <<now, mail, state, controls, work, notices, writing, lost, rec>>

Rests(a) ==
  /\ at[a] \in {"replied", "rest"} /\ state[a] = "running" /\ Goes(a, "rest") /\ Moves(a, "idle")
  /\ UNCHANGED <<now, mail, controls, work, notices, writing, lost>>

\* PauseAgent, ResumeAgent and StopAgent, and an agent that pauses, fails or has stopped.
\* A stop cancels the agent's context before it is reported, so messages are refused.
ControlOf(a, s) == controls < MaxControls /\ controls' = controls + 1 /\ Moves(a, s)
Pause(a) ==
  /\ state[a] \in {"idle", "running"} /\ ControlOf(a, "pause_requested")
  /\ UNCHANGED <<now, mail, at, work, notices, writing, lost>>
Pauses(a) ==
  /\ state[a] = "pause_requested" /\ at[a] # "woken" /\ a \notin writing /\ Moves(a, "paused")
  /\ UNCHANGED <<now, mail, at, controls, work, notices, writing, lost>>
Resume(a) ==
  /\ state[a] \in {"pause_requested", "paused"} /\ Moves(a, "running")
  /\ UNCHANGED <<now, mail, at, controls, work, notices, writing, lost>>
Stop(a) ==
  /\ Live(a) /\ ControlOf(a, "stop_requested")
  /\ UNCHANGED <<now, mail, at, work, notices, writing, lost>>
Fails(a) ==
  /\ Acts(a) /\ ControlOf(a, "failed")
  /\ UNCHANGED <<now, mail, at, work, notices, writing, lost>>
Stops(a) ==
  /\ state[a] = "stop_requested" /\ a \notin writing /\ Moves(a, "stopped")
  /\ UNCHANGED <<now, mail, at, controls, work, notices, writing, lost>>

\* finish: what is queued for the agent is undelivered, and its parent hears of a failure.
Exits(a) ==
  /\ state[a] \in Ended /\ at[a] # "over" /\ Goes(a, "over")
  /\ LET gone == OnExited(OnUndelivered(rec, a, mail[a]), a)
         tells == state[a] = "failed" /\ (a = Manager \/ Live(Manager))
         empty == [mail EXCEPT ![a] = 0] IN
     /\ rec' = IF tells THEN OnMessage(gone, Message(a, Parent(a))) ELSE gone
     /\ mail' = IF tells /\ a # Manager THEN [empty EXCEPT ![Manager] = @ + 1] ELSE empty
  /\ UNCHANGED <<now, state, controls, work, notices, writing, lost>>

\* One step of the ledger: the works it changes, and whom it tells.
Ledger(a, new, changed, told) ==
  /\ Acts(a) /\ now' = now + 1 /\ work' = new /\ rec' = OnWork(rec, changed)
  /\ notices' = IF told = "" THEN notices ELSE Append(notices, [from |-> a, to |-> told])
  /\ lost' = lost \cup {work[w].assignee : w \in {v \in changed \cap DOMAIN work :
                          new[v].state = "cancelled" /\ work[v].assignee \in writing}}
  /\ UNCHANGED <<mail, state, at, controls, writing>>

Item(kind, a) == [kind |-> kind, state |-> "active", assignee |-> a]
Is(w, kind, s) == w \in DOMAIN work /\ work[w].kind = kind /\ work[w].state = s

AssignImplementation == work = <<>> /\ Ledger(Manager, <<Item("implementation", "w1")>>, {1}, "w1")
Submit ==
  Is(1, "implementation", "active") /\ Ledger("w1", [work EXCEPT ![1].state = "needs_check"], {1}, Manager)
AssignAudit ==
  /\ Is(1, "implementation", "needs_check") /\ Len(work) < MaxWorks
  /\ Ledger(Manager, Append([work EXCEPT ![1].state = "checking"], Item("audit", "aud")), {1, Len(work) + 1}, "aud")
Verdict ==
  \E w \in DOMAIN work, s \in {"accepted", "changes_requested"} :
    /\ Is(w, "audit", "active")
    /\ Ledger("aud", [work EXCEPT ![w].state = "closed", ![1].state = s], {1, w}, Manager)
AssignRepair ==
  /\ Is(1, "implementation", "changes_requested") /\ Len(work) < MaxWorks
  /\ \A w \in DOMAIN work : ~Is(w, "repair", "active")
  /\ Ledger(Manager, Append(work, Item("repair", "w2")), {Len(work) + 1}, "w2")
SubmitRepair ==
  \E w \in DOMAIN work :
    /\ Is(w, "repair", "active")
    /\ Ledger("w2", [work EXCEPT ![w].state = "closed", ![1].state = "needs_check"], {1, w}, Manager)
\* An audit withdrawn leaves its implementation to be audited again; an
\* implementation takes what hangs on it along.
Cancel ==
  \E w \in DOMAIN work :
    /\ work[w].state \notin Terminal
    /\ LET along == {v \in DOMAIN work : w = 1 /\ v # 1 /\ work[v].state = "active"}
           s(v) == IF v \in along \cup {w} THEN "cancelled"
                   ELSE IF v = 1 /\ work[w].kind = "audit" THEN "needs_check" ELSE work[v].state
           new == [v \in DOMAIN work |-> [work[v] EXCEPT !.state = s(v)]] IN
       Ledger(Manager, new, {v \in DOMAIN work : new[v] # work[v]}, "")

\* The dispatcher sends what the ledger owes, some time later; one that has ended is sent
\* nothing.
Dispatch ==
  /\ notices # <<>> /\ notices' = Tail(notices)
  /\ LET n == Head(notices)  m == Message(n.from, n.to) IN
     IF Live(n.to) THEN Post(m) /\ rec' = OnMessage(rec, m) ELSE UNCHANGED <<mail, rec>>
  /\ UNCHANGED <<now, state, at, controls, work, writing, lost>>

Holds(a) == \E w \in DOMAIN work : work[w].assignee = a /\ work[w].state = "active"
                                   /\ work[w].kind \in {"implementation", "repair"}
WriteStarts(a) ==
  /\ Acts(a) /\ Holds(a) /\ Len(rec.writes) < MaxWrites
  /\ writing' = writing \cup {a} /\ rec' = OnToolStart(rec, a)
  /\ UNCHANGED <<now, mail, state, at, controls, work, notices, lost>>
\* What changed is found as the call ends.
WriteEnds(a) ==
  /\ a \in writing /\ writing' = writing \ {a}
  /\ rec' = OnToolEnd(OnWrite(rec, a), a)
  /\ UNCHANGED <<now, mail, state, at, controls, work, notices, lost>>

Next ==
  \/ UserSends \/ Waits \/ AssignImplementation \/ Submit \/ AssignAudit \/ Verdict \/ AssignRepair
  \/ SubmitRepair \/ Cancel \/ Dispatch
  \/ \E a \in Agents :
       \/ Wakes(a) \/ Consumes(a) \/ Replies(a) \/ Rests(a)
       \/ Pause(a) \/ Pauses(a) \/ Resume(a) \/ Stop(a) \/ Fails(a) \/ Stops(a) \/ Exits(a)
  \/ \E a \in Workers : WriteStarts(a) \/ WriteEnds(a)

Spec == Init /\ [][Next]_vars

-----------------------------------------------------------------------------
(* What the recorder says of it.                                           *)

\* Faulty variant: an agent asked to pause counts as paused.
BusyUnlessPausing ==
  \/ rec.open # {} \/ \E a \in Agents : rec.state[a] = "running"
  \/ \E a \in Agents : rec.pending[a] > 0 /\ rec.state[a] \notin {"paused"} \cup Ended
Busy ==
  \/ rec.open # {}
  \/ \E a \in Agents :
       \/ rec.state[a] \in {"running", "pause_requested"}
       \/ rec.pending[a] > 0 /\ rec.state[a] \notin {"paused"} \cup Ended
Settled == rec.replied /\ rec.holding = {} /\ ~Busy

\* The state of each work at a time.
StateAt(t) ==
  LET upto(w) == {i \in DOMAIN rec.workLog : rec.workLog[i].id = w /\ rec.workLog[i].at <= t}
      known == {w \in DOMAIN work : upto(w) # {}} IN
  [w \in known |-> rec.workLog[CHOOSE i \in upto(w) : \A j \in upto(w) : j <= i]]

\* Rule 1: the machine of each kind, and the way back from a withdrawn audit.
Machine ==
  [implementation |-> {<<"", "active">>, <<"active", "needs_check">>, <<"needs_check", "checking">>,
                       <<"checking", "accepted">>, <<"checking", "changes_requested">>,
                       <<"changes_requested", "needs_check">>},
   audit |-> {<<"", "active">>, <<"active", "closed">>}, repair |-> {<<"", "active">>, <<"active", "closed">>}]
CheckingSince(i) ==
  {j \in 1..(i - 1) : rec.workLog[j].id = rec.workLog[i].id /\ rec.workLog[j].to = "checking"}
Reaudited(i) ==
  LET c == rec.workLog[i] IN
  /\ c.kind = "implementation" /\ c.from = "checking" /\ c.to = "needs_check"
  /\ \E k \in DOMAIN rec.workLog :
       /\ rec.workLog[k].kind = "audit" /\ rec.workLog[k].to = "cancelled" /\ rec.workLog[k].at <= c.at
       /\ \A j \in CheckingSince(i) : rec.workLog[k].at >= rec.workLog[j].at
MovesAllowed ==
  \A i \in DOMAIN rec.workLog :
    LET c == rec.workLog[i] IN
    c.to = "cancelled" \/ <<c.from, c.to>> \in Machine[c.kind] \/ Reaudited(i)

\* Rule 3: the manager's first assignment, review, audit and acceptance.
Phases == <<"assign", "review", "audit", "accepted">>
Phase(c) ==
  CASE c.kind = "implementation" /\ c.from = "" -> "assign"
    [] c.to = "needs_check" -> "review"
    [] c.kind = "audit" /\ c.from = "" -> "audit"
    [] OTHER -> c.to
PhasesInOrder ==
  \A i \in DOMAIN rec.workLog, n \in 2..Len(Phases) :
    Phase(rec.workLog[i]) = Phases[n] =>
      \E j \in DOMAIN rec.workLog :
        Phase(rec.workLog[j]) = Phases[n - 1] /\ rec.workLog[j].at <= rec.workLog[i].at

\* Rule 1b: who writes holds an implementation, or a repair of it, at the time
\* the write is recorded.
Held(w) ==
  LET s == StateAt(w.at) IN
  \E i \in DOMAIN s : s[i].assignee = w.agent /\ s[i].to = "active" /\ s[i].kind # "audit"

\* Rules 2 and 4: every message of the user has a reply after it.
Answered == rec.unanswered = 0

-----------------------------------------------------------------------------
TypeOK ==
  /\ rec.open \subseteq Agents /\ rec.holding \subseteq {Manager} /\ Len(work) <= MaxWorks
  /\ \A a \in Agents :
       /\ state[a] \in {"idle", "running", "pause_requested", "paused", "stop_requested"} \cup Ended
       /\ at[a] \in {"rest", "woken", "exchange", "replied", "over"}

\* A session said to have settled is at rest: nobody goes on, no tool is open, every message
\* of the user is answered, and what is queued is queued for one that is paused or has ended.
\* Only a person, what the ledger has not sent yet, and the failure of an agent that has not
\* been told yet can wake it, which is why awaitSettled waits on for a while (Settled's
\* comment).
SettledIsQuiet ==
  Settled => /\ \A a \in Agents : ~GoesOn(a) /\ (mail[a] > 0 => state[a] \in {"paused"} \cup Ended)
             /\ writing = {} /\ Answered

\* The ledger of a session keeps to the recorder's machine, whatever is
\* cancelled and audited again, in whatever order a record lists the works.
RecordsKeepRules == MovesAllowed /\ PhasesInOrder

\* A write is recorded under work its writer holds, except one whose work was
\* cancelled while it went on (rule 1b: the change is found as the call ends).
WritesAreHeld ==
  \A i \in DOMAIN rec.writes : Held(rec.writes[i]) \/ rec.writes[i].agent \in lost

RecorderHolds == TypeOK /\ SettledIsQuiet /\ RecordsKeepRules /\ WritesAreHeld
=============================================================================
