------------------------------ MODULE Terminal ------------------------------
(***************************************************************************)
(* The interactive terminal (internal/tui): one update at a time, between  *)
(* a person, a session that runs on its own, the feed of events that says  *)
(* what the session did, and commands whose results arrive later.          *)
(*                                                                         *)
(* The session is external here: its agents wake, consume, reply, rest and *)
(* exit, and each change is published on the feed in the order it was made *)
(* (agent/lifecycle.go, conversation/controller.go).  The terminal learns  *)
(* of a change only by taking the event that tells it, except for /agents, *)
(* which reads the agents as they are at that moment.                      *)
(***************************************************************************)
EXTENDS Naturals, Sequences, FiniteSets

CONSTANTS Agents,       \* the agents of the session
          Manager,      \* the one the person talks to
          MaxRevision,  \* bound: changes of state of one agent
          MaxMessages,  \* bound: messages of the session
          MaxLooks,     \* bound: uses of /agents
          MaxBehind     \* bound: events the terminal is behind before the session moves

VARIABLES
  life,         \* [Agents -> [state, revision]]: what the agents do
  ended,        \* the agents whose loop the controller has seen end
  mail,         \* [Agents -> Seq(Nat)]: the messages queued for each
  messages,     \* how many messages there have been
  feed,         \* the events published and not yet taken by the terminal
  pending,      \* the messages shown as queued
  working,      \* the agents shown as working
  known,        \* [Agents -> [state, revision]]: what the terminal shows
  stopping,     \* interrupting: "no" | "asked" | "done" (the session returned)
  status,       \* "live" | "stopped" (the manager) | "closed" | "quit"
  looks

session == <<life, ended, mail, messages>>
shown   == <<pending, working, known>>
vars    == <<session, feed, shown, stopping, status, looks>>

Exited   == {"stopped", "failed"}
Live(a)  == life[a].state \notin Exited

Event(kind, a, id) == [kind |-> kind, agent |-> a, id |-> id, state |-> "", from |-> a]
StateEvent(a, s, r) == [Event("state", a, r) EXCEPT !.state = s]

TypeOK ==
  /\ \A a \in Agents : life[a].revision \in 1 .. MaxRevision + 2
  /\ pending \subseteq 1 .. MaxMessages
  /\ working \subseteq Agents
  /\ stopping \in {"no", "asked", "done"}
  /\ status \in {"live", "stopped", "closed", "quit"}

Init ==
  /\ life = [a \in Agents |-> [state |-> "idle", revision |-> 1]]
  /\ ended = {}
  /\ mail = [a \in Agents |-> <<>>]
  /\ messages = 0
  /\ feed = <<>>
  /\ pending = {} /\ working = {}
  /\ known = life
  /\ stopping = "no" /\ status = "live"
  /\ looks = 0

-----------------------------------------------------------------------------
(* The session, as the terminal depends on it. *)

ui == <<shown, status, looks>>

Becomes(a, s) ==
  /\ life' = [life EXCEPT ![a] = [state |-> s, revision |-> @.revision + 1]]
  /\ feed' = Append(feed, StateEvent(a, s, life[a].revision + 1))

Near == Len(feed) < MaxBehind
Active == {"running", "pause_requested"}

Moves(a, from, s) ==
  /\ Near /\ life[a].state \in from
  /\ life[a].revision <= MaxRevision
  /\ Becomes(a, s)
  /\ UNCHANGED <<ended, mail, messages, stopping, ui>>

Wakes(a)  == mail[a] # <<>> /\ Moves(a, {"idle", "interrupted"}, "running")
Rests(a)  == Moves(a, {"running"}, "idle")
Parks(a)  == Moves(a, {"pause_requested"}, "paused")

Consumes(a) ==
  /\ Near /\ life[a].state \in Active /\ mail[a] # <<>>
  /\ mail' = [mail EXCEPT ![a] = Tail(@)]
  /\ feed' = Append(feed, Event("consumed", a, Head(mail[a])))
  /\ UNCHANGED <<life, ended, messages, stopping, ui>>

(* A message to an agent: it is published, then its receipt.               *)
Delivered(b, m) == <<Event("message", b, m), Event("queued", b, m)>>
Delivers(b) ==
  /\ messages < MaxMessages
  /\ messages' = messages + 1
  /\ mail' = [mail EXCEPT ![b] = Append(@, messages + 1)]

(* A message of one agent to another.                                      *)
Writes(a, b) ==
  /\ Near /\ life[a].state \in Active /\ a # b /\ Live(b)
  /\ Delivers(b)
  /\ feed' = feed \o Delivered(b, messages + 1)
  /\ UNCHANGED <<life, ended, stopping, ui>>

(* The final reply of the manager goes to the person, that of another agent *)
(* to the manager.  Either way the agent has answered.                     *)
Replies(a) ==
  /\ Near /\ life[a].state \in Active
  /\ IF a = Manager
     THEN /\ messages < MaxMessages /\ messages' = messages + 1
          /\ feed' = Append(feed, Event("reply", a, messages + 1))
          /\ UNCHANGED mail
     ELSE /\ Live(Manager) /\ Delivers(Manager)
          /\ feed' = feed \o <<[Event("reply", Manager, messages + 1) EXCEPT !.from = a],
                                Event("queued", Manager, messages + 1)>>
  /\ UNCHANGED <<life, ended, stopping, ui>>

(* An agent's loop stops, or fails.  Then the controller closes its inbox,  *)
(* and tells the manager of the failure of another agent.                  *)
Ends(a) ==
  /\ Near /\ Live(a)
  /\ \E s \in Exited : Becomes(a, s)
  /\ UNCHANGED <<ended, mail, messages, stopping, ui>>

Drained(a) == [i \in 1 .. Len(mail[a]) |-> Event("undelivered", a, mail[a][i])]

Exits(a) ==
  LET gone == (feed \o Drained(a)) \o <<Event("exited", a, 0)>>
      tells == life[a].state = "failed" /\ a # Manager /\ Live(Manager) IN
  /\ Near /\ ~Live(a) /\ a \notin ended
  /\ ended' = ended \union {a}
  /\ IF tells
     THEN /\ messages < MaxMessages /\ messages' = messages + 1
          /\ mail' = [mail EXCEPT ![a] = <<>>, ![Manager] = Append(@, messages + 1)]
          /\ feed' = gone \o Delivered(Manager, messages + 1)
     ELSE /\ mail' = [mail EXCEPT ![a] = <<>>] /\ feed' = gone
          /\ UNCHANGED messages
  /\ UNCHANGED <<life, stopping, ui>>

(* What is published when agents are interrupted one after the other.      *)
Published(order) ==
  LET all[i \in 0 .. Len(order)] ==
        IF i = 0 THEN <<>>
        ELSE (all[i - 1] \o Drained(order[i]))
               \o <<StateEvent(order[i], "interrupted", life[order[i]].revision + 1)>>
  IN all[Len(order)]

(* The session interrupts every agent and discards what was queued.        *)
Interrupts ==
  LET S == {a \in Agents : Live(a)} IN
  /\ stopping = "asked"
  /\ \A a \in S : life[a].revision <= MaxRevision
  /\ \E order \in [1 .. Cardinality(S) -> S] :
       /\ \A a \in S : \E i \in DOMAIN order : order[i] = a
       /\ feed' = feed \o Published(order)
  /\ life' = [a \in Agents |-> IF a \in S
       THEN [state |-> "interrupted", revision |-> life[a].revision + 1] ELSE life[a]]
  /\ mail' = [a \in Agents |-> IF a \in S THEN <<>> ELSE mail[a]]
  /\ stopping' = "done"
  /\ UNCHANGED <<ended, messages, ui>>

(* session.Interrupt returns an error: nothing was stopped.                *)
InterruptFails ==
  /\ stopping = "asked"
  /\ stopping' = "done"
  /\ UNCHANGED <<session, feed, ui>>

-----------------------------------------------------------------------------
(* The person. *)

Talking == status \notin {"quit"}

(* session.Send, whose receipt is pending at once; a manager that stopped,  *)
(* for the terminal or for the session, refuses it.                        *)
Send ==
  /\ status = "live" /\ Live(Manager)
  /\ Delivers(Manager)
  /\ feed' = feed \o Delivered(Manager, messages + 1)
  /\ pending' = pending \union {messages + 1}
  /\ UNCHANGED <<life, ended, working, known, stopping, status, looks>>

(* /stop, and Escape while there is work to stop.                          *)
Stop ==
  /\ Talking /\ stopping = "no"
  /\ stopping' = "asked"
  /\ UNCHANGED <<session, feed, shown, status, looks>>

StopAnswered ==
  /\ Talking /\ stopping = "done"
  /\ stopping' = "no"
  /\ UNCHANGED <<session, feed, shown, status, looks>>

(* /pause, /resume and /terminate call the session within the update.      *)
Controls(a, from, s) ==
  /\ Talking
  /\ life[a].state \in from /\ life[a].revision <= MaxRevision
  /\ Becomes(a, s)
  /\ UNCHANGED <<ended, mail, messages, stopping, ui>>

Pause(a) == Controls(a, {"idle", "running"}, "pause_requested")
Resume(a) == Controls(a, {"pause_requested", "paused"}, "running")
Terminate(a) == Controls(a, {"idle", "running", "pause_requested", "paused", "interrupted"},
                         "stop_requested")

(* /agents: every agent is inspected, and what the inspection says is what *)
(* the terminal shows from now on, unless it already knew better.          *)
ShowAgents ==
  /\ Talking /\ looks < MaxLooks
  /\ looks' = looks + 1
  /\ known' = [a \in Agents |->
       IF life[a].revision >= known[a].revision THEN life[a] ELSE known[a]]
  /\ UNCHANGED <<session, feed, pending, working, stopping, status>>

Quit ==
  /\ Talking
  /\ status' = "quit"
  /\ UNCHANGED <<session, feed, shown, stopping, looks>>

-----------------------------------------------------------------------------
(* The feed. *)

ObserveState(e) ==
  IF e.id <= known[e.agent].revision
  THEN UNCHANGED <<known, working>>
  ELSE /\ known' = [known EXCEPT ![e.agent] = [state |-> e.state, revision |-> e.id]]
       /\ working' = IF e.state \in Active
                     THEN working \union {e.agent} ELSE working \ {e.agent}

SettledUnlessUndelivered(e) == IF e.kind = "undelivered" THEN pending ELSE pending \ {e.id}
Settled(e) == pending \ {e.id}

Observe ==
  /\ Talking /\ status # "closed" /\ feed # <<>>
  /\ feed' = Tail(feed)
  /\ LET e == Head(feed) IN
       \/ /\ e.kind = "state"
          /\ ObserveState(e)
          /\ UNCHANGED <<pending, status>>
       \/ /\ e.kind \in {"message", "queued"}
          /\ pending' = pending \union {e.id}
          /\ UNCHANGED <<known, working, status>>
       \/ /\ e.kind = "consumed"
          /\ pending' = Settled(e)
          /\ working' = working \union {e.agent}
          /\ UNCHANGED <<known, status>>
       \/ /\ e.kind = "undelivered"
          /\ pending' = Settled(e)
          /\ UNCHANGED <<known, working, status>>
       \/ /\ e.kind = "reply"
          /\ pending' = IF e.from = Manager THEN pending ELSE pending \union {e.id}
          /\ working' = working \ {e.from}
          /\ UNCHANGED <<known, status>>
       \/ /\ e.kind = "exited"
          /\ working' = working \ {e.agent}
          /\ known' = IF known[e.agent].state \in Exited THEN known
                      ELSE [known EXCEPT ![e.agent].state = "stopped"]
          /\ status' = IF e.agent = Manager THEN "stopped" ELSE status
          /\ UNCHANGED pending
  /\ UNCHANGED <<session, stopping, looks>>

(* The subscription ended or failed: nothing more will be observed.        *)
ObservationEnds ==
  /\ Talking /\ status # "closed"
  /\ status' = "closed"
  /\ pending' = {} /\ working' = {}
  /\ UNCHANGED <<session, feed, known, stopping, looks>>

-----------------------------------------------------------------------------
Next ==
  \/ \E a \in Agents : Wakes(a) \/ Rests(a) \/ Parks(a) \/ Consumes(a) \/ Replies(a)
  \/ \E a \in Agents : Ends(a) \/ Exits(a) \/ Pause(a) \/ Resume(a) \/ Terminate(a)
  \/ \E a, b \in Agents : Writes(a, b)
  \/ Interrupts \/ InterruptFails
  \/ Send \/ Stop \/ StopAnswered \/ ShowAgents \/ Quit
  \/ Observe \/ ObservationEnds

Spec == Init /\ [][Next]_vars

-----------------------------------------------------------------------------
(* Once the terminal has taken every event, the messages it counts as      *)
(* queued are the ones no agent has consumed: a message sent, consumed,    *)
(* discarded by a stop or left by an agent that exited is counted once and *)
(* no longer than it waits (sendDraft and observe, tui.go).                *)
QueuedIsWhatWaits ==
  (feed = <<>> /\ status \in {"live", "stopped"}) =>
     pending = UNION {{mail[a][i] : i \in DOMAIN mail[a]} : a \in Agents}

(* Once the terminal has taken every event, an agent it shows as working   *)
(* is at work: "Idle means agents are waiting" (/help, tui.go:388).  The   *)
(* code does not keep this, since /agents may learn of a change before its *)
(* event, which is then ignored.                                           *)
IdleMeansWaiting ==
  (feed = <<>> /\ status \in {"live", "stopped"}) =>
     \A a \in working : life[a].state \in Active
=============================================================================
