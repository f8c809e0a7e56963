--------------------------- MODULE SessionControl ---------------------------
(***************************************************************************)
(* How a session is interrupted, continued and closed (harness.Session:    *)
(* Interrupt, Send, Close; workflow.Session: begin, Suspend,               *)
(* SettleInterrupt).  A session has three fences, which these operations   *)
(* set and release in a certain order: the gate, the flag of the workflow, *)
(* and the controller's fence (ExecutionFence, which Conversation          *)
(* implements).  The gate comes first, with a specification of its own.    *)
(*                                                                         *)
(* Sends are serialised by a lock; at most one interruption and one        *)
(* finalization run.                                                       *)
(***************************************************************************)
EXTENDS Naturals, FiniteSets

----------------------------------------------------------------------------
(***************************************************************************)
(* The gate (admission.Gate).  An operation holds a lease while it runs.   *)
(* Suspending the gate refuses new leases and cancels the contexts of      *)
(* those in force, until the gate resumes; sealing it refuses them for     *)
(* good.  The channels drained and done announce that the last lease has   *)
(* ended; a channel that is closed twice panics.                           *)
(***************************************************************************)
CONSTANTS
  Op,      \* operations that may hold a lease
  Limit    \* Gate.limit

ASSUME AdmissionAssumption == Limit \in Nat

VARIABLES
  suspended, sealed,
  ended,       \* the gate's context is done
  leases,      \* the operations that hold a lease
  revoked,     \* those whose context is cancelled
  drained,     \* the channel of the last suspension
  done         \* the channel of the seal

gateVars == <<suspended, sealed, ended, leases, revoked, drained, done>>

\* close of a channel
Closing(channel) == IF channel = "open" THEN "closed" ELSE "panic"

\* Faulty variant: a suspended gate still gives leases.
BeginSuspended(o) ==
  /\ o \notin leases /\ ~sealed /\ ~ended /\ Cardinality(leases) < Limit
  /\ leases' = leases \cup {o}
  /\ UNCHANGED <<suspended, sealed, ended, revoked, drained, done>>

Begin(o) ==
  /\ o \notin leases /\ ~sealed /\ ~ended /\ ~suspended
  /\ Cardinality(leases) < Limit
  /\ leases' = leases \cup {o}
  /\ UNCHANGED <<suspended, sealed, ended, revoked, drained, done>>

\* Faulty variant: only the seal is looked at.
EndUnannounced(o) ==
  /\ o \in leases
  /\ leases' = leases \ {o} /\ revoked' = revoked \ {o}
  /\ drained' = drained
  /\ done' = IF sealed /\ leases' = {} THEN Closing(done) ELSE done
  /\ UNCHANGED <<suspended, sealed, ended>>

\* The release function of a lease.
End(o) ==
  /\ o \in leases
  /\ leases' = leases \ {o} /\ revoked' = revoked \ {o}
  /\ drained' = IF suspended /\ leases' = {} THEN Closing(drained) ELSE drained
  /\ done' = IF sealed /\ leases' = {} THEN Closing(done) ELSE done
  /\ UNCHANGED <<suspended, sealed, ended>>

\* A suspended gate stays as it is.
Suspend ==
  /\ suspended' = TRUE
  /\ IF suspended THEN UNCHANGED <<revoked, drained>>
     ELSE revoked' = leases /\ drained' = IF leases = {} THEN "closed" ELSE "open"
  /\ UNCHANGED <<sealed, ended, leases, done>>

Resume == suspended' = FALSE /\ UNCHANGED <<sealed, ended, leases, revoked, drained, done>>

\* Faulty variant: nobody is told when there is no lease to wait for.
SealUnannounced ==
  /\ sealed' = TRUE
  /\ UNCHANGED <<suspended, ended, leases, revoked, drained, done>>

Seal ==
  /\ sealed' = TRUE
  /\ done' = IF ~sealed /\ leases = {} THEN Closing(done) ELSE done
  /\ UNCHANGED <<suspended, ended, leases, revoked, drained>>

\* The context of the gate is cancelled, and with it that of every lease.
EndContext ==
  /\ ended' = TRUE /\ revoked' = leases
  /\ UNCHANGED <<suspended, sealed, leases, drained, done>>

GateInit ==
  /\ suspended = FALSE /\ sealed = FALSE /\ ended = FALSE
  /\ leases = {} /\ revoked = {}
  /\ drained = "none" /\ done = "open"

GateNext == Suspend \/ Resume \/ Seal \/ EndContext \/ \E o \in Op : Begin(o) \/ End(o)

GateSpec == GateInit /\ [][GateNext]_gateVars

GateType ==
  /\ suspended \in BOOLEAN /\ sealed \in BOOLEAN /\ ended \in BOOLEAN
  /\ leases \subseteq Op /\ revoked \subseteq leases
  /\ drained \in {"none", "open", "closed"} /\ done \in {"open", "closed"}

\* Each channel is closed exactly when its last lease ends: never twice (that would
\* panic), and never not at all (its waiter would wait for ever).
ChannelsExact ==
  /\ suspended => (drained = "closed" <=> leases = {}) /\ drained # "none"
  /\ done = "closed" <=> sealed /\ leases = {}

\* No operation keeps a live context behind a suspension, or behind the end of the
\* session, and there are never more than the limit.
LeasesBounded ==
  /\ suspended \/ ended => revoked = leases
  /\ IsFiniteSet(leases) /\ Cardinality(leases) <= Limit

GateInv == GateType /\ ChannelsExact /\ LeasesBounded

----------------------------------------------------------------------------
(* The session.                                                            *)
CONSTANTS
  Agent,
  send           \* the lease of the Send under way

ASSUME SessionAssumption == send \in Op

VARIABLES
  gate, active,     \* the controller (ExecutionFence)
  open,             \* the controller admits work
  held,             \* workflow.Session.interrupted
  working,          \* the leased operations that were let through
  state,            \* Session.state
  interruption,     \* Session.interruption: "none", "running", "done" or "failed"
  stop,             \* where finishInterruption is, and whether it has an error
  sending,          \* where Send is, and the interruption it retired
  close             \* where finalize is

controller == <<gate, active, open>>
sessionVars == <<held, working, state, interruption, stop, sending, close>>
vars == <<gateVars, controller, sessionVars>>

Conversation == INSTANCE ExecutionFence

Idle == [at |-> "idle", failed |-> FALSE]
NotSending == [at |-> "idle", previous |-> "none", failed |-> FALSE]

----------------------------------------------------------------------------
(* The controller, as its callers know it.                                  *)

AgentStep ==
  /\ \E a \in Agent : (open /\ a \notin active /\ Conversation!Begin(a))
                     \/ (a \in active /\ Conversation!End(a))
  /\ UNCHANGED <<open, gateVars, sessionVars>>

ControllerSettles ==
  /\ Conversation!Settle
  /\ UNCHANGED <<open, gateVars, sessionVars>>

----------------------------------------------------------------------------
(* Operations of agents and of the host (workflow.Session.begin, admitted). *)

BeginOp(o) == o # send /\ Begin(o) /\ UNCHANGED <<controller, sessionVars>>

ExecutionHeld == held \/ gate # "open"

LetThrough(o) ==
  /\ o \in leases \ (working \cup {send})
  /\ ~ExecutionHeld /\ o \notin revoked
  /\ working' = working \cup {o}
  /\ UNCHANGED <<gateVars, controller, held, state, interruption, stop, sending, close>>

EndOp(o) ==
  /\ o # send /\ End(o)
  /\ working' = working \ {o}
  /\ UNCHANGED <<controller, held, state, interruption, stop, sending, close>>

----------------------------------------------------------------------------
(* Interrupt and finishInterruption.                                        *)

Interrupt ==
  /\ state = "open" /\ interruption = "none"
  /\ interruption' = "running"
  /\ held' = TRUE
  /\ Suspend
  /\ stop' = [Idle EXCEPT !.at = "controller"]
  /\ UNCHANGED <<controller, working, state, sending, close>>

\* Controller.Interrupt fences, joins the attempt there is, or is refused.
StopController ==
  /\ stop.at = "controller"
  /\ IF ~open THEN stop' = [at |-> "joining", failed |-> TRUE] /\ UNCHANGED controller
     ELSE IF gate = "open"
     THEN stop' = [stop EXCEPT !.at = "settling"] /\ Conversation!Interrupt /\ UNCHANGED open
     ELSE stop' = [stop EXCEPT !.at = "settling"] /\ UNCHANGED controller
  /\ UNCHANGED <<gateVars, held, working, state, interruption, sending, close>>
\* It answers with an error if the conversation was closed or its root has ended.
ControllerStopped ==
  /\ stop.at = "settling" /\ gate = "held"
  /\ \E failed \in BOOLEAN : stop' = [at |-> "joining", failed |-> failed]
  /\ UNCHANGED <<gateVars, controller, held, working, state, interruption, sending, close>>

\* Faulty variant: the operations under way are not joined.
JoinNobody ==
  /\ stop.at = "joining"
  /\ stop' = [stop EXCEPT !.at = "ledger"]
  /\ UNCHANGED <<gateVars, controller, held, working, state, interruption, sending, close>>

Join ==
  /\ stop.at = "joining" /\ drained = "closed"
  /\ stop' = [stop EXCEPT !.at = "ledger"]
  /\ UNCHANGED <<gateVars, controller, held, working, state, interruption, sending, close>>

\* SettleInterrupt cancels the work under way; then the outcome is published.  Each
\* may fail.
SettleLedger ==
  /\ stop.at = "ledger"
  /\ \E failed \in BOOLEAN : stop' = [at |-> "reporting", failed |-> stop.failed \/ failed]
  /\ UNCHANGED <<gateVars, controller, held, working, state, interruption, sending, close>>

\* The gate resumes only after a success.
Interrupted ==
  /\ stop.at = "reporting" /\ stop' = Idle
  /\ interruption' = IF stop.failed THEN "failed" ELSE "done"
  /\ IF stop.failed THEN UNCHANGED gateVars ELSE Resume
  /\ UNCHANGED <<controller, held, working, state, sending, close>>

----------------------------------------------------------------------------
(* Send.                                                                    *)

SendBegins ==
  /\ sending.at = "idle" /\ Begin(send)
  /\ sending' = [sending EXCEPT !.at = "admitted"]
  /\ UNCHANGED <<controller, held, working, state, interruption, stop, close>>

\* It retires the interruption before it asks the controller; a lease that was
\* cancelled ends here.
SendClears ==
  /\ sending.at = "admitted"
  /\ IF send \in revoked
     THEN sending' = [sending EXCEPT !.at = "leaving"] /\ UNCHANGED <<interruption, held>>
     ELSE /\ sending' = [sending EXCEPT !.at = "routing", !.previous = interruption]
          /\ interruption' = "none"
          /\ held' = IF interruption = "none" THEN held ELSE FALSE
  /\ UNCHANGED <<gateVars, controller, working, state, stop, close>>

\* Faulty variant: the context of the Send is not consulted.
RouteAnyway ==
  /\ sending.at = "routing"
  /\ open /\ gate # "settling"
  /\ gate' = "open" /\ UNCHANGED active
  /\ sending' = [sending EXCEPT !.at = "deciding", !.failed = FALSE]
  /\ UNCHANGED <<gateVars, open, held, working, state, interruption, stop, close>>

\* SendContext releases the controller's fence under its lock, or is refused (the
\* recipient may be unknown or stopped).
Route ==
  /\ sending.at = "routing"
  /\ send \notin revoked /\ open /\ gate # "settling"
  /\ gate' = "open" /\ UNCHANGED active
  /\ sending' = [sending EXCEPT !.at = "deciding", !.failed = FALSE]
  /\ UNCHANGED <<gateVars, open, held, working, state, interruption, stop, close>>
\* The message could not be published: the event log has failed.
RouteUnpublished ==
  /\ sending.at = "routing"
  /\ send \notin revoked /\ open /\ gate # "settling"
  /\ gate' = "open" /\ open' = FALSE /\ UNCHANGED active
  /\ sending' = [sending EXCEPT !.at = "deciding", !.failed = TRUE]
  /\ UNCHANGED <<gateVars, held, working, state, interruption, stop, close>>
RouteRefused ==
  /\ sending.at = "routing"
  /\ sending' = [sending EXCEPT !.at = "deciding", !.failed = TRUE]
  /\ UNCHANGED <<gateVars, controller, held, working, state, interruption, stop, close>>

\* Faulty variant: a refused Send leaves the interruption retired.
SendForgets ==
  /\ sending.at = "deciding"
  /\ UNCHANGED <<interruption, held>>
  /\ sending' = [sending EXCEPT !.at = "leaving"]
  /\ UNCHANGED <<gateVars, controller, working, state, stop, close>>
\* A Send that was refused restores the interruption it retired, unless there is a
\* new one.
SendDecides ==
  /\ sending.at = "deciding"
  /\ IF sending.failed /\ sending.previous # "none" /\ interruption = "none"
     THEN interruption' = sending.previous /\ held' = TRUE
     ELSE UNCHANGED <<interruption, held>>
  /\ sending' = [sending EXCEPT !.at = "leaving"]
  /\ UNCHANGED <<gateVars, controller, working, state, stop, close>>
SendLeaves ==
  /\ sending.at = "leaving" /\ End(send)
  /\ sending' = NotSending
  /\ UNCHANGED <<controller, held, working, state, interruption, stop, close>>

----------------------------------------------------------------------------
(* Close and finalize.                                                      *)

\* The first call seals the gate; one after a failed cleanup starts again.
CloseBegins ==
  /\ close = "idle" /\ close' = "starting"
  /\ state' = "closing"
  /\ Seal
  /\ UNCHANGED <<controller, held, working, interruption, stop, sending>>

\* An interruption that is not done is waited for before anything is stopped.
FinalizeAwaits ==
  /\ close = "starting" /\ interruption # "running"
  /\ close' = "asking"
  /\ UNCHANGED <<gateVars, controller, held, working, state, interruption, stop, sending>>

\* The agents are asked to leave, and after a while cancelled.
FinalizeAsks ==
  /\ close = "asking" /\ close' = "cancelling" /\ open' = FALSE
  /\ UNCHANGED <<gateVars, gate, active, held, working, state, interruption, stop, sending>>
FinalizeCancels ==
  /\ close = "cancelling" /\ close' = "joining" /\ EndContext
  /\ UNCHANGED <<controller, held, working, state, interruption, stop, sending>>

\* Faulty variant: the operations under way are not joined.
FinalizeUnjoined ==
  /\ close = "joining" /\ close' = "closing"
  /\ UNCHANGED <<gateVars, controller, held, working, state, interruption, stop, sending>>

FinalizeJoins ==
  /\ close = "joining" /\ done = "closed" /\ close' = "closing"
  /\ UNCHANGED <<gateVars, controller, held, working, state, interruption, stop, sending>>
FinalizeCloses ==
  /\ close = "closing" /\ active = {} /\ close' = "cleaning"
  /\ UNCHANGED <<gateVars, controller, held, working, state, interruption, stop, sending>>

\* A cleanup that fails may be tried again.
Finalized ==
  /\ close = "cleaning"
  /\ \/ close' = "closed" /\ state' = "closed"
     \/ close' = "idle" /\ UNCHANGED state
  /\ UNCHANGED <<gateVars, controller, held, working, interruption, stop, sending>>

\* The event log fails: execution is cancelled, and the controller with it.
ExecutionCancelled ==
  /\ ~ended /\ EndContext /\ open' = FALSE
  /\ UNCHANGED <<gate, active, sessionVars>>

----------------------------------------------------------------------------
Init ==
  /\ GateInit /\ Conversation!Init /\ open = TRUE
  /\ held = FALSE /\ working = {} /\ state = "open"
  /\ interruption = "none" /\ stop = Idle /\ sending = NotSending /\ close = "idle"

Stopping ==
  StopController \/ ControllerStopped \/ Join \/ SettleLedger \/ Interrupted
Sending == SendClears \/ Route \/ RouteUnpublished \/ RouteRefused \/ SendDecides \/ SendLeaves
Finalizing ==
  FinalizeAwaits \/ FinalizeAsks \/ FinalizeCancels \/ FinalizeJoins \/ FinalizeCloses
  \/ Finalized

Next ==
  \/ AgentStep \/ ControllerSettles
  \/ \E o \in Op : BeginOp(o) \/ LetThrough(o) \/ EndOp(o)
  \/ Interrupt \/ Stopping
  \/ SendBegins \/ Sending
  \/ CloseBegins \/ Finalizing
  \/ ExecutionCancelled

\* The goroutines run; an agent, or an operation, whose context is cancelled or that
\* is asked to leave ends (agents: InterruptionSettles and CloseCompletes of
\* Conversation).
AgentLeaves == (gate # "open" \/ ~open) /\ \E a \in active : Conversation!End(a)
                /\ UNCHANGED <<open, gateVars, sessionVars>>
RevokedEnds == \E o \in revoked : EndOp(o)
Fairness ==
  /\ WF_vars(AgentLeaves) /\ WF_vars(ControllerSettles) /\ WF_vars(RevokedEnds)
  /\ WF_vars(Stopping) /\ WF_vars(Sending) /\ WF_vars(Finalizing)

Spec == Init /\ [][Next]_vars /\ Fairness

----------------------------------------------------------------------------
(* What a session promises.                                                 *)

TypeOK ==
  /\ GateType
  /\ gate \in {"open", "settling", "held"} /\ active \subseteq Agent /\ open \in BOOLEAN
  /\ held \in BOOLEAN /\ working \subseteq leases \ {send}
  /\ state \in {"open", "closing", "closed"}
  /\ interruption \in {"none", "running", "done", "failed"}
  /\ interruption = "running" <=> stop.at # "idle"
  /\ send \in leases <=> sending.at # "idle"

\* Whoever uses the gate in this order keeps its channels exact and its leases
\* revoked (admission.Gate under Interrupt, Send and Close).
GateHolds == TypeOK /\ ChannelsExact /\ LeasesBounded

\* An interruption that is done holds: all three fences agree, no operation is at
\* work, and only the gate is open again, for the Send that continues.  One that
\* failed never reopens the gate (finishInterruption, begin).
StopHolds ==
  /\ interruption = "done" /\ open =>
       held /\ gate = "held" /\ working = {} /\ active = {} /\ ~suspended
  /\ interruption = "failed" => suspended

\* The controller's fence never stands with no interruption to account for it, except
\* while a Send decides: a Send that is refused leaves the session as it was.
FenceAccounted ==
  gate = "held" /\ open /\ sending.at \notin {"routing", "deciding"} =>
    interruption # "none"

\* When the interruption cancels the work in the ledger it runs alone: every operation
\* that was admitted has ended and no agent executes (finishInterruption).
SettlesAlone ==
  stop.at \in {"ledger", "reporting"} => leases = {} /\ (open => active = {})

\* A session that says it is closed has nothing left that runs (finalize).
ClosedIsQuiet == state = "closed" => leases = {} /\ active = {} /\ stop.at = "idle"

\* The fences of a session agree, through interruptions, Sends and a close in any order.
ControlHolds == GateHolds /\ StopHolds /\ FenceAccounted /\ SettlesAlone /\ ClosedIsQuiet

\* An interruption ends, and so does an attempt to close, whatever else is asked.
RequestsComplete ==
  /\ interruption = "running" ~> interruption # "running"
  /\ close = "starting" ~> close \in {"idle", "closed"}
=============================================================================
