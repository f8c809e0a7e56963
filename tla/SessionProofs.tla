---------------------------- MODULE SessionProofs ----------------------------
(***************************************************************************)
(* What holds of the parts under a session, for any operations, agents,     *)
(* records, publishers and limits.  Four parts follow one another:          *)
(*   - the gate (SessionControl), from its own invariant;                   *)
(*   - the control of the session (SessionControl), from SessionInv: to     *)
(*     know that a finished interruption holds, one needs to know how far   *)
(*     each of the three protocols (interruption, Send, Close) has come,    *)
(*     and what the fences are at that point;                               *)
(*   - the ledger: what WorkLedgerProofs proves, carried over to MCSession, *)
(*     which composes the parts under a session;                            *)
(*   - the event log (EventLog), from LogInv.                               *)
(***************************************************************************)
EXTENDS MCSession, Integers, Sequences, FiniteSetTheorems, TLAPS

----------------------------------------------------------------------------
(* The gate.  It closes each of its channels exactly once, when the last    *)
(* lease ends; the lemmas say it for each method.                           *)

(***************************************************************************)
(* A gate that is created satisfies the invariant (New).                   *)
(***************************************************************************)
LEMMA GateInitially == GateInit => GateInv
<1> SUFFICES ASSUME GateInit PROVE GateInv
  OBVIOUS
<1>1. IsFiniteSet(leases) /\ Cardinality(leases) <= Limit
  <2>1. IsFiniteSet({}) /\ Cardinality({}) = 0
    BY FS_EmptySet
  <2>2. leases = {}
    BY DEF GateInit
  <2> QED
    BY <2>1, <2>2, AdmissionAssumption
<1>2. GateType /\ ChannelsExact
  BY DEF GateInit, GateType, ChannelsExact
<1> QED
  BY <1>1, <1>2 DEF GateInit, GateInv, LeasesBounded

(***************************************************************************)
(* Begin gives a lease below the limit, and only when there is no          *)
(* suspension, no seal and a live context: no channel can be due.          *)
(***************************************************************************)
LEMMA BeginKeeps ==
  ASSUME GateInv, NEW o \in Op, Begin(o)
  PROVE  GateInv'
<1>1. IsFiniteSet(leases') /\ Cardinality(leases') <= Limit
  <2>1. /\ IsFiniteSet(leases) /\ o \notin leases
        /\ leases' = leases \cup {o} /\ Cardinality(leases) < Limit
    BY DEF GateInv, LeasesBounded, Begin
  <2>2. /\ IsFiniteSet(leases \cup {o})
        /\ Cardinality(leases \cup {o}) = Cardinality(leases) + 1
    BY <2>1, FS_AddElement
  <2>3. Cardinality(leases) \in Nat
    BY <2>1, FS_CardinalityType
  <2> QED
    BY <2>1, <2>2, <2>3, AdmissionAssumption
<1>2. GateType' /\ ChannelsExact'
  BY DEF GateInv, GateType, ChannelsExact, Begin
<1> QED
  BY <1>1, <1>2 DEF GateInv, LeasesBounded, Begin

(***************************************************************************)
(* The release of the last lease closes the channels that are due, which   *)
(* the invariant says are still open: no release closes one twice.         *)
(***************************************************************************)
LEMMA EndKeeps ==
  ASSUME GateInv, NEW o \in Op, End(o)
  PROVE  GateInv'
<1>1. IsFiniteSet(leases') /\ Cardinality(leases') <= Limit
  <2>1. /\ IsFiniteSet(leases) /\ o \in leases
        /\ leases' = leases \ {o} /\ Cardinality(leases) <= Limit
    BY DEF GateInv, LeasesBounded, End
  <2>2. /\ IsFiniteSet(leases \ {o})
        /\ Cardinality(leases \ {o}) = Cardinality(leases) - 1
    BY <2>1, FS_RemoveElement
  <2>3. Cardinality(leases) \in Nat
    BY <2>1, FS_CardinalityType
  <2> QED
    BY <2>1, <2>2, <2>3, AdmissionAssumption
<1>2. GateType' /\ ChannelsExact'
  BY DEF GateInv, GateType, ChannelsExact, End, Closing
<1> QED
  BY <1>1, <1>2 DEF GateInv, LeasesBounded, End

(***************************************************************************)
(* The methods that move no lease.                                         *)
(***************************************************************************)
LEMMA ControlKeeps ==
  ASSUME GateInv, Suspend \/ Resume \/ Seal \/ EndContext \/ UNCHANGED gateVars
  PROVE  GateInv'
<1>1. CASE Suspend
  BY <1>1 DEF GateInv, GateType, ChannelsExact, LeasesBounded, Suspend
<1>2. CASE Resume
  BY <1>2 DEF GateInv, GateType, ChannelsExact, LeasesBounded, Resume
<1>3. CASE Seal
  BY <1>3 DEF GateInv, GateType, ChannelsExact, LeasesBounded, Seal, Closing
<1>4. CASE EndContext
  BY <1>4 DEF GateInv, GateType, ChannelsExact, LeasesBounded, EndContext
<1>5. CASE UNCHANGED gateVars
  BY <1>5 DEF GateInv, GateType, ChannelsExact, LeasesBounded, gateVars
<1> QED
  BY <1>1, <1>2, <1>3, <1>4, <1>5

(***************************************************************************)
(* So does every step of whatever uses the gate.                           *)
(***************************************************************************)
LEMMA GateStep ==
  ASSUME GateInv, [GateNext]_gateVars
  PROVE  GateInv'
<1>1. CASE Suspend \/ Resume \/ Seal \/ EndContext \/ UNCHANGED gateVars
  BY <1>1, ControlKeeps
<1>2. CASE \E o \in Op : Begin(o) \/ End(o)
  BY <1>2, BeginKeeps, EndKeeps
<1> QED
  BY <1>1, <1>2 DEF GateNext

(***************************************************************************)
(* However its methods are called, no channel of the gate is closed twice  *)
(* and none that is due stays open, no lease outlives a suspension with a  *)
(* live context, and the limit holds (admission.Gate).                     *)
(***************************************************************************)
THEOREM GateInvariant == GateSpec => []GateInv
<1>1. GateInit => GateInv
  BY GateInitially
<1>2. GateInv /\ [GateNext]_gateVars => GateInv'
  BY GateStep
<1> QED
  BY <1>1, <1>2, PTL DEF GateSpec

----------------------------------------------------------------------------
(* The session.                                                             *)

\* The values of the session's own variables.
SessionType ==
  /\ gate \in {"open", "settling", "held"} /\ active \subseteq Agent /\ open \in BOOLEAN
  /\ held \in BOOLEAN /\ working \subseteq leases \ {send}
  /\ state \in {"open", "closing", "closed"}
  /\ interruption \in {"none", "running", "done", "failed"}
  /\ stop \in [at : {"idle", "controller", "settling", "joining", "ledger", "reporting"},
               failed : BOOLEAN]
  /\ sending \in [at : {"idle", "admitted", "routing", "deciding", "leaving"},
                  previous : {"none", "done"}, failed : BOOLEAN]
  /\ close \in {"idle", "starting", "asking", "cancelling", "joining", "closing",
                "cleaning", "closed"}
  /\ interruption = "running" <=> stop.at # "idle"
  /\ send \in leases <=> sending.at # "idle"

\* What the fences are while an interruption goes on, and after it.
StopInv ==
  /\ interruption = "running" => held
  /\ suspended <=> interruption \in {"running", "failed"}
  /\ gate = "held" => active = {}
  /\ stop.at = "settling" /\ open => gate # "open"
  /\ stop.at \in {"joining", "ledger", "reporting"} /\ open => gate = "held"
  /\ stop.at \in {"ledger", "reporting"} => leases = {}
  /\ interruption = "done" /\ open => held /\ gate = "held" /\ working = {}

\* A Send that retired an interruption and was not routed.
Retired ==
  /\ sending.at \in {"routing", "deciding"} /\ sending.previous = "done"
  /\ sending.at = "deciding" => sending.failed

\* While no interruption is recorded, the controller is fenced exactly when a Send has
\* retired one and can still restore it.  A new one waits for that Send to end.
SendInv ==
  /\ interruption = "none" /\ open =>
       IF Retired THEN gate = "held" /\ working = {} ELSE gate = "open"
  /\ sending.at \in {"routing", "deciding"} => interruption # "done"

\* What each stage of finalize has achieved.
CloseInv ==
  /\ close # "idle" => state # "open"
  /\ state = "closed" <=> close = "closed"
  /\ close \notin {"idle", "starting"} => stop.at = "idle"
  /\ close \in {"cancelling", "joining", "closing", "cleaning", "closed"} => ~open
  /\ close \in {"closing", "cleaning", "closed"} => sealed /\ leases = {}
  /\ close \in {"cleaning", "closed"} => active = {}

SessionInv == SessionType /\ StopInv /\ SendInv /\ CloseInv

----------------------------------------------------------------------------
(***************************************************************************)
(* Initially nothing runs and no fence stands.                             *)
(***************************************************************************)
LEMMA SessionInitially == Init => SessionInv
<1> SUFFICES ASSUME Init PROVE SessionInv
  OBVIOUS
<1> USE DEF Init, GateInit, Conversation!Init, Idle, NotSending
<1>1. SessionType
  BY DEF SessionType
<1>2. StopInv /\ CloseInv
  BY DEF StopInv, CloseInv
<1>3. SendInv
  BY DEF SendInv, Retired
<1> QED
  BY <1>1, <1>2, <1>3 DEF SessionInv

(***************************************************************************)
(* A session does nothing to its gate but call its methods.                *)
(***************************************************************************)
LEMMA SessionStepsGate == [Next]_vars => [GateNext]_gateVars
<1> SUFFICES ASSUME [Next]_vars PROVE [GateNext]_gateVars
  OBVIOUS
<1> USE SessionAssumption DEF GateNext
<1>1. CASE AgentStep \/ ControllerSettles
  BY <1>1 DEF AgentStep, ControllerSettles
<1>2. CASE \E o \in Op : BeginOp(o) \/ LetThrough(o) \/ EndOp(o)
  BY <1>2 DEF BeginOp, LetThrough, EndOp
<1>3. CASE Interrupt \/ Stopping
  BY <1>3 DEF Interrupt, Stopping, StopController, ControllerStopped, Join, SettleLedger,
              Interrupted
<1>4. CASE SendBegins \/ Sending
  BY <1>4 DEF SendBegins, Sending, SendClears, Route, RouteUnpublished, RouteRefused,
              SendDecides, SendLeaves
<1>5. CASE CloseBegins \/ Finalizing
  BY <1>5 DEF CloseBegins, Finalizing, FinalizeAwaits, FinalizeAsks, FinalizeCancels,
              FinalizeJoins, FinalizeCloses, Finalized
<1>6. CASE ExecutionCancelled
  BY <1>6 DEF ExecutionCancelled
<1>7. CASE UNCHANGED vars
  BY <1>7 DEF vars
<1> QED
  BY <1>1, <1>2, <1>3, <1>4, <1>5, <1>6, <1>7 DEF Next

(***************************************************************************)
(* What the session relies on its gate for: no lease survives a suspension *)
(* with a live context, and the channels say that there is none.           *)
(***************************************************************************)
LEMMA GateFacts ==
  ASSUME GateInv
  PROVE  /\ suspended \in BOOLEAN /\ revoked \subseteq leases
         /\ suspended => revoked = leases
         /\ suspended => (drained = "closed" <=> leases = {})
         /\ done = "closed" <=> sealed /\ leases = {}
BY DEF GateInv, GateType, ChannelsExact, LeasesBounded

(***************************************************************************)
(* Agents and the log: an agent can begin an exchange only while the       *)
(* controller is not fenced, so a fence that is held stays quiet.          *)
(***************************************************************************)
LEMMA OperationsKeep ==
  ASSUME GateInv, SessionInv,
         AgentStep \/ ControllerSettles \/ ExecutionCancelled \/ UNCHANGED vars
  PROVE  SessionInv'
<1> USE SessionAssumption, GateFacts
        DEF SessionInv, SessionType, StopInv, SendInv, Retired, CloseInv
<1>1. CASE AgentStep
  BY <1>1
  DEF AgentStep, Conversation!Begin, Conversation!End, controller, sessionVars, gateVars
<1>2. CASE ControllerSettles
  BY <1>2 DEF ControllerSettles, Conversation!Settle, controller, sessionVars, gateVars
<1>3. CASE ExecutionCancelled
  <2>1. SessionType'
    <3>1. open' \in BOOLEAN
      BY <1>3 DEF ExecutionCancelled
    <3>2. UNCHANGED <<leases, gate, active, held, working, state, interruption, stop,
                      sending, close>>
      BY <1>3 DEF ExecutionCancelled, EndContext, sessionVars
    <3> QED
      BY <3>1, <3>2
  <2>2. StopInv'
    BY <1>3 DEF ExecutionCancelled, EndContext, controller, sessionVars, gateVars
  <2>3. SendInv'
    BY <1>3 DEF ExecutionCancelled, EndContext, controller, sessionVars, gateVars
  <2>4. CloseInv'
    BY <1>3 DEF ExecutionCancelled, EndContext, controller, sessionVars, gateVars
  <2> QED
    BY <2>1, <2>2, <2>3, <2>4
<1>4. CASE UNCHANGED vars
  BY <1>4 DEF vars, controller, sessionVars, gateVars
<1> QED
  BY <1>1, <1>2, <1>3, <1>4

(***************************************************************************)
(* Operations: none is let through behind a fence, because each looks at   *)
(* the fences after it has its lease.                                      *)
(***************************************************************************)
LEMMA LeasesKeep ==
  ASSUME GateInv, SessionInv, NEW o \in Op, BeginOp(o) \/ LetThrough(o) \/ EndOp(o)
  PROVE  SessionInv'
<1> USE SessionAssumption, GateFacts
        DEF SessionInv, SessionType, StopInv, SendInv, Retired, CloseInv
<1>1. CASE BeginOp(o)
  BY <1>1 DEF BeginOp, Begin, controller, sessionVars, gateVars
<1>2. CASE LetThrough(o)
  BY <1>2 DEF LetThrough, ExecutionHeld, controller, sessionVars, gateVars
<1>3. CASE EndOp(o)
  BY <1>3 DEF EndOp, End, controller, sessionVars, gateVars
<1> QED
  BY <1>1, <1>2, <1>3

(***************************************************************************)
(* The interruption: each stage is entered with what the one before has    *)
(* made sure of.                                                           *)
(***************************************************************************)
LEMMA StoppingKeeps ==
  ASSUME GateInv, SessionInv, Interrupt \/ Stopping
  PROVE  SessionInv'
<1> USE SessionAssumption, GateFacts
        DEF SessionInv, SessionType, StopInv, SendInv, Retired, CloseInv
<1>1. CASE Interrupt
  BY <1>1 DEF Interrupt, Suspend, Idle, controller, sessionVars, gateVars
<1>2. CASE StopController
  <2>1. SessionType'
    <3>1. /\ stop.at # "idle" /\ stop'.at # "idle"
          /\ stop' \in [at : {"settling", "joining"}, failed : BOOLEAN]
      <4>1. stop.at = "controller" /\ stop.failed \in BOOLEAN
        BY <1>2 DEF StopController
      <4>2. \/ stop' = [at |-> "joining", failed |-> TRUE]
            \/ stop' = [stop EXCEPT !.at = "settling"]
        BY <1>2 DEF StopController
      <4>3. CASE stop' = [at |-> "joining", failed |-> TRUE]
        BY <4>1, <4>3
      <4>4. CASE stop' = [stop EXCEPT !.at = "settling"]
        <5>1. stop'.at = "settling" /\ stop' \in [at : {"settling"}, failed : BOOLEAN]
          BY <4>4
        <5> QED
          BY <4>1, <5>1
      <4> QED
        BY <4>2, <4>3, <4>4
    <3>2. gate' \in {gate, "settling"} /\ UNCHANGED <<active, open>>
      BY <1>2 DEF StopController, Conversation!Interrupt, controller
    <3>3. UNCHANGED <<leases, held, working, state, interruption, sending, close>>
      BY <1>2 DEF StopController, gateVars
    <3>4. stop' \in [at : {"idle", "controller", "settling", "joining", "ledger",
                            "reporting"}, failed : BOOLEAN]
      BY <3>1
    <3>5. gate' \in {"open", "settling", "held"}
      BY <3>2
    <3> QED
      BY <3>1, <3>2, <3>3, <3>4, <3>5
  <2>2. StopInv'
    BY <1>2 DEF StopController, Conversation!Interrupt, controller, sessionVars, gateVars
  <2>3. SendInv'
    BY <1>2 DEF StopController, Conversation!Interrupt, controller, sessionVars, gateVars
  <2>4. CloseInv'
    BY <1>2 DEF StopController, Conversation!Interrupt, controller, sessionVars, gateVars
  <2> QED
    BY <2>1, <2>2, <2>3, <2>4
<1>3. CASE ControllerStopped
  BY <1>3 DEF ControllerStopped, controller, sessionVars, gateVars
<1>4. CASE Join
  BY <1>4 DEF Join, controller, sessionVars, gateVars
<1>5. CASE SettleLedger
  BY <1>5 DEF SettleLedger, controller, sessionVars, gateVars
<1>6. CASE Interrupted
  BY <1>6 DEF Interrupted, Resume, Idle, controller, sessionVars, gateVars
<1> QED
  BY <1>1, <1>2, <1>3, <1>4, <1>5, <1>6 DEF Stopping

(***************************************************************************)
(* Send: it is routed only with a live lease, hence outside a suspension;  *)
(* and one that is refused finds the fences as it left them, unless there  *)
(* is a new interruption.                                                  *)
(***************************************************************************)
LEMMA SendingKeeps ==
  ASSUME GateInv, SessionInv, SendBegins \/ Sending
  PROVE  SessionInv'
<1> USE SessionAssumption, GateFacts
        DEF SessionInv, SessionType, StopInv, SendInv, Retired, CloseInv
<1>1. CASE SendBegins
  BY <1>1 DEF SendBegins, Begin, controller, sessionVars, gateVars
<1>2. CASE SendClears
  <2>1. SessionType'
    <3>1. UNCHANGED <<leases, gate, active, open, working, state, stop, close>>
      BY <1>2 DEF SendClears, controller, gateVars
    <3>2. send \in leases
      BY <1>2 DEF SendClears
    <3>3. CASE send \in revoked
      <4>1. sending' = [sending EXCEPT !.at = "leaving"] /\ UNCHANGED <<interruption, held>>
        BY <1>2, <3>3 DEF SendClears
      <4> QED
        BY <4>1, <3>1, <3>2
    <3>4. CASE send \notin revoked
      <4>1. interruption \in {"none", "done"}
        BY <3>2, <3>4
      <4>2. /\ sending' = [sending EXCEPT !.at = "routing", !.previous = interruption]
            /\ interruption' = "none" /\ held' \in BOOLEAN
        BY <1>2, <3>4 DEF SendClears
      <4> QED
        BY <4>1, <4>2, <3>1, <3>2
    <3> QED
      BY <3>3, <3>4
  <2>2. StopInv'
    BY <1>2 DEF SendClears, controller, sessionVars, gateVars
  <2>3. SendInv'
    BY <1>2 DEF SendClears, controller, sessionVars, gateVars
  <2>4. CloseInv'
    BY <1>2 DEF SendClears, controller, sessionVars, gateVars
  <2> QED
    BY <2>1, <2>2, <2>3, <2>4
<1>3. CASE Route
  <2>1. SessionType'
    <3>1. /\ sending.at = "routing" /\ gate' = "open"
          /\ sending' = [sending EXCEPT !.at = "deciding", !.failed = FALSE]
          /\ UNCHANGED <<leases, active, open, held, working, state, interruption, stop, close>>
      BY <1>3 DEF Route, gateVars
    <3> QED
      BY <3>1
  <2>2. StopInv'
    <3>1. ~suspended /\ interruption \notin {"running", "failed"} /\ stop.at = "idle"
      BY <1>3 DEF Route
    <3>2. /\ gate' = "open" /\ UNCHANGED <<suspended, leases, active, open, held, working>>
          /\ UNCHANGED <<interruption, stop>>
      BY <1>3 DEF Route, gateVars
    <3>3. interruption # "done"
      BY <1>3 DEF Route
    <3> QED
      BY <3>1, <3>2, <3>3
  <2>3. SendInv'
    BY <1>3 DEF Route, controller, sessionVars, gateVars
  <2>4. CloseInv'
    BY <1>3 DEF Route, controller, sessionVars, gateVars
  <2> QED
    BY <2>1, <2>2, <2>3, <2>4
<1>4. CASE RouteUnpublished
  BY <1>4 DEF RouteUnpublished, controller, sessionVars, gateVars
<1>5. CASE RouteRefused
  <2>1. SessionType'
    BY <1>5 DEF RouteRefused, controller, sessionVars, gateVars
  <2>2. StopInv'
    BY <1>5 DEF RouteRefused, controller, sessionVars, gateVars
  <2>3. SendInv'
    BY <1>5 DEF RouteRefused, controller, sessionVars, gateVars
  <2>4. CloseInv'
    BY <1>5 DEF RouteRefused, controller, sessionVars, gateVars
  <2> QED
    BY <2>1, <2>2, <2>3, <2>4
<1>6. CASE SendDecides
  <2>1. SessionType'
    BY <1>6 DEF SendDecides, controller, sessionVars, gateVars
  <2>2. StopInv'
    BY <1>6 DEF SendDecides, controller, sessionVars, gateVars
  <2>3. SendInv'
    BY <1>6 DEF SendDecides, controller, sessionVars, gateVars
  <2>4. CloseInv'
    BY <1>6 DEF SendDecides, controller, sessionVars, gateVars
  <2> QED
    BY <2>1, <2>2, <2>3, <2>4
<1>7. CASE SendLeaves
  BY <1>7 DEF SendLeaves, End, NotSending, controller, sessionVars, gateVars
<1> QED
  BY <1>1, <1>2, <1>3, <1>4, <1>5, <1>6, <1>7 DEF Sending

(***************************************************************************)
(* Close: what a stage has brought to an end cannot begin again, because   *)
(* the gate is sealed and the controller closed by then.                   *)
(***************************************************************************)
LEMMA FinalizingKeeps ==
  ASSUME GateInv, SessionInv, CloseBegins \/ Finalizing
  PROVE  SessionInv'
<1> USE SessionAssumption, GateFacts
        DEF SessionInv, SessionType, StopInv, SendInv, Retired, CloseInv
<1>1. CASE CloseBegins
  BY <1>1 DEF CloseBegins, Seal, controller, sessionVars, gateVars
<1>2. CASE FinalizeAwaits
  BY <1>2 DEF FinalizeAwaits, controller, sessionVars, gateVars
<1>3. CASE FinalizeAsks
  BY <1>3 DEF FinalizeAsks, controller, sessionVars, gateVars
<1>4. CASE FinalizeCancels
  BY <1>4 DEF FinalizeCancels, EndContext, controller, sessionVars, gateVars
<1>5. CASE FinalizeJoins
  BY <1>5 DEF FinalizeJoins, controller, sessionVars, gateVars
<1>6. CASE FinalizeCloses
  BY <1>6 DEF FinalizeCloses, controller, sessionVars, gateVars
<1>7. CASE Finalized
  BY <1>7 DEF Finalized, controller, sessionVars, gateVars
<1> QED
  BY <1>1, <1>2, <1>3, <1>4, <1>5, <1>6, <1>7 DEF Finalizing

(***************************************************************************)
(* The gate of a session behaves as a gate, whatever the session does      *)
(* (harness.Session and admission.Gate).                                   *)
(***************************************************************************)
THEOREM SessionUsesGate == Spec => GateSpec
<1>1. Init => GateInit
  BY DEF Init
<1>2. [Next]_vars => [GateNext]_gateVars
  BY SessionStepsGate
<1> QED
  BY <1>1, <1>2, PTL DEF Spec, GateSpec

(***************************************************************************)
(* The inductive invariant holds in every state.                           *)
(***************************************************************************)
LEMMA SessionInvariant == Spec => [](GateInv /\ SessionInv)
<1>1. Init => SessionInv
  BY SessionInitially
<1>2. GateInv /\ SessionInv /\ [Next]_vars => SessionInv'
  BY OperationsKeep, LeasesKeep, StoppingKeeps, SendingKeeps, FinalizingKeeps DEF Next
<1>3. Spec => []GateInv
  BY SessionUsesGate, GateInvariant
<1> QED
  BY <1>1, <1>2, <1>3, PTL DEF Spec

(***************************************************************************)
(* The gate's channels are exact and its leases revoked under Interrupt,   *)
(* Send and Close in any order.                                            *)
(***************************************************************************)
THEOREM GateAlwaysHolds == Spec => []GateHolds
<1>1. GateInv /\ SessionInv => GateHolds
  BY DEF GateInv, SessionInv, SessionType, GateHolds, TypeOK
<1> QED
  BY <1>1, SessionInvariant, PTL

(***************************************************************************)
(* An interruption that is done holds until a Send is accepted, and one    *)
(* that failed keeps the gate shut (finishInterruption, Send).             *)
(***************************************************************************)
THEOREM StopAlwaysHolds == Spec => []StopHolds
<1>1. GateInv /\ SessionInv => StopHolds
  BY DEF SessionInv, SessionType, StopInv, StopHolds
<1> QED
  BY <1>1, SessionInvariant, PTL

(***************************************************************************)
(* The controller is never fenced without an interruption to account for   *)
(* it, but while a Send decides (Send, its restoration on an error).       *)
(***************************************************************************)
THEOREM FenceAlwaysAccounted == Spec => []FenceAccounted
<1>1. GateInv /\ SessionInv => FenceAccounted
  BY DEF SessionInv, SessionType, SendInv, Retired, FenceAccounted
<1> QED
  BY <1>1, SessionInvariant, PTL

(***************************************************************************)
(* The ledger is settled by an interruption that runs alone.               *)
(***************************************************************************)
THEOREM AlwaysSettlesAlone == Spec => []SettlesAlone
<1>1. GateInv /\ SessionInv => SettlesAlone
  BY DEF SessionInv, StopInv, SettlesAlone
<1> QED
  BY <1>1, SessionInvariant, PTL

(***************************************************************************)
(* A session that says it is closed runs nothing (finalize).               *)
(***************************************************************************)
THEOREM ClosedAlwaysQuiet == Spec => []ClosedIsQuiet
<1>1. GateInv /\ SessionInv => ClosedIsQuiet
  BY DEF SessionInv, CloseInv, ClosedIsQuiet
<1> QED
  BY <1>1, SessionInvariant, PTL

(***************************************************************************)
(* Together: the fences of a session agree, whatever its operations, its   *)
(* agents and the limit of its leases.                                     *)
(***************************************************************************)
THEOREM ControlAlwaysHolds == Spec => []ControlHolds
<1>1. ControlHolds <=> GateHolds /\ StopHolds /\ FenceAccounted /\ SettlesAlone /\ ClosedIsQuiet
  BY Zenon DEF ControlHolds
<1> QED
  BY <1>1, GateAlwaysHolds, StopAlwaysHolds, FenceAlwaysAccounted, AlwaysSettlesAlone,
     ClosedAlwaysQuiet, PTL

(***************************************************************************)
(* The same in the composition: no other part under a session touches what  *)
(* its control is about.                                                    *)
(***************************************************************************)
THEOREM ControlInSession == MCSpec => []ControlHolds
<1>1. MCInit => Init
  BY DEF MCInit
<1>2. [MCNext]_allVars => [Next]_vars
  <2>1. UNCHANGED allVars => UNCHANGED vars
    BY DEF allVars
  <2>2. MCNext => Next \/ UNCHANGED vars
    BY DEF MCNext
  <2> QED
    BY <2>1, <2>2
<1> QED
  BY <1>1, <1>2, ControlAlwaysHolds, PTL DEF MCSpec, Spec

----------------------------------------------------------------------------
(* The ledger under a session: every behaviour of MCSession is one of       *)
(* WorkLedger, which WorkLedgerProofs is about.                             *)

LedgerFacts == INSTANCE WorkLedgerProofs WITH Record <- Item, sending <- announcing, held <-
   awaiting

LEMMA LedgerActions ==
  /\ \A changed, n, owned : Ledger!Mutate(changed, n, owned) <=> LedgerFacts!Mutate(changed, n,
     owned)
  /\ Ledger!Publish <=> LedgerFacts!Publish
  /\ Ledger!PublishFails <=> LedgerFacts!PublishFails
  /\ Ledger!EndMutation <=> LedgerFacts!EndMutation
  /\ Ledger!Wake <=> LedgerFacts!Wake
  /\ Ledger!Tick <=> LedgerFacts!Tick
  /\ Ledger!ReadPending <=> LedgerFacts!ReadPending
  /\ Ledger!HandleAndAcknowledge <=> LedgerFacts!HandleAndAcknowledge
  /\ Ledger!HandleAndHold <=> LedgerFacts!HandleAndHold
  /\ Ledger!Skip <=> LedgerFacts!Skip
  /\ Ledger!Drained <=> LedgerFacts!Drained
  /\ \A id : Ledger!Consumed(id) <=> LedgerFacts!Consumed(id)
  /\ \A id : Ledger!Retire(id) <=> LedgerFacts!Retire(id)
<1>1. \A changed, n, owned : Ledger!Mutate(changed, n, owned) <=> LedgerFacts!Mutate(changed, n,
   owned)
  BY Zenon DEF Ledger!Mutate, LedgerFacts!Mutate, Ledger!Mutable, LedgerFacts!Mutable,
     Ledger!EventsOf, LedgerFacts!EventsOf, Ledger!Nothing, LedgerFacts!Nothing,
     Ledger!dispatchVars, LedgerFacts!dispatchVars
<1>2. Ledger!Publish <=> LedgerFacts!Publish
  BY Zenon DEF Ledger!Publish, LedgerFacts!Publish, Ledger!dispatchVars, LedgerFacts!dispatchVars
<1>3. Ledger!PublishFails <=> LedgerFacts!PublishFails
  BY Zenon DEF Ledger!PublishFails, LedgerFacts!PublishFails, Ledger!dispatchVars,
     LedgerFacts!dispatchVars
<1>4. Ledger!EndMutation <=> LedgerFacts!EndMutation
  BY Zenon DEF Ledger!EndMutation, LedgerFacts!EndMutation, Ledger!dispatchVars,
     LedgerFacts!dispatchVars
<1>5. Ledger!Wake <=> LedgerFacts!Wake
  BY Zenon DEF Ledger!Wake, LedgerFacts!Wake, Ledger!storeVars, LedgerFacts!storeVars
<1>6. Ledger!Tick <=> LedgerFacts!Tick
  BY Zenon DEF Ledger!Tick, LedgerFacts!Tick, Ledger!storeVars, LedgerFacts!storeVars
<1>7. Ledger!ReadPending <=> LedgerFacts!ReadPending
  BY Zenon DEF Ledger!ReadPending, LedgerFacts!ReadPending, Ledger!storeVars,
     LedgerFacts!storeVars, Ledger!PendingEvents, LedgerFacts!PendingEvents
<1>8. Ledger!HandleAndAcknowledge <=> LedgerFacts!HandleAndAcknowledge
  BY Zenon DEF Ledger!HandleAndAcknowledge, LedgerFacts!HandleAndAcknowledge, Ledger!Attempted,
     LedgerFacts!Attempted, Ledger!Acknowledged, LedgerFacts!Acknowledged, Ledger!PositionsOf,
     LedgerFacts!PositionsOf, Ledger!RemoveAt, LedgerFacts!RemoveAt
<1>9. Ledger!HandleAndHold <=> LedgerFacts!HandleAndHold
  BY Zenon DEF Ledger!HandleAndHold, LedgerFacts!HandleAndHold, Ledger!Attempted,
     LedgerFacts!Attempted, Ledger!storeVars, LedgerFacts!storeVars
<1>10. Ledger!Skip <=> LedgerFacts!Skip
  BY Zenon DEF Ledger!Skip, LedgerFacts!Skip, Ledger!Attempted, LedgerFacts!Attempted,
     Ledger!storeVars, LedgerFacts!storeVars
<1>11. Ledger!Drained <=> LedgerFacts!Drained
  BY Zenon DEF Ledger!Drained, LedgerFacts!Drained, Ledger!storeVars, LedgerFacts!storeVars
<1>12. \A id : Ledger!Consumed(id) <=> LedgerFacts!Consumed(id)
  BY Zenon DEF Ledger!Consumed, LedgerFacts!Consumed, Ledger!Acknowledged,
     LedgerFacts!Acknowledged, Ledger!PositionsOf, LedgerFacts!PositionsOf, Ledger!RemoveAt,
     LedgerFacts!RemoveAt
<1>13. \A id : Ledger!Retire(id) <=> LedgerFacts!Retire(id)
  BY Zenon DEF Ledger!Retire, LedgerFacts!Retire, Ledger!Acknowledged, LedgerFacts!Acknowledged,
     Ledger!PositionsOf, LedgerFacts!PositionsOf, Ledger!RemoveAt, LedgerFacts!RemoveAt
<1> QED
  BY <1>1, <1>2, <1>3, <1>4, <1>5, <1>6, <1>7, <1>8, <1>9, <1>10, <1>11, <1>12, <1>13

LEMMA LedgerSteps ==
  /\ MCInit => LedgerFacts!Init
  /\ [MCNext]_allVars => [LedgerFacts!Next]_LedgerFacts!vars
<1>1. MCInit => LedgerFacts!Init
  BY DEF MCInit, Ledger!Init, LedgerFacts!Init
<1>2. ASSUME Ledger!Next PROVE LedgerFacts!Next
  <2>1. CASE Ledger!Mutation
    BY <2>1, LedgerActions DEF Ledger!Mutation, LedgerFacts!Next, LedgerFacts!Mutation
  <2>2. CASE Ledger!Dispatching
    BY <2>2, LedgerActions DEF Ledger!Dispatching, LedgerFacts!Next, LedgerFacts!Dispatching
  <2> QED
    BY <1>2, <2>1, <2>2, LedgerActions DEF Ledger!Next, LedgerFacts!Next
<1>3. ASSUME UNCHANGED ledgerVars PROVE UNCHANGED LedgerFacts!vars
  BY <1>3 DEF ledgerVars, LedgerFacts!vars, LedgerFacts!storeVars, LedgerFacts!dispatchVars
<1>4. ASSUME UNCHANGED allVars PROVE UNCHANGED ledgerVars
  BY <1>4 DEF allVars
<1> QED
  BY <1>1, <1>2, <1>3, <1>4 DEF MCNext

(***************************************************************************)
(* What the log, the ledger and the dispatcher hold agrees, for any records *)
(* and any mutations (work.Store, workflow.Session, agentlog).              *)
(***************************************************************************)
THEOREM PublicationInSession == MCSpec => []PublicationHolds
<1>1. Ledger!Replay = LedgerFacts!Replay
  BY DEF Ledger!Replay, LedgerFacts!Replay, Ledger!Replayed, LedgerFacts!Replayed
<1>2. LedgerFacts!PublicationHolds => PublicationHolds
  BY <1>1 DEF PublicationHolds, Ledger!PublicationHolds, LedgerFacts!PublicationHolds,
     Ledger!ReplayMatches, LedgerFacts!ReplayMatches, Ledger!DispatchedArePublished,
     LedgerFacts!DispatchedArePublished, Ledger!HandledInOrder, LedgerFacts!HandledInOrder,
     Ledger!HeldStayPending, LedgerFacts!HeldStayPending,
     Ledger!ToSet, LedgerFacts!ToSet
<1> QED
  BY <1>2, LedgerSteps, LedgerFacts!PublicationAlwaysHolds, PTL DEF MCSpec

(***************************************************************************)
(* A replay of the accepted log sees each mutation whole or not at all.     *)
(***************************************************************************)
THEOREM ReplayInSession == MCSpec => ReplayIsAtomic
<1>1. Ledger!Replay = LedgerFacts!Replay
  BY DEF Ledger!Replay, LedgerFacts!Replay, Ledger!Replayed, LedgerFacts!Replayed
<1>2. LedgerFacts!ReplayAtomic!Init => Ledger!ReplayAtomic!Init
  BY <1>1 DEF LedgerFacts!ReplayAtomic!Init, Ledger!ReplayAtomic!Init
<1>3. [LedgerFacts!ReplayAtomic!Next]_LedgerFacts!ReplayAtomic!vars
        => [Ledger!ReplayAtomic!Next]_Ledger!ReplayAtomic!vars
  BY <1>1
     DEF LedgerFacts!ReplayAtomic!Next, Ledger!ReplayAtomic!Next,
         LedgerFacts!ReplayAtomic!Mutate, Ledger!ReplayAtomic!Mutate,
         LedgerFacts!ReplayAtomic!Show, Ledger!ReplayAtomic!Show,
         LedgerFacts!ReplayAtomic!Freeze, Ledger!ReplayAtomic!Freeze,
         LedgerFacts!ReplayAtomic!vars, Ledger!ReplayAtomic!vars,
         Ledger!Replay, LedgerFacts!Replay, Ledger!Replayed, LedgerFacts!Replayed
<1>4. LedgerFacts!ReplayIsAtomic => ReplayIsAtomic
  BY <1>2, <1>3, PTL DEF ReplayIsAtomic, Ledger!ReplayIsAtomic, LedgerFacts!ReplayIsAtomic,
     Ledger!ReplayAtomic!Spec, LedgerFacts!ReplayAtomic!Spec
<1> QED
  BY <1>4, LedgerSteps, LedgerFacts!ReplayAlwaysAtomic, PTL DEF MCSpec

----------------------------------------------------------------------------
(* The event log.  The first part is the inductive invariant: what is       *)
(* pending is what is queued and what the writer has at hand, each once;    *)
(* the file holds what is visible and at most one line more.                *)

\* The writer has a record at hand.
Busy == wpc \in {"append", "written", "stored", "truncate", "refused"}
InQueue(p) == \E i \in 1..Len(queue) : queue[i] = p
AtHand(p) == Busy /\ wjob = p
Visible(r) == \E i \in 1..Len(committed) : committed[i] = r

LogTypes ==
  /\ pub \in [Publisher -> {"idle", "waiting", "queued", "refused", "failed", "sealed", "cancelled",
                            "stored"}]
  /\ queue \in Seq(Publisher) /\ jobs \subseteq Publisher /\ completed \in Nat
  /\ logErr \in BOOLEAN /\ finishing \in BOOLEAN /\ expired \in BOOLEAN
  /\ failed \in BOOLEAN /\ disposed \in BOOLEAN
  /\ wpc \in {"idle", "append", "written", "stored", "truncate", "refused", "exited"}
  /\ wjob \in Log!Record /\ committed \in Seq(Log!Record)
  /\ disk \in Seq([record : Log!Record, whole : BOOLEAN])
  /\ flush \in [state : {"none", "idle", "waiting", "flushed", "failed"}, target : Nat,
                before : SUBSET Publisher]
  /\ finish \in {"none", "waiting", "failed", "sealed"}

\* The quota.
QuotaInv ==
  /\ IsFiniteSet(jobs) /\ pending = Cardinality(jobs) /\ pending <= Entries
  /\ IsFiniteSet(Log!Producing) /\ Cardinality(Log!Producing) <= Entries + 1

\* Until the log fails its jobs are what is queued and what is at hand, each once; and
\* a call that has not been queued is nowhere else.
JobsInv ==
  /\ \A i, j \in 1..Len(queue) : queue[i] = queue[j] => i = j
  /\ ~logErr => \A p \in Publisher : p \in jobs <=> InQueue(p) \/ AtHand(p)
  /\ logErr => jobs = {} /\ queue = <<>>
  /\ \A p \in Publisher : InQueue(p) => ~AtHand(p)
  /\ \A p \in Publisher : InQueue(p) => ~Visible(p)
  /\ \A p \in Publisher : pub[p] \in {"idle", "waiting"} =>
       p \notin jobs /\ ~Visible(p) /\ ~InQueue(p) /\ ~AtHand(p)
  /\ \A p \in Publisher : pub[p] = "stored" => Visible(p)

\* What the writer is about to write is not visible, what it has stored is.
WriterInv ==
  /\ Log!IsInjective(committed)
  /\ Busy /\ wpc # "stored" => ~Visible(wjob)
  /\ wpc = "stored" => Visible(wjob)
  /\ wpc = "exited" => logErr \/ Visible(Terminal)
  /\ (Busy /\ wjob = Terminal) \/ wpc = "exited" => logErr \/ finishing
  /\ (Busy /\ wjob = Terminal) \/ wpc = "exited" => queue = <<>>

\* How the log ends: sealed, or failed, and the store says so before the log does.
EndInv ==
  /\ Visible(Terminal) => /\ wpc = "exited" \/ (wpc = "stored" /\ wjob = Terminal)
                          /\ ~failed /\ ~logErr
  /\ \A i \in 1..Len(committed) : committed[i] = Terminal => i = Len(committed)
  /\ disposed => wpc = "exited"
  /\ logErr => failed
  /\ failed /\ ~logErr => wpc \in {"truncate", "refused"}
  /\ finish = "sealed" => wpc = "exited" /\ ~logErr

\* A flush waits for the jobs that were before it, and they are ahead of all others.
FlushInv ==
  /\ flush.state = "flushed" => \A p \in flush.before : Visible(p)
  /\ flush.state = "waiting" /\ ~logErr =>
       /\ \A p \in flush.before : Visible(p) \/ p \in jobs
       /\ \A i, j \in 1..Len(queue) :
            i < j /\ queue[j] \in flush.before => queue[i] \in flush.before
       /\ \A i \in 1..Len(queue) :
            queue[i] \in flush.before /\ Busy => wjob \in flush.before
       /\ flush.before \cap jobs # {} =>
            completed + Cardinality(flush.before \cap jobs) = flush.target

\* The file has the visible records, and at most one line more.
DiskInv ==
  /\ Len(disk) \in {Len(committed), Len(committed) + 1}
  /\ \A i \in 1..Len(committed) : disk[i] = Log!Line(committed[i], TRUE)
  /\ wpc \in {"append", "stored"} => Len(disk) = Len(committed)
  /\ wpc \in {"idle", "exited"} /\ ~failed => Len(disk) = Len(committed)
  /\ wpc = "written" => /\ Len(disk) = Len(committed) + 1
                        /\ disk[Len(committed) + 1] = Log!Line(wjob, TRUE)

LogInv == LogTypes /\ QuotaInv /\ JobsInv /\ WriterInv /\ EndInv /\ FlushInv /\ DiskInv

----------------------------------------------------------------------------
(* Sets that shrink, sequences that grow.                                   *)

LEMMA SealedIsVisible == ASSUME LogTypes PROVE Log!Sealed <=> Visible(Terminal)
  BY DEF LogTypes, Log!Sealed, Log!Range1, Visible

LEMMA VisibleIsRange ==
  ASSUME LogTypes, NEW r
  PROVE  Visible(r) <=> r \in Log!Range1(committed)
  BY DEF LogTypes, Log!Range1, Visible

\* The log counts as FiniteSetTheorems does.
LEMMA LogCounts == \A S : Log!Cardinality(S) = Cardinality(S)
  BY DEF Log!Cardinality, Cardinality

LEMMA FewerProduce ==
  ASSUME QuotaInv, NEW S, S \subseteq Log!Producing
  PROVE  IsFiniteSet(S) /\ Cardinality(S) <= Entries + 1
<1>1. IsFiniteSet(S) /\ Cardinality(S) <= Cardinality(Log!Producing)
  BY FS_Subset DEF QuotaInv
<1>2. Cardinality(S) \in Nat /\ Cardinality(Log!Producing) \in Nat
  BY <1>1, FS_CardinalityType DEF QuotaInv
<1> QED
  BY <1>1, <1>2, LogAssumption DEF QuotaInv

LEMMA Appending ==
  ASSUME NEW S, NEW s \in Seq(S), NEW e \in S
  PROVE  /\ Append(s, e) \in Seq(S) /\ Len(s) \in Nat /\ Len(Append(s, e)) = Len(s) + 1
         /\ Append(s, e)[Len(s) + 1] = e
         /\ \A i \in 1..Len(s) : Append(s, e)[i] = s[i]
  OBVIOUS

LEMMA Taking ==
  ASSUME NEW S, NEW s \in Seq(S), s # <<>>
  PROVE  /\ Tail(s) \in Seq(S) /\ Len(s) \in Nat /\ Len(s) > 0 /\ Len(Tail(s)) = Len(s) - 1
         /\ Head(s) = s[1] /\ s[1] \in S
         /\ \A i \in 1..Len(s) - 1 : Tail(s)[i] = s[i + 1]
  OBVIOUS

LEMMA Shortening ==
  ASSUME NEW S, NEW s \in Seq(S), NEW n \in Nat, n <= Len(s)
  PROVE  /\ SubSeq(s, 1, n) \in Seq(S) /\ Len(SubSeq(s, 1, n)) = n
         /\ \A i \in 1..n : SubSeq(s, 1, n)[i] = s[i]
  OBVIOUS

\* A failure answers every job and drops the queue, unless the log is sealed.
LEMMA FailParts ==
  ASSUME LogInv, Log!Fail, wpc # "exited"
  PROVE  /\ pub' \in [Publisher -> {"idle", "waiting", "queued", "refused", "failed", "sealed",
                                    "cancelled", "stored"}]
         /\ queue' \in Seq(Publisher) /\ jobs' \subseteq Publisher /\ completed' = completed
         /\ logErr' \in BOOLEAN /\ expired' \in BOOLEAN /\ failed' \in BOOLEAN
         /\ QuotaInv'
         /\ Visible(Terminal) => logErr' = logErr /\ failed' = failed
         /\ ~Visible(Terminal) => logErr' /\ failed'
<1>1. LogTypes /\ QuotaInv /\ EndInv /\ (Log!Sealed <=> Visible(Terminal))
  BY SealedIsVisible DEF LogInv
<1>2. CASE logErr \/ Log!Sealed
  <2>1. UNCHANGED <<Log!publishing, logErr, expired, failed>>
    BY <1>2 DEF Log!Fail
  <2>2. QuotaInv'
    BY <1>1, <2>1 DEF QuotaInv, Log!Producing, Log!publishing
  <2> QED
    BY <1>1, <1>2, <2>1, <2>2 DEF LogTypes, EndInv, Log!publishing
<1>3. CASE ~(logErr \/ Log!Sealed)
  <2>1. /\ failed' = (failed \/ ~disposed) /\ logErr' = TRUE /\ expired' = TRUE
        /\ pub' = [p \in Publisher |-> IF p \in jobs /\ pub[p] = "queued" THEN "failed" ELSE pub[p]]
        /\ jobs' = {} /\ queue' = <<>> /\ pending' = 0 /\ completed' = completed
    BY <1>3 DEF Log!Fail
  <2>2. pub' \in [Publisher -> {"idle", "waiting", "queued", "refused", "failed", "sealed",
                               "cancelled", "stored"}]
    BY <1>1, <2>1 DEF LogTypes
  <2>3. Log!Producing' \subseteq Log!Producing
    BY <1>1, <2>1 DEF Log!Producing, LogTypes
  <2>4. QuotaInv'
    <3>1. IsFiniteSet(Log!Producing') /\ Cardinality(Log!Producing') <= Entries + 1
      BY <1>1, <2>3, FewerProduce
    <3>2. IsFiniteSet({}) /\ Cardinality({}) = 0
      BY FS_EmptySet
    <3> QED
      BY <2>1, <3>1, <3>2, LogAssumption DEF QuotaInv
  <2>5. failed' = TRUE
    BY <1>1, <2>1 DEF EndInv
  <2>6. queue' \in Seq(Publisher)
    BY <2>1
  <2> QED
    BY <1>1, <1>3, <2>1, <2>2, <2>4, <2>5, <2>6
<1> QED
  BY <1>2, <1>3

----------------------------------------------------------------------------
(* Every step keeps the invariant.                                          *)

LEMMA PublishContextKeeps ==
  ASSUME LogInv, NEW p \in Publisher, Log!PublishContext(p)
  PROVE  LogInv'
<1>0. /\ pub[p] = "idle" /\ pub'[p] \in {"refused", "waiting"}
      /\ pub' \in [Publisher -> {"idle", "waiting", "queued", "refused", "failed", "sealed",
                                 "cancelled", "stored"}]
      /\ \A o \in Publisher : o # p => pub'[o] = pub[o]
      /\ UNCHANGED <<queue, jobs, completed, logErr, Log!calls, Log!writer, Log!shelf, disk>>
  BY DEF LogInv, LogTypes, Log!PublishContext
<1>1. LogTypes' /\ JobsInv' /\ WriterInv' /\ EndInv' /\ FlushInv' /\ DiskInv'
  <2>1. LogTypes'
    BY <1>0 DEF LogInv, LogTypes, Log!calls, Log!writer, Log!shelf
  <2>2. JobsInv'
    BY <1>0 DEF LogInv, JobsInv, Log!writer, Log!shelf, Busy, InQueue, AtHand, Visible
  <2>3. WriterInv' /\ EndInv'
    BY <1>0 DEF LogInv, WriterInv, EndInv, Log!calls, Log!writer, Log!shelf, Busy, Visible
  <2>4. FlushInv' /\ DiskInv'
    BY <1>0 DEF LogInv, FlushInv, DiskInv, Log!calls, Log!writer, Log!shelf, Busy, Visible
  <2> QED
    BY <2>1, <2>2, <2>3, <2>4
<1>2. QuotaInv'
  <2>1. CASE Cardinality(Log!Producing) > Entries
    <3>1. Log!Producing' \subseteq Log!Producing
      BY <2>1, LogCounts DEF LogInv, LogTypes, Log!PublishContext, Log!Producing
    <3> QED
      BY <3>1, FewerProduce DEF LogInv, QuotaInv, Log!PublishContext
  <2>2. CASE ~(Cardinality(Log!Producing) > Entries)
    <3>1. Log!Producing' = Log!Producing \cup {p} /\ p \notin Log!Producing
      BY <2>2, LogCounts DEF LogInv, LogTypes, Log!PublishContext, Log!Producing
    <3>2. IsFiniteSet(Log!Producing) /\ Cardinality(Log!Producing) \in Nat
      BY FS_CardinalityType DEF LogInv, QuotaInv
    <3>3. /\ IsFiniteSet(Log!Producing')
          /\ Cardinality(Log!Producing') = Cardinality(Log!Producing) + 1
      BY <3>1, <3>2, FS_AddElement
    <3> QED
      BY <2>2, <3>2, <3>3, LogAssumption DEF LogInv, QuotaInv, Log!PublishContext
  <2> QED
    BY <2>1, <2>2
<1> QED
  BY <1>1, <1>2 DEF LogInv

\* What the invariant is not about.
LEMMA Stays ==
  ASSUME LogInv,
         UNCHANGED <<Log!publishing, logErr, Log!calls, wpc, wjob, committed, failed, disposed,
                     disk>>,
         expired' \in BOOLEAN
  PROVE  LogInv'
<1>1. LogTypes' /\ QuotaInv'
  BY DEF LogInv, LogTypes, QuotaInv, Log!Producing, Log!publishing, Log!calls
<1>2. JobsInv' /\ WriterInv'
  BY DEF LogInv, JobsInv, WriterInv, Busy, InQueue, AtHand, Visible, Log!publishing, Log!calls
<1>3. EndInv' /\ FlushInv' /\ DiskInv'
  BY DEF LogInv, EndInv, FlushInv, DiskInv, Busy, Visible, Log!publishing, Log!calls
<1> QED
  BY <1>1, <1>2, <1>3 DEF LogInv

\* A failure that leaves the writer where it is.
LEMMA FailKeeps ==
  ASSUME LogInv, Log!Fail, wpc # "exited",
         UNCHANGED <<finishing, finish, flush, wpc, wjob, committed, disposed, disk>>
  PROVE  LogInv'
<1>1. LogTypes'
  BY FailParts DEF LogInv, LogTypes
<1>2. QuotaInv'
  BY FailParts
<1>3. EndInv'
  BY FailParts DEF LogInv, EndInv, Visible
<1>4. CASE logErr \/ Log!Sealed
  <2>1. UNCHANGED <<pub, queue, jobs, completed, logErr, failed>>
    BY <1>4 DEF Log!Fail, Log!publishing
  <2>2. JobsInv' /\ WriterInv'
    BY <2>1 DEF LogInv, JobsInv, WriterInv, Busy, InQueue, AtHand, Visible
  <2>3. FlushInv' /\ DiskInv'
    BY <2>1 DEF LogInv, FlushInv, DiskInv, Busy, Visible
  <2> QED
    BY <1>1, <1>2, <1>3, <2>2, <2>3 DEF LogInv
<1>5. CASE ~(logErr \/ Log!Sealed)
  <2>1. /\ failed' /\ logErr' = TRUE /\ queue' = <<>> /\ Len(queue') = 0 /\ jobs' = {}
        /\ pub' = [p \in Publisher |-> IF p \in jobs /\ pub[p] = "queued" THEN "failed" ELSE pub[p]]
    <3>1. ~Visible(Terminal)
      BY <1>5, SealedIsVisible DEF LogInv
    <3>2. failed'
      BY <3>1, FailParts
    <3> QED
      BY <1>5, <3>2 DEF Log!Fail
  <2>2. JobsInv'
    <3>1. /\ \A p \in Publisher : pub'[p] \in {"idle", "waiting"} => pub[p] = pub'[p]
          /\ \A p \in Publisher : pub'[p] = "stored" => pub[p] = "stored"
      BY <2>1
    <3>2. /\ \A p \in Publisher : Visible(p)' <=> Visible(p)
          /\ \A p \in Publisher : AtHand(p)' <=> AtHand(p)
          /\ \A p \in Publisher : ~InQueue(p)'
      BY <2>1 DEF Visible, AtHand, InQueue, Busy
    <3> QED
      BY <2>1, <3>1, <3>2 DEF LogInv, JobsInv
  <2>3. WriterInv'
    BY <2>1 DEF LogInv, WriterInv, Busy, Visible
  <2>4. FlushInv'
    BY <2>1 DEF LogInv, FlushInv, Busy, Visible
  <2>5. DiskInv'
    BY <2>1 DEF LogInv, DiskInv
  <2> QED
    BY <1>1, <1>2, <1>3, <2>2, <2>3, <2>4, <2>5 DEF LogInv
<1> QED
  BY <1>4, <1>5

LEMMA PublishInvalidKeeps ==
  ASSUME LogInv, NEW p \in Publisher, Log!PublishInvalid(p)
  PROVE  LogInv'
  BY FailKeeps DEF Log!PublishInvalid, Log!Done, Log!calls

LEMMA TimerFailsKeeps ==
  ASSUME LogInv, Log!TimerFails
  PROVE  LogInv'
<1>1. CASE Log!Done
  <2>1. UNCHANGED <<Log!publishing, logErr, Log!calls, wpc, wjob, committed, failed, disposed,
                    disk>>
    BY <1>1 DEF Log!TimerFails
  <2>2. expired' \in BOOLEAN
    BY <1>1 DEF Log!TimerFails, LogInv, LogTypes
  <2> QED
    BY <2>1, <2>2, Stays
<1>2. CASE ~Log!Done
  BY <1>2, FailKeeps DEF Log!TimerFails, Log!Done, Log!calls
<1> QED
  BY <1>1, <1>2

LEMMA EnqueueKeeps ==
  ASSUME LogInv, NEW p \in Publisher, Log!Enqueue(p)
  PROVE  LogInv'
<1>1. CASE queue' = queue
  <2>1. UNCHANGED <<queue, jobs, pending>>
    <3>1. queue # Append(queue, p)
      BY Appending DEF LogInv, LogTypes
    <3> QED
      BY <1>1, <3>1 DEF Log!Enqueue
  <2>2. Log!Producing' \subseteq Log!Producing
    BY DEF LogInv, LogTypes, Log!Enqueue, Log!Answer, Log!Producing
  <2>3. QuotaInv'
    BY <2>1, <2>2, FewerProduce DEF LogInv, QuotaInv
  <2>4. /\ pub'[p] \in {"failed", "sealed", "waiting"} /\ pub[p] = "waiting"
        /\ pub' \in [Publisher -> {"idle", "waiting", "queued", "refused", "failed", "sealed",
                                   "cancelled", "stored"}]
        /\ \A o \in Publisher : o # p => pub'[o] = pub[o]
    BY <2>1, Appending DEF LogInv, LogTypes, Log!Enqueue, Log!Answer
  <2>5. UNCHANGED <<completed, logErr, Log!calls, Log!writer, Log!shelf, disk>>
    BY DEF Log!Enqueue
  <2>6. LogTypes'
    BY <2>1, <2>4, <2>5 DEF LogInv, LogTypes, Log!calls, Log!writer, Log!shelf
  <2>8. JobsInv'
    BY <2>1, <2>4, <2>5 DEF LogInv, JobsInv, Log!writer, Log!shelf, Busy, InQueue, AtHand, Visible
  <2>7. WriterInv' /\ EndInv' /\ FlushInv' /\ DiskInv'
    BY <2>1, <2>5
       DEF LogInv, WriterInv, EndInv, FlushInv, DiskInv, Log!calls, Log!writer, Log!shelf, Busy,
           Visible
  <2> QED
    BY <2>3, <2>6, <2>7, <2>8 DEF LogInv
<1>2. CASE queue' # queue
  <2>1. /\ pub[p] = "waiting" /\ ~logErr /\ ~finishing /\ pending < Entries
        /\ queue' = Append(queue, p) /\ jobs' = jobs \cup {p} /\ pending' = pending + 1
        /\ pub' = [pub EXCEPT ![p] = "queued"]
        /\ UNCHANGED <<completed, logErr, Log!calls, Log!writer, Log!shelf, disk>>
    BY <1>2 DEF Log!Enqueue, Log!Answer
  <2>2. /\ p \notin jobs /\ ~Visible(p) /\ ~InQueue(p) /\ ~AtHand(p)
    BY <2>1 DEF LogInv, JobsInv
  <2>3. /\ queue' \in Seq(Publisher) /\ Len(queue) \in Nat /\ Len(queue') = Len(queue) + 1
        /\ queue'[Len(queue) + 1] = p /\ \A i \in 1..Len(queue) : queue'[i] = queue[i]
    BY <2>1, Appending DEF LogInv, LogTypes
  <2>4. LogTypes'
    BY <2>1, <2>3 DEF LogInv, LogTypes, Log!calls, Log!writer, Log!shelf
  <2>5. QuotaInv'
    <3>1. Log!Producing' \subseteq Log!Producing
      BY <2>1 DEF LogInv, LogTypes, Log!Producing
    <3>2. IsFiniteSet(Log!Producing') /\ Cardinality(Log!Producing') <= Entries + 1
      BY <3>1, FewerProduce DEF LogInv
    <3>3. IsFiniteSet(jobs) /\ Cardinality(jobs) \in Nat
      BY FS_CardinalityType DEF LogInv, QuotaInv
    <3>4. IsFiniteSet(jobs') /\ Cardinality(jobs') = Cardinality(jobs) + 1
      BY <2>1, <2>2, <3>3, FS_AddElement
    <3> QED
      BY <2>1, <3>2, <3>3, <3>4, LogAssumption DEF LogInv, QuotaInv
  <2>6. \A o \in Publisher : InQueue(o)' <=> InQueue(o) \/ o = p
    BY <2>3 DEF InQueue
  <2>7. JobsInv'
    <3>1. \A i, j \in 1..Len(queue) + 1 : queue'[i] = queue'[j] => i = j
      BY <2>2, <2>3 DEF LogInv, JobsInv, InQueue
    <3>2. \A o \in Publisher : AtHand(o)' = AtHand(o) /\ Visible(o)' = Visible(o)
      BY <2>1 DEF AtHand, Visible, Busy, Log!writer, Log!shelf
    <3> QED
      BY <2>1, <2>2, <2>3, <2>6, <3>1, <3>2 DEF LogInv, LogTypes, JobsInv
  <2>8. WriterInv' /\ EndInv' /\ DiskInv'
    BY <2>1 DEF LogInv, WriterInv, EndInv, DiskInv, Busy, Visible, Log!calls, Log!writer,
        Log!shelf
  <2>9. FlushInv'
    <3>1. p \notin flush.before \/ ~(flush.state = "waiting")
      BY <2>1, <2>2 DEF LogInv, FlushInv
    <3>2. CASE p \notin flush.before
      <4>1. flush.before \cap jobs' = flush.before \cap jobs
        BY <2>1, <3>2
      <4>2. /\ UNCHANGED <<flush, wjob, wpc, committed, completed, logErr>>
            /\ \A r : Visible(r)' <=> Visible(r)
        BY <2>1 DEF Log!calls, Log!writer, Log!shelf, Visible
      <4>3. ASSUME flush.state = "waiting"
            PROVE  /\ \A i, j \in 1..Len(queue) + 1 :
                        i < j /\ queue'[j] \in flush.before => queue'[i] \in flush.before
                   /\ \A i \in 1..Len(queue) + 1 :
                        queue'[i] \in flush.before /\ Busy => wjob \in flush.before
        BY <2>1, <2>3, <3>2, <4>3 DEF LogInv, FlushInv
      <4> QED
        BY <2>1, <2>3, <4>1, <4>2, <4>3 DEF LogInv, FlushInv, Busy
    <3>3. CASE ~(flush.state = "waiting")
      BY <2>1, <3>3 DEF LogInv, FlushInv, Visible, Log!calls, Log!shelf
    <3> QED
      BY <3>1, <3>2, <3>3
  <2> QED
    BY <2>4, <2>5, <2>7, <2>8, <2>9 DEF LogInv
<1> QED
  BY <1>1, <1>2

LEMMA CancelledKeeps ==
  ASSUME LogInv, NEW p \in Publisher, Log!Cancelled(p)
  PROVE  LogInv'
<1>0. /\ pub' \in [Publisher -> {"idle", "waiting", "queued", "refused", "failed", "sealed",
                                 "cancelled", "stored"}]
      /\ \A o \in Publisher : pub'[o] = pub[o] \/ pub'[o] = "cancelled"
      /\ UNCHANGED <<queue, jobs, completed, logErr, Log!calls, Log!writer, Log!shelf, disk>>
  BY DEF Log!Cancelled, Log!Answer, LogInv, LogTypes
<1>1. LogTypes' /\ JobsInv' /\ WriterInv' /\ EndInv' /\ FlushInv' /\ DiskInv'
  <2>1. LogTypes'
    BY <1>0 DEF LogInv, LogTypes, Log!calls, Log!writer, Log!shelf
  <2>2. JobsInv'
    BY <1>0 DEF LogInv, JobsInv, Log!writer, Log!shelf, Busy, InQueue, AtHand, Visible
  <2>3. WriterInv' /\ EndInv'
    BY <1>0 DEF LogInv, WriterInv, EndInv, Log!calls, Log!writer, Log!shelf, Busy, Visible
  <2>4. FlushInv' /\ DiskInv'
    BY <1>0 DEF LogInv, FlushInv, DiskInv, Log!calls, Log!writer, Log!shelf, Busy, Visible
  <2> QED
    BY <2>1, <2>2, <2>3, <2>4
<1>2. QuotaInv'
  <2>1. Log!Producing' \subseteq Log!Producing
    BY DEF LogInv, LogTypes, Log!Cancelled, Log!Answer, Log!Producing
  <2> QED
    BY <2>1, FewerProduce DEF LogInv, QuotaInv, Log!Cancelled
<1> QED
  BY <1>1, <1>2 DEF LogInv

LEMMA RunKeeps ==
  ASSUME LogInv, Log!Run
  PROVE  LogInv'
<1>1. /\ wpc = "idle" /\ ~Busy
      /\ UNCHANGED <<pub, jobs, pending, completed, logErr, Log!calls, Log!shelf, disk>>
  BY DEF Log!Run, Busy
<1>2. CASE UNCHANGED <<queue, wjob, expired>> /\ (wpc' = wpc \/ (logErr /\ wpc' = "exited"))
  <2>1. LogTypes' /\ QuotaInv'
    BY <1>1, <1>2 DEF LogInv, LogTypes, QuotaInv, Log!Producing, Log!calls, Log!shelf
  <2>2. JobsInv'
    BY <1>1, <1>2 DEF LogInv, JobsInv, Log!shelf, Busy, InQueue, AtHand, Visible
  <2>3. WriterInv'
    BY <1>1, <1>2 DEF LogInv, JobsInv, WriterInv, Log!shelf, Log!calls, Busy, Visible
  <2>4. EndInv'
    BY <1>1, <1>2 DEF LogInv, EndInv, WriterInv, Log!shelf, Log!calls, Busy, Visible
  <2>5. FlushInv' /\ DiskInv'
    BY <1>1, <1>2 DEF LogInv, EndInv, FlushInv, DiskInv, Log!shelf, Log!calls, Busy, Visible
  <2> QED
    BY <2>1, <2>2, <2>3, <2>4, <2>5 DEF LogInv
<1>3. CASE ~logErr /\ queue # <<>> /\ Log!Begin(Head(queue)) /\ queue' = Tail(queue)
  <2>1. /\ queue' \in Seq(Publisher) /\ Len(queue) \in Nat /\ Len(queue) > 0
        /\ Len(queue') = Len(queue) - 1 /\ wjob' = queue[1] /\ queue[1] \in Publisher
        /\ \A i \in 1..Len(queue) - 1 : queue'[i] = queue[i + 1]
    BY <1>3, Taking DEF LogInv, LogTypes, Log!Begin
  <2>2. wpc' = "append" /\ expired' = FALSE /\ Busy'
    BY <1>3 DEF Log!Begin, Busy
  <2>3. LogTypes' /\ QuotaInv'
    BY <1>1, <2>1, <2>2 DEF LogInv, LogTypes, QuotaInv, Log!Producing, Log!Record, Log!calls,
        Log!shelf
  <2>4. \A p \in Publisher : InQueue(p) <=> InQueue(p)' \/ p = wjob'
    <3>1. ASSUME NEW p \in Publisher, NEW i \in 1..Len(queue), queue[i] = p, p # wjob'
          PROVE  queue'[i - 1] = p /\ i - 1 \in 1..Len(queue')
      BY <2>1, <3>1
    <3>2. ASSUME NEW p \in Publisher, NEW i \in 1..Len(queue'), queue'[i] = p
          PROVE  queue[i + 1] = p /\ i + 1 \in 1..Len(queue)
      BY <2>1, <3>2
    <3>3. queue[1] = wjob' /\ 1 \in 1..Len(queue)
      BY <2>1
    <3> QED
      BY <3>1, <3>2, <3>3 DEF InQueue
  <2>5. \A p \in Publisher : p = wjob' => ~InQueue(p)'
    <3>1. ASSUME NEW i \in 1..Len(queue'), queue'[i] = wjob' PROVE FALSE
      <4>1. i + 1 \in 1..Len(queue) /\ 1 \in 1..Len(queue) /\ queue[i + 1] = queue[1]
        BY <2>1, <3>1
      <4> QED
        BY <4>1 DEF LogInv, JobsInv
    <3> QED
      BY <3>1 DEF InQueue
  <2>6. /\ \A p \in Publisher : AtHand(p)' <=> p = wjob'
        /\ \A p \in Publisher : ~AtHand(p)
        /\ \A r : Visible(r)' <=> Visible(r)
    BY <1>1, <2>2 DEF AtHand, Visible, Log!shelf
  <2>7. JobsInv'
    <3>1. \A i, j \in 1..Len(queue) - 1 : queue'[i] = queue'[j] => i = j
      <4> SUFFICES ASSUME NEW i \in 1..Len(queue) - 1, NEW j \in 1..Len(queue) - 1,
                          queue'[i] = queue'[j]
                   PROVE  i = j
        OBVIOUS
      <4>1. i + 1 \in 1..Len(queue) /\ j + 1 \in 1..Len(queue) /\ queue[i + 1] = queue[j + 1]
        BY <2>1
      <4> QED
        BY <2>1, <4>1 DEF LogInv, JobsInv
    <3>2. \A p \in Publisher : p \in jobs <=> InQueue(p)
      BY <1>1, <1>3, <2>6 DEF LogInv, JobsInv
    <3>3. \A p \in Publisher : pub[p] \in {"idle", "waiting"} => ~InQueue(p) /\ ~Visible(p)
      BY DEF LogInv, JobsInv
    <3>4. \A p \in Publisher : InQueue(p) => ~Visible(p)
      BY DEF LogInv, JobsInv
    <3>5. \A p \in Publisher : pub[p] = "stored" => Visible(p)
      BY DEF LogInv, JobsInv
    <3> QED
      BY <1>1, <1>3, <2>1, <2>4, <2>5, <2>6, <3>1, <3>2, <3>3, <3>4, <3>5 DEF JobsInv
  <2>8. WriterInv' /\ EndInv' /\ DiskInv'
    <3>1. ~Visible(wjob') /\ wjob' # Terminal
      BY <2>1, <2>4, LogAssumption DEF LogInv, JobsInv
    <3>2. WriterInv'
      BY <1>1, <1>3, <2>2, <2>6, <3>1 DEF LogInv, WriterInv, Log!shelf
    <3>3. EndInv'
      BY <1>1, <1>3, <2>2, <2>6 DEF LogInv, EndInv, Log!calls, Log!shelf
    <3>4. DiskInv'
      BY <1>1, <1>3, <2>2 DEF LogInv, EndInv, DiskInv, Log!shelf
    <3> QED
      BY <3>2, <3>3, <3>4
  <2>9. FlushInv'
    <3>1. 1 \in 1..Len(queue)
      BY <2>1
    <3>2. ASSUME flush.state = "waiting"
          PROVE  /\ \A i, j \in 1..Len(queue) - 1 :
                      i < j /\ queue'[j] \in flush.before => queue'[i] \in flush.before
                 /\ \A i \in 1..Len(queue) - 1 :
                      queue'[i] \in flush.before => wjob' \in flush.before
      <4>1. ASSUME NEW i \in 1..Len(queue) - 1
            PROVE  i + 1 \in 1..Len(queue) /\ 1 < i + 1 /\ queue'[i] = queue[i + 1]
        BY <2>1
      <4> QED
        BY <1>3, <2>1, <3>1, <3>2, <4>1 DEF LogInv, FlushInv
    <3> QED
      BY <1>1, <1>3, <2>1, <2>6, <3>2 DEF LogInv, FlushInv, Log!calls
  <2> QED
    BY <2>3, <2>7, <2>8, <2>9 DEF LogInv
<1>4. CASE ~logErr /\ queue = <<>> /\ finishing /\ Log!Begin(Terminal) /\ UNCHANGED queue
  <2>1. wjob' = Terminal /\ wpc' = "append" /\ expired' = FALSE /\ Busy' /\ Len(queue) = 0
    BY <1>4 DEF Log!Begin, Busy
  <2>2. LogTypes' /\ QuotaInv'
    BY <1>1, <1>4, <2>1 DEF LogInv, LogTypes, QuotaInv, Log!Producing, Log!Record, Log!calls,
        Log!shelf
  <2>3. JobsInv'
    BY <1>1, <1>4, <2>1, LogAssumption DEF LogInv, JobsInv, InQueue, AtHand, Visible, Log!shelf
  <2>4. WriterInv' /\ EndInv' /\ DiskInv'
    BY <1>1, <1>4, <2>1 DEF LogInv, WriterInv, EndInv, DiskInv, Visible, Log!calls, Log!shelf
  <2>5. FlushInv'
    BY <1>1, <1>4, <2>1 DEF LogInv, FlushInv, Visible, Log!calls, Log!shelf
  <2> QED
    BY <2>2, <2>3, <2>4, <2>5 DEF LogInv
<1> QED
  BY <1>1, <1>2, <1>3, <1>4 DEF Log!Run

LEMMA ExpireKeeps == ASSUME LogInv, Log!Expire PROVE LogInv'
  BY Stays DEF Log!Expire, Log!shelf

LEMMA WriteRefusedKeeps == ASSUME LogInv, Log!WriteRefused PROVE LogInv'
  BY LogAssumption DEF LogInv, LogTypes, QuotaInv, JobsInv, WriterInv, EndInv, FlushInv,
       DiskInv, Log!Record, Log!Line, Log!Producing, Busy, InQueue, AtHand, Visible,
           Log!IsInjective,
       Log!WriteRefused, Log!Keeps, Log!publishing, Log!calls

LEMMA WriteKeeps == ASSUME LogInv, Log!Write PROVE LogInv'
  BY LogAssumption DEF LogInv, LogTypes, QuotaInv, JobsInv, WriterInv, EndInv, FlushInv,
       DiskInv, Log!Record, Log!Line, Log!Producing, Busy, InQueue, AtHand, Visible,
           Log!IsInjective, Log!Write,
       Log!Writable, Log!Sealed, Log!Keeps, Log!publishing, Log!calls

LEMMA WriteFailsKeeps ==
  ASSUME LogInv, Log!WriteFails
  PROVE  LogInv'
<1>1. QuotaInv' /\ JobsInv' /\ WriterInv' /\ EndInv' /\ FlushInv'
  BY LogAssumption DEF LogInv, LogTypes, JobsInv, WriterInv, EndInv, QuotaInv, FlushInv,
       Log!Producing, Busy, InQueue, AtHand, Visible, Log!IsInjective, Log!WriteFails,
           Log!Writable, Log!Sealed,
       Log!FailStore, Log!Line, Log!Keeps, Log!publishing, Log!calls
<1>2. LogTypes' /\ DiskInv'
  <2>1. /\ wpc = "append" /\ wpc' = "truncate" /\ failed' \in BOOLEAN
        /\ UNCHANGED <<Log!publishing, logErr, Log!calls, wjob, expired, disposed, committed>>
    BY DEF Log!WriteFails, Log!FailStore, Log!Writable, Log!Keeps, LogInv, LogTypes
  <2>2. Len(disk) = Len(committed) /\ disk \in Seq([record : Log!Record, whole : BOOLEAN])
    BY <2>1 DEF LogInv, LogTypes, DiskInv
  <2>3. ASSUME NEW w \in BOOLEAN, disk' = Append(disk, Log!Line(wjob, w))
        PROVE  LogTypes' /\ DiskInv'
    <3>1. Log!Line(wjob, w) \in [record : Log!Record, whole : BOOLEAN]
      BY DEF Log!Line, LogInv, LogTypes
    <3>2. /\ disk' \in Seq([record : Log!Record, whole : BOOLEAN]) /\ Len(disk) \in Nat
          /\ Len(disk') = Len(disk) + 1 /\ \A i \in 1..Len(disk) : disk'[i] = disk[i]
      BY <2>2, <2>3, <3>1, Appending
    <3>3. LogTypes'
      BY <2>1, <3>2 DEF LogInv, LogTypes, Log!publishing, Log!calls
    <3>4. DiskInv'
      BY <2>1, <2>2, <3>2 DEF LogInv, DiskInv
    <3> QED
      BY <3>3, <3>4
  <2>4. ASSUME disk' = disk PROVE LogTypes' /\ DiskInv'
    <3>1. LogTypes'
      BY <2>1, <2>4 DEF LogInv, LogTypes, Log!publishing, Log!calls
    <3>2. DiskInv'
      BY <2>1, <2>2, <2>4 DEF LogInv, DiskInv
    <3> QED
      BY <3>1, <3>2
  <2> QED
    BY <2>3, <2>4 DEF Log!WriteFails
<1> QED
  BY <1>1, <1>2 DEF LogInv

LEMMA CommitKeeps ==
  ASSUME LogInv, Log!Commit
  PROVE  LogInv'
<1>1. /\ wpc = "written" /\ wpc' = "stored" /\ committed' = Append(committed, wjob)
      /\ ~disposed /\ ~failed /\ ~Visible(Terminal)
      /\ UNCHANGED <<Log!publishing, logErr, Log!calls, wjob, expired, failed, disposed, disk>>
  BY SealedIsVisible DEF Log!Commit, Log!Writable, Log!Keeps, LogInv
<1>2. /\ committed' \in Seq(Log!Record) /\ Len(committed) \in Nat
      /\ Len(committed') = Len(committed) + 1 /\ committed'[Len(committed) + 1] = wjob
      /\ \A i \in 1..Len(committed) : committed'[i] = committed[i]
  BY <1>1, Appending DEF LogInv, LogTypes
<1>3. \A r : Visible(r)' <=> Visible(r) \/ r = wjob
  BY <1>2 DEF Visible
<1>4. Busy /\ Busy' /\ ~Visible(wjob)
  BY <1>1 DEF Busy, LogInv, WriterInv
<1>5. LogTypes'
  BY <1>1, <1>2 DEF LogInv, LogTypes, Log!publishing, Log!calls
<1>6. QuotaInv'
  BY <1>1 DEF LogInv, QuotaInv, Log!Producing, Log!publishing
<1>7. JobsInv'
  <2>1. \A p \in Publisher : (InQueue(p)' <=> InQueue(p)) /\ (AtHand(p)' <=> AtHand(p))
    BY <1>1, <1>4 DEF InQueue, AtHand, Log!publishing
  <2>2. \A p \in Publisher : InQueue(p) => p # wjob
    BY <1>4 DEF LogInv, JobsInv, AtHand
  <2>3. \A p \in Publisher : pub[p] \in {"idle", "waiting"} => p # wjob
    BY <1>4 DEF LogInv, JobsInv, AtHand
  <2> QED
    BY <1>1, <1>3, <2>1, <2>2, <2>3 DEF LogInv, JobsInv, Log!publishing
<1>8. WriterInv'
  <2>1. Log!IsInjective(committed')
    <3>1. \A i, j \in 1..Len(committed) : committed[i] = committed[j] => i = j
      BY DEF LogInv, LogTypes, WriterInv, Log!IsInjective
    <3>2. \A i \in 1..Len(committed) : committed[i] # wjob
      BY <1>4 DEF Visible
    <3>3. DOMAIN committed' = 1..Len(committed) + 1
      BY <1>2
    <3> QED
      BY <1>2, <3>1, <3>2, <3>3 DEF Log!IsInjective
  <2> QED
    BY <1>1, <1>3, <1>4, <2>1 DEF LogInv, WriterInv, Log!publishing, Log!calls
<1>9. EndInv'
  <2>1. \A i \in 1..Len(committed) + 1 : committed'[i] = Terminal => i = Len(committed) + 1
    BY <1>1, <1>2 DEF Visible
  <2> QED
    BY <1>1, <1>2, <1>3, <2>1 DEF LogInv, EndInv, Log!calls
<1>10. FlushInv'
  <2>1. flush.state = "flushed" => \A p \in flush.before : Visible(p)'
    BY <1>3 DEF LogInv, FlushInv
  <2>2. flush.state = "waiting" /\ ~logErr => \A p \in flush.before : Visible(p)' \/ p \in jobs
    BY <1>3 DEF LogInv, FlushInv
  <2> QED
    BY <1>1, <1>4, <2>1, <2>2 DEF LogInv, FlushInv, Log!publishing, Log!calls
<1>11. DiskInv'
  <2>1. Len(disk) = Len(committed) + 1 /\ disk[Len(committed) + 1] = Log!Line(wjob, TRUE)
    BY <1>1 DEF LogInv, DiskInv
  <2>2. \A i \in 1..Len(committed) + 1 : disk[i] = Log!Line(committed'[i], TRUE)
    <3>1. ASSUME NEW i \in 1..Len(committed) + 1 PROVE disk[i] = Log!Line(committed'[i], TRUE)
      <4>1. CASE i = Len(committed) + 1
        BY <1>2, <2>1, <4>1
      <4>2. CASE i # Len(committed) + 1
        <5>1. i \in 1..Len(committed)
          BY <1>2, <4>2
        <5> QED
          BY <1>2, <5>1 DEF LogInv, DiskInv
      <4> QED
        BY <4>1, <4>2
    <3> QED
      BY <3>1
  <2> QED
    BY <1>1, <1>2, <2>1, <2>2 DEF DiskInv
<1> QED
  BY <1>5, <1>6, <1>7, <1>8, <1>9, <1>10, <1>11 DEF LogInv

LEMMA CommitRefusedKeeps == ASSUME LogInv, Log!CommitRefused PROVE LogInv'
  BY LogAssumption DEF LogInv, LogTypes, QuotaInv, JobsInv, WriterInv, EndInv, FlushInv,
       DiskInv, Log!Record, Log!Line, Log!Producing, Busy, InQueue, AtHand, Visible,
           Log!IsInjective,
       Log!CommitRefused, Log!Writable, Log!Sealed, Log!FailStore, Log!Range1, Log!Keeps,
           Log!publishing, Log!calls

LEMMA DiscardTailKeeps ==
  ASSUME LogInv, Log!DiscardTail
  PROVE  LogInv'
<1>1. QuotaInv' /\ JobsInv' /\ WriterInv' /\ EndInv' /\ FlushInv' /\ DiskInv'
  BY LogAssumption DEF LogInv, LogTypes, JobsInv, WriterInv, EndInv, QuotaInv, FlushInv,
       DiskInv, Log!Producing, Busy, InQueue, AtHand, Visible, Log!IsInjective, Log!Line,
           Log!DiscardTail,
       Log!Keeps, Log!publishing, Log!calls, Log!shelf
<1>2. LogTypes'
  <2>1. SubSeq(disk, 1, Len(committed)) \in Seq([record : Log!Record, whole : BOOLEAN])
    <3>1. Len(committed) \in Nat /\ Len(committed) <= Len(disk) /\ Len(disk) \in Nat
      BY DEF LogInv, LogTypes, DiskInv
    <3>2. disk \in Seq([record : Log!Record, whole : BOOLEAN])
      BY DEF LogInv, LogTypes
    <3> QED
      BY <3>1, <3>2, Shortening
  <2>2. disk' \in Seq([record : Log!Record, whole : BOOLEAN])
    BY <2>1 DEF Log!DiscardTail, LogInv, LogTypes
  <2>3. /\ wpc' = "refused"
        /\ UNCHANGED <<Log!publishing, logErr, Log!calls, wjob, expired, Log!shelf>>
    BY DEF Log!DiscardTail, Log!Keeps
  <2> QED
    BY <2>2, <2>3 DEF LogInv, LogTypes, Log!publishing, Log!calls, Log!shelf
<1> QED
  BY <1>1, <1>2 DEF LogInv

LEMMA StoredKeeps ==
  ASSUME LogInv, Log!Stored
  PROVE  LogInv'
<1>1. /\ wpc = "stored" /\ wpc' = Log!Idle /\ Busy /\ ~Busy' /\ wpc' \in {"idle", "exited"}
      /\ wpc' = "exited" <=> wjob = Terminal
      /\ UNCHANGED <<queue, logErr, Log!calls, wjob, expired, Log!shelf, disk>>
      /\ Visible(wjob) /\ wjob \in Log!Record
      /\ \A r : Visible(r)' <=> Visible(r)
  BY DEF Log!Stored, Log!Idle, Busy, Visible, Log!shelf, LogInv, LogTypes, WriterInv
<1>2. DiskInv'
  BY <1>1 DEF LogInv, DiskInv, Log!shelf
<1>3. EndInv'
  BY <1>1 DEF LogInv, EndInv, Log!calls, Log!shelf
<1>4. WriterInv'
  BY <1>1 DEF LogInv, WriterInv, Log!calls, Log!shelf
<1>5. CASE wjob \in jobs
  <2>1. /\ pub' = [pub EXCEPT ![wjob] = IF @ = "queued" THEN "stored" ELSE @]
        /\ jobs' = jobs \ {wjob} /\ pending' = pending - 1 /\ completed' = completed + 1
        /\ ~logErr /\ wjob \in Publisher
    BY <1>5 DEF Log!Stored, LogInv, LogTypes, JobsInv
  <2>2. /\ pub' \in [Publisher -> {"idle", "waiting", "queued", "refused", "failed", "sealed",
                                   "cancelled", "stored"}]
        /\ \A p \in Publisher : pub'[p] = pub[p] \/ (p = wjob /\ pub'[p] = "stored")
    BY <2>1 DEF LogInv, LogTypes
  <2>3. LogTypes'
    BY <1>1, <2>1, <2>2 DEF LogInv, LogTypes, Log!calls, Log!shelf
  <2>4. IsFiniteSet(jobs') /\ Cardinality(jobs') = Cardinality(jobs) - 1
    BY <1>5, <2>1, FS_RemoveElement DEF LogInv, QuotaInv
  <2>5. QuotaInv'
    <3>1. Log!Producing' \subseteq Log!Producing
      BY <2>2 DEF Log!Producing
    <3>2. IsFiniteSet(Log!Producing') /\ Cardinality(Log!Producing') <= Entries + 1
      BY <3>1, FewerProduce DEF LogInv
    <3>3. Cardinality(jobs) \in Nat
      BY FS_CardinalityType DEF LogInv, QuotaInv
    <3> QED
      BY <2>1, <2>4, <3>2, <3>3, LogAssumption DEF LogInv, QuotaInv
  <2>6. JobsInv'
    <3>1. \A p \in Publisher :
            (InQueue(p)' <=> InQueue(p)) /\ (InQueue(p) => p # wjob) /\ ~AtHand(p)'
      BY <1>1 DEF InQueue, AtHand, LogInv, JobsInv
    <3>2. \A p \in Publisher : p \in jobs <=> InQueue(p) \/ p = wjob
      BY <1>1, <2>1 DEF LogInv, JobsInv, AtHand
    <3> QED
      BY <1>1, <2>1, <2>2, <3>1, <3>2 DEF LogInv, JobsInv
  <2>7. FlushInv'
    <3>1. flush.state = "flushed" => \A p \in flush.before : Visible(p)'
      BY <1>1 DEF LogInv, FlushInv
    <3>2. ASSUME flush.state = "waiting"
          PROVE  /\ \A p \in flush.before : Visible(p)' \/ p \in jobs'
                 /\ flush.before \cap jobs' # {} =>
                      completed' + Cardinality(flush.before \cap jobs') = flush.target
      <4>1. \A p \in flush.before : Visible(p)' \/ p \in jobs'
        BY <1>1, <2>1, <3>2 DEF LogInv, FlushInv
      <4>2. CASE wjob \in flush.before
        <5>1. IsFiniteSet(flush.before \cap jobs)
          <6>1. flush.before \cap jobs \subseteq jobs /\ IsFiniteSet(jobs)
            BY DEF LogInv, QuotaInv
          <6> QED
            BY <6>1, FS_Subset
        <5>2. /\ flush.before \cap jobs' = (flush.before \cap jobs) \ {wjob}
              /\ wjob \in flush.before \cap jobs
          BY <1>5, <2>1, <4>2
        <5>3. Cardinality(flush.before \cap jobs') = Cardinality(flush.before \cap jobs) - 1
          BY <5>1, <5>2, FS_RemoveElement
        <5>4. completed + Cardinality(flush.before \cap jobs) = flush.target
          BY <2>1, <3>2, <5>2 DEF LogInv, FlushInv
        <5>5. Cardinality(flush.before \cap jobs) \in Nat /\ completed \in Nat
          BY <5>1, FS_CardinalityType DEF LogInv, LogTypes
        <5> QED
          BY <2>1, <4>1, <5>3, <5>4, <5>5
      <4>3. CASE wjob \notin flush.before
        <5>1. \A i \in 1..Len(queue) : queue[i] \notin flush.before
          BY <1>1, <2>1, <3>2, <4>3 DEF LogInv, FlushInv
        <5>2. \A p \in Publisher : p \in jobs => p = wjob \/ InQueue(p)
          BY <2>1 DEF LogInv, JobsInv, AtHand
        <5>3. flush.before \cap jobs' = {}
          BY <2>1, <5>1, <5>2 DEF InQueue, LogInv, LogTypes
        <5> QED
          BY <4>1, <5>3
      <4> QED
        BY <4>2, <4>3
    <3> QED
      BY <1>1, <2>1, <3>1, <3>2 DEF LogInv, FlushInv, Log!calls
  <2> QED
    BY <1>2, <1>3, <1>4, <2>3, <2>5, <2>6, <2>7 DEF LogInv
<1>6. CASE wjob \notin jobs
  <2>1. UNCHANGED <<pub, jobs, pending, completed>>
    BY <1>6 DEF Log!Stored
  <2>2. LogTypes' /\ QuotaInv'
    BY <1>1, <2>1 DEF LogInv, LogTypes, QuotaInv, Log!Producing, Log!calls, Log!shelf
  <2>3. JobsInv'
    BY <1>1, <1>6, <2>1 DEF LogInv, JobsInv, InQueue, AtHand
  <2>4. FlushInv'
    BY <1>1, <2>1 DEF LogInv, FlushInv, Log!calls
  <2> QED
    BY <1>2, <1>3, <1>4, <2>2, <2>3, <2>4 DEF LogInv
<1> QED
  BY <1>5, <1>6

LEMMA RefusedKeeps ==
  ASSUME LogInv, Log!Refused
  PROVE  LogInv'
<1>1. JobsInv' /\ WriterInv' /\ FlushInv'
  BY LogAssumption DEF LogInv, LogTypes, JobsInv, WriterInv, EndInv, FlushInv, Busy, InQueue,
       AtHand, Visible, Log!IsInjective, Log!Refused, Log!Idle, Log!Fail, Log!Sealed,
           Log!Range1, Log!Signal, Log!calls,
       Log!publishing
<1>2. LogTypes'
  BY FailParts DEF Log!Refused, Log!Idle, Log!calls, LogInv, LogTypes
<1>3. QuotaInv'
  BY FailParts DEF Log!Refused
<1>4. EndInv'
  BY FailParts DEF Log!Refused, Log!Idle, Log!calls, LogInv, WriterInv, EndInv, Busy, Visible
<1>5. DiskInv'
  BY FailParts DEF Log!Refused, Log!Idle, LogInv, LogTypes, WriterInv, EndInv, DiskInv, Busy,
      Visible
<1> QED
  BY <1>1, <1>2, <1>3, <1>4, <1>5 DEF LogInv

LEMMA FlushKeeps ==
  ASSUME LogInv, Log!Flush
  PROVE  LogInv'
<1>1. QuotaInv' /\ JobsInv' /\ WriterInv' /\ EndInv' /\ DiskInv'
  BY LogAssumption DEF LogInv, LogTypes, JobsInv, WriterInv, EndInv, QuotaInv, DiskInv,
       Log!Producing, Busy, InQueue, AtHand, Visible, Log!IsInjective, Log!Line, Log!Flush,
           Log!Accepted,
       Log!publishing, Log!writer, Log!shelf
<1>2. LogTypes'
  <2>1. Log!Accepted \in Nat
    BY LogCounts, FS_CardinalityType DEF Log!Accepted, LogInv, LogTypes, QuotaInv
  <2> QED
    BY <2>1 DEF LogInv, LogTypes, Log!Flush, Log!publishing, Log!writer, Log!shelf
<1>3. FlushInv'
  <2>1. /\ flush' = [state |-> "waiting", target |-> completed + Cardinality(jobs),
                   before |-> jobs]
        /\ UNCHANGED <<queue, jobs, completed, logErr, wpc, wjob, committed>>
    BY LogCounts DEF Log!Flush, Log!Accepted, Log!publishing, Log!writer, Log!shelf
  <2>2. ASSUME ~logErr
        PROVE  /\ \A i \in 1..Len(queue) : queue[i] \in jobs
               /\ \A i \in 1..Len(queue) : Busy => wjob \in jobs
    <3>1. \A i \in 1..Len(queue) : queue[i] \in Publisher
      BY DEF LogInv, LogTypes
    <3>2. \A i \in 1..Len(queue) : queue[i] \in jobs
      BY <2>2, <3>1 DEF LogInv, JobsInv, InQueue
    <3>3. ASSUME NEW i \in 1..Len(queue), Busy PROVE wjob \in jobs
      <4>1. wjob \in Publisher
        BY <3>3 DEF LogInv, LogTypes, WriterInv, Log!Record
      <4> QED
        BY <2>2, <3>3, <4>1 DEF LogInv, JobsInv, AtHand
    <3> QED
      BY <3>2, <3>3
  <2>3. jobs \cap jobs = jobs
    OBVIOUS
  <2> QED
    BY <2>1, <2>2, <2>3 DEF FlushInv, Busy
<1> QED
  BY <1>1, <1>2, <1>3 DEF LogInv

LEMMA FlushReturnsKeeps ==
  ASSUME LogInv, Log!FlushReturns
  PROVE  LogInv'
<1>1. /\ flush.state = "waiting"
      /\ UNCHANGED <<Log!publishing, logErr, finishing, finish, Log!writer, Log!shelf, disk>>
  BY DEF Log!FlushReturns
<1>2. CASE flush' = flush
  BY <1>1, <1>2, Stays DEF Log!calls, Log!writer, Log!shelf, LogInv, LogTypes
<1>3. CASE flush' = [flush EXCEPT !.state = "failed"] \/
           (flush' = [flush EXCEPT !.state = "flushed"] /\ ~logErr /\ completed >= flush.target)
  <2>1. /\ flush' \in [state : {"none", "idle", "waiting", "flushed", "failed"}, target : Nat,
                       before : SUBSET Publisher]
        /\ flush'.before = flush.before /\ flush'.state # "waiting"
    BY <1>3 DEF LogInv, LogTypes
  <2>2. LogTypes' /\ QuotaInv'
    BY <1>1, <2>1 DEF LogInv, LogTypes, QuotaInv, Log!Producing, Log!publishing, Log!writer,
        Log!shelf
  <2>3. JobsInv' /\ WriterInv'
    BY <1>1 DEF LogInv, JobsInv, WriterInv, Busy, InQueue, AtHand, Visible, Log!publishing,
        Log!writer, Log!shelf
  <2>4. EndInv' /\ DiskInv'
    BY <1>1 DEF LogInv, EndInv, DiskInv, Visible, Log!writer, Log!shelf
  <2>5. ASSUME flush'.state = "flushed" PROVE \A p \in flush.before : Visible(p)
    <3>1. ~logErr /\ completed >= flush.target
      BY <1>3, <2>5 DEF LogInv, LogTypes
    <3>2. flush.before \cap jobs = {}
      <4> SUFFICES ASSUME flush.before \cap jobs # {} PROVE FALSE
        OBVIOUS
      <4>1. completed + Cardinality(flush.before \cap jobs) = flush.target
        BY <1>1, <3>1 DEF LogInv, FlushInv
      <4>2. flush.before \cap jobs \subseteq jobs /\ IsFiniteSet(jobs)
        BY DEF LogInv, QuotaInv
      <4>3. IsFiniteSet(flush.before \cap jobs)
        BY <4>2, FS_Subset
      <4>4. Cardinality(flush.before \cap jobs) \in Nat /\ Cardinality(flush.before \cap jobs) # 0
        BY <4>3, FS_CardinalityType, FS_EmptySet
      <4> QED
        BY <3>1, <4>1, <4>4 DEF LogInv, LogTypes
    <3> QED
      BY <1>1, <3>1, <3>2 DEF LogInv, FlushInv
  <2>6. FlushInv'
    BY <1>1, <2>1, <2>5 DEF FlushInv, Visible, Log!shelf
  <2> QED
    BY <2>2, <2>3, <2>4, <2>6 DEF LogInv
<1> QED
  BY <1>2, <1>3 DEF Log!FlushReturns

LEMMA FinishKeeps == ASSUME LogInv, Log!Finish PROVE LogInv'
  BY LogAssumption DEF LogInv, LogTypes, QuotaInv, JobsInv, WriterInv, EndInv, FlushInv,
       DiskInv, Log!Record, Log!Line, Log!Producing, Busy, InQueue, AtHand, Visible,
           Log!IsInjective, Log!Finish,
       Log!Signal, Log!publishing, Log!writer, Log!shelf

LEMMA FinishReturnsKeeps == ASSUME LogInv, Log!FinishReturns PROVE LogInv'
  BY LogAssumption DEF LogInv, LogTypes, QuotaInv, JobsInv, WriterInv, EndInv, FlushInv,
       DiskInv, Log!Record, Log!Line, Log!Producing, Busy, InQueue, AtHand, Visible,
           Log!IsInjective,
       Log!FinishReturns, Log!Done, Log!publishing, Log!writer, Log!shelf

LEMMA DisposeKeeps == ASSUME LogInv, Log!Dispose PROVE LogInv'
  BY LogAssumption DEF LogInv, LogTypes, QuotaInv, JobsInv, WriterInv, EndInv, FlushInv,
       DiskInv, Log!Record, Log!Line, Log!Producing, Busy, InQueue, AtHand, Visible,
           Log!IsInjective, Log!Dispose,
       Log!Done, Log!publishing, Log!calls, Log!writer

LEMMA SubscribeKeeps == ASSUME LogInv, Log!Subscribe PROVE LogInv'
  BY Stays DEF Log!Subscribe, Log!writer, Log!shelf, LogInv, LogTypes

LEMMA DetachKeeps == ASSUME LogInv, Log!Detach PROVE LogInv'
  BY Stays DEF Log!Detach, Log!writer, Log!shelf, LogInv, LogTypes

LEMMA NextRecordKeeps == ASSUME LogInv, Log!NextRecord PROVE LogInv'
  BY Stays DEF Log!NextRecord, Log!writer, Log!shelf, LogInv, LogTypes

LEMMA LogInitially == Log!Init => LogInv
<1> SUFFICES ASSUME Log!Init PROVE LogInv
  OBVIOUS
<1>1. /\ pub = [p \in Publisher |-> "idle"] /\ queue = <<>> /\ Len(queue) = 0
      /\ jobs = {} /\ pending = 0 /\ completed = 0
      /\ logErr = FALSE /\ finishing = FALSE /\ finish = "none" /\ wpc = "idle" /\ wjob = Terminal
      /\ expired = FALSE /\ failed = FALSE /\ disposed = FALSE
      /\ committed = <<>> /\ Len(committed) = 0 /\ disk = <<>> /\ Len(disk) = 0
      /\ flush.state \in {"none", "idle"} /\ flush.target = 0 /\ flush.before = {}
      /\ flush \in [state : {"none", "idle", "waiting", "flushed", "failed"}, target : Nat,
                   before : SUBSET Publisher]
  BY DEF Log!Init
<1>2. LogTypes
  <2>1. /\ pub \in [Publisher -> {"idle", "waiting", "queued", "refused", "failed", "sealed",
                                 "cancelled", "stored"}]
        /\ queue \in Seq(Publisher) /\ committed \in Seq(Log!Record)
        /\ disk \in Seq([record : Log!Record, whole : BOOLEAN])
    BY <1>1
  <2> QED
    BY <1>1, <2>1 DEF LogTypes, Log!Record
<1>3. QuotaInv
  <2>1. Log!Producing = {}
    BY <1>1 DEF Log!Producing
  <2>2. IsFiniteSet({}) /\ Cardinality({}) = 0
    BY FS_EmptySet
  <2> QED
    BY <1>1, <2>1, <2>2, LogAssumption DEF QuotaInv
<1>4. JobsInv
  BY <1>1 DEF JobsInv, InQueue, AtHand, Visible, Busy
<1>5. WriterInv
  BY <1>1 DEF WriterInv, Visible, Busy, Log!IsInjective
<1>6. EndInv /\ FlushInv /\ DiskInv
  BY <1>1 DEF EndInv, FlushInv, DiskInv, Visible
<1> QED
  BY <1>2, <1>3, <1>4, <1>5, <1>6 DEF LogInv

LEMMA LogStep == LogInv /\ [Log!Next]_Log!vars => LogInv'
<1> SUFFICES ASSUME LogInv, [Log!Next]_Log!vars PROVE LogInv'
  OBVIOUS
<1>1. ASSUME NEW p \in Publisher,
             Log!PublishContext(p) \/ Log!PublishInvalid(p) \/ Log!Enqueue(p) \/ Log!Cancelled(p)
      PROVE  LogInv'
  BY <1>1, PublishContextKeeps, PublishInvalidKeeps, EnqueueKeeps, CancelledKeeps
<1>2. CASE Log!Writing
  BY <1>2, RunKeeps, WriteRefusedKeeps, WriteKeeps, WriteFailsKeeps, CommitKeeps,
     CommitRefusedKeeps, DiscardTailKeeps, StoredKeeps, RefusedKeeps DEF Log!Writing
<1>3. CASE \/ Log!Expire \/ Log!TimerFails \/ Log!Flush
           \/ Log!FlushReturns \/ Log!Finish \/ Log!FinishReturns
  BY <1>3, ExpireKeeps, TimerFailsKeeps, FlushKeeps, FlushReturnsKeeps, FinishKeeps,
     FinishReturnsKeeps
<1>4. CASE Log!Dispose \/ Log!Subscribe \/ Log!Detach \/ Log!NextRecord
  BY <1>4, DisposeKeeps, SubscribeKeeps, DetachKeeps, NextRecordKeeps
<1>5. CASE UNCHANGED Log!vars
  BY <1>5, Stays DEF Log!vars, Log!writer, Log!shelf, LogInv, LogTypes
<1> QED
  BY <1>1, <1>2, <1>3, <1>4, <1>5 DEF Log!Next

----------------------------------------------------------------------------
(* What the invariant means for the callers and for the file.               *)

LEMMA AnswersFollow == LogInv => Log!AnswersAreTrue
<1> SUFFICES ASSUME LogInv PROVE Log!AnswersAreTrue
  OBVIOUS
<1>0. LogTypes
  BY DEF LogInv
<1>1. \A r : Visible(r) <=> r \in Log!Range1(committed)
  BY <1>0, VisibleIsRange
<1>2. ASSUME finish = "sealed" PROVE Log!Sealed /\ jobs = {} /\ ~failed
  <2>1. wpc = "exited" /\ ~logErr
    BY <1>2 DEF LogInv, EndInv
  <2>2. Visible(Terminal) /\ queue = <<>> /\ ~Busy
    BY <2>1 DEF LogInv, WriterInv, Busy
  <2>3. \A p \in Publisher : p \notin jobs
    BY <2>1, <2>2 DEF LogInv, JobsInv, InQueue, AtHand
  <2> QED
    BY <2>1, <2>2, <2>3, SealedIsVisible DEF LogInv, LogTypes, EndInv
<1>3. \A p \in Publisher : pub[p] = "stored" => p \in Log!Range1(committed)
  BY <1>1 DEF LogInv, JobsInv
<1>4. flush.state = "flushed" => flush.before \subseteq Log!Range1(committed)
  BY <1>1 DEF LogInv, FlushInv
<1> QED
  BY <1>2, <1>3, <1>4, LogCounts DEF Log!AnswersAreTrue, LogInv, QuotaInv, WriterInv

LEMMA Greatest ==
  ASSUME NEW S, NEW k \in S, S \subseteq Nat, \A i \in S : i <= k
  PROVE  Log!Max(S) = k
<1>1. \A x \in S : (\A y \in S : x >= y) <=> x = k
  OBVIOUS
<1> QED
  BY <1>1 DEF Log!Max

LEMMA ArchiveFollows == LogInv => Log!ArchiveKeepsPrefix
<1> SUFFICES ASSUME LogInv PROVE Log!ArchiveKeepsPrefix
  OBVIOUS
<1> DEFINE n == Len(committed)
<1>1. /\ n \in Nat /\ Len(disk) \in {n, n + 1} /\ committed \in Seq(Log!Record)
      /\ disk \in Seq([record : Log!Record, whole : BOOLEAN])
      /\ \A i \in 1..n : disk[i].record = committed[i] /\ disk[i].whole
  <2>1. \A i \in 1..n : disk[i] = Log!Line(committed[i], TRUE)
    BY DEF LogInv, DiskInv
  <2>2. ASSUME NEW i \in 1..n PROVE disk[i].record = committed[i] /\ disk[i].whole
    <3>1. disk[i] = [record |-> committed[i], whole |-> TRUE]
      BY <2>1 DEF Log!Line
    <3>2. disk[i].record = committed[i] /\ disk[i].whole = TRUE
      BY <3>1
    <3> QED
      BY <3>2
  <2> QED
    BY <2>2 DEF LogInv, LogTypes, DiskInv
<1>2. PICK k \in {n, n + 1} : /\ k <= Len(disk) /\ Log!Max(Log!Ended(disk)) = k
                              /\ \A i \in 1..k : disk[i].whole
  <2>1. Log!Ended(disk) \subseteq 0..Len(disk)
    BY <1>1 DEF Log!Ended
  <2>2. CASE Len(disk) = n + 1 /\ disk[n + 1].whole
    <3>1. /\ n + 1 \in Log!Ended(disk) /\ Log!Ended(disk) \subseteq Nat
          /\ \A i \in Log!Ended(disk) : i <= n + 1
      BY <1>1, <2>1, <2>2 DEF Log!Ended
    <3>2. Log!Max(Log!Ended(disk)) = n + 1
      BY <3>1, Greatest
    <3>3. \A i \in 1..n + 1 : disk[i].whole
      BY <1>1, <2>2
    <3> QED
      BY <1>1, <2>2, <3>2, <3>3
  <2>3. CASE ~(Len(disk) = n + 1 /\ disk[n + 1].whole)
    <3>1. n \in Log!Ended(disk)
      BY <1>1 DEF Log!Ended
    <3>2. \A i \in Log!Ended(disk) : i <= n
      BY <1>1, <2>3 DEF Log!Ended
    <3>3. Log!Max(Log!Ended(disk)) = n
      BY <1>1, <2>1, <3>1, <3>2, Greatest
    <3> QED
      BY <1>1, <3>3
  <2> QED
    BY <2>2, <2>3
<1> DEFINE lines == Log!ReadLines(disk)
<1>3. /\ Len(lines) = k /\ DOMAIN lines = 1..k
      /\ \A i \in 1..k : lines[i] = disk[i]
  BY <1>1, <1>2, Shortening DEF Log!ReadLines
<1> HIDE DEF lines
<1>4. /\ Log!Archive.events = [i \in DOMAIN lines |-> lines[i].record]
      /\ Log!Archive.valid <=> /\ \A i \in DOMAIN lines : lines[i].whole
                           /\ \A i \in {j \in DOMAIN lines : lines[j].record = Terminal} :
                                i = Len(disk)
  BY DEF Log!Archive, lines
<1>5. Log!Archive.valid
  <2>1. ASSUME NEW i \in 1..k, disk[i].record = Terminal PROVE i = Len(disk)
    <3>1. CASE i \in 1..n
      <4>1. i = n /\ Visible(Terminal)
        BY <1>1, <2>1, <3>1 DEF LogInv, EndInv, Visible
      <4>2. Len(disk) = n
        BY <4>1 DEF LogInv, EndInv, DiskInv
      <4> QED
        BY <4>1, <4>2
    <3>2. CASE i \notin 1..n
      BY <1>1, <1>2, <3>2
    <3> QED
      BY <3>1, <3>2
  <2> QED
    BY <1>2, <1>3, <1>4, <2>1
<1>6. /\ Len(Log!Archive.events) = k /\ DOMAIN Log!Archive.events = 1..k
      /\ \A i \in 1..n : Log!Archive.events[i] = committed[i]
  <2>1. Log!Archive.events = [i \in 1..k |-> disk[i].record]
    BY <1>3, <1>4
  <2>2. n <= k /\ k \in Nat
    BY <1>1, <1>2
  <2> QED
    BY <1>1, <2>1, <2>2
<1>7. Log!IsPrefix(committed, Log!Archive.events)
  <2>1. n <= k /\ k \in Nat
    BY <1>1, <1>2
  <2>2. SubSeq(committed, 1, n) = SubSeq(Log!Archive.events, 1, n)
    BY <1>1, <1>6, <2>1
  <2> QED
    BY <1>1, <1>6, <2>1, <2>2 DEF Log!IsPrefix
<1> QED
  BY <1>1, <1>2, <1>5, <1>6, <1>7 DEF Log!ArchiveKeepsPrefix

LEMMA LogInSession ==
  /\ MCInit => Log!Init
  /\ [MCNext]_allVars => [Log!Next]_Log!vars
<1>1. MCInit => Log!Init
  BY DEF MCInit
<1>2. UNCHANGED logVars => UNCHANGED Log!vars
  BY DEF logVars, Log!vars, Log!publishing, Log!calls, Log!writer, Log!shelf
<1>3. MCNext => Log!Next \/ UNCHANGED logVars
  BY DEF MCNext
<1>4. UNCHANGED allVars => UNCHANGED logVars
  BY DEF allVars
<1> QED
  BY <1>1, <1>2, <1>3, <1>4

(***************************************************************************)
(* What the log answers a publisher, a flush or a finish is true, and the   *)
(* quota is exact, for any publishers and any quota (eventlog.Log).         *)
(***************************************************************************)
THEOREM AnswersAlwaysTrue == MCSpec => []AnswersAreTrue
<1>1. LogInv => AnswersAreTrue
  BY AnswersFollow DEF AnswersAreTrue
<1>2. MCInit => LogInv
  BY LogInSession, LogInitially
<1>3. LogInv /\ [MCNext]_allVars => LogInv'
  BY LogInSession, LogStep
<1> QED
  BY <1>1, <1>2, <1>3, PTL DEF MCSpec

(***************************************************************************)
(* A crash at any moment leaves a file that opens, with every visible       *)
(* record in its order and at most one more (eventlog.JSONL, OpenJSONL).    *)
(***************************************************************************)
THEOREM ArchiveAlwaysKeepsPrefix == MCSpec => []ArchiveKeepsPrefix
<1>1. LogInv => ArchiveKeepsPrefix
  BY ArchiveFollows DEF ArchiveKeepsPrefix
<1>2. MCInit => LogInv
  BY LogInSession, LogInitially
<1>3. LogInv /\ [MCNext]_allVars => LogInv'
  BY LogInSession, LogStep
<1> QED
  BY <1>1, <1>2, <1>3, PTL DEF MCSpec

(***************************************************************************)
(* Once a failure of the log was reported nothing more becomes visible,     *)
(* although a write may still be under way (storeState.Fail, JSONL.write).  *)
(***************************************************************************)
THEOREM FailureAlwaysFreezes == MCSpec => Log!FailureFreezes
<1>1. Log!Writing /\ failed => UNCHANGED committed
  BY DEF Log!Writing, Log!Run, Log!WriteRefused, Log!Write, Log!WriteFails, Log!Commit,
     Log!CommitRefused, Log!DiscardTail, Log!Stored, Log!Refused, Log!Writable, Log!shelf
<1>2. Log!Next /\ failed => UNCHANGED committed
  BY <1>1
     DEF Log!Next, Log!PublishContext, Log!PublishInvalid, Log!Enqueue, Log!Cancelled,
         Log!Expire, Log!TimerFails, Log!Flush, Log!FlushReturns, Log!Finish,
         Log!FinishReturns, Log!Dispose, Log!Subscribe, Log!Detach, Log!NextRecord, Log!shelf
<1>3. UNCHANGED Log!vars => UNCHANGED committed
  BY DEF Log!vars, Log!shelf
<1>4. [MCNext]_allVars => [failed => committed' = committed]_Log!vars
  BY <1>2, <1>3, LogInSession
<1> QED
  BY <1>4, PTL DEF MCSpec, Log!FailureFreezes
=============================================================================
