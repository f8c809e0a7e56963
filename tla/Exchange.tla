------------------------------ MODULE Exchange ------------------------------
(***************************************************************************)
(* One agent's exchange with its model (agent/agent.go, output.go,         *)
(* interrupt.go): a request, the response it generates, the batch of tool  *)
(* calls the response asks for, run one after another or all at once, and  *)
(* the history that must hold one result for every call before the model   *)
(* is asked again, through regenerations, repeated calls, a stop, and an   *)
(* interruption at any point.                                              *)
(***************************************************************************)
EXTENDS Naturals, Sequences, FiniteSets

CONSTANTS Ids,           \* the ids a model gives its calls; it may repeat one
          MaxBatch,      \* bound: calls of one batch
          MaxHistory,    \* bound: entries of the history
          MaxRetries,    \* maxMalformedCalls, maxReasoningRetries
          MaxRepeated,   \* maxRepeatedCalls
          MaxInterrupts  \* bound: interruptions

VARIABLES
  phase,       \* where the loop is
  history,     \* the thread: messages, batches of calls, results
  batch,       \* the calls of the response being settled
  next,        \* the call of the batch whose result is due
  together,    \* the batch runs at once
  started,     \* which of its calls were started
  retries,     \* regenerations since the last response
  repeated,    \* consecutive calls with one request and one outcome
  cut,         \* the exchange's context is cancelled
  interrupt,   \* "none" | "asked" | "settled"
  stop,        \* a stop was requested
  interrupts,  \* how many interruptions there were
  unrun        \* history: started calls that the history says did not run

vars == <<phase, history, batch, next, together, started, retries, repeated,
          cut, interrupt, stop, interrupts, unrun>>

Said(role)         == [role |-> role, calls |-> <<>>, call |-> ""]
Asked(calls)       == [role |-> "assistant", calls |-> calls, call |-> ""]
Result(id)         == [role |-> "tool", calls |-> <<>>, call |-> id]

Phases == {"wait", "ask", "generate", "batch", "running", "after", "fence", "stopped"}

TypeOK ==
  /\ phase \in Phases
  /\ \A i \in DOMAIN history : history[i].role \in {"user", "assistant", "tool"}
  /\ next \in 1 .. MaxBatch + 1 /\ Len(batch) <= MaxBatch
  /\ retries \in 0 .. MaxRetries /\ repeated \in 0 .. MaxRepeated
  /\ interrupt \in {"none", "asked", "settled"}

Init ==
  /\ phase = "wait" /\ history = <<>>
  /\ batch = <<>> /\ next = 1 /\ together = FALSE /\ started = {}
  /\ retries = 0 /\ repeated = 0
  /\ cut = FALSE /\ interrupt = "none" /\ stop = FALSE /\ interrupts = 0
  /\ unrun = 0

-----------------------------------------------------------------------------
control == <<cut, interrupt, stop, interrupts>>
running == <<batch, next, together, started>>
Room == Len(history) < MaxHistory

(* A message is consumed and wakes the agent.                              *)
Consume ==
  /\ phase = "wait" /\ ~cut /\ ~stop /\ Room
  /\ history' = Append(history, Said("user"))
  /\ phase' = "ask"
  /\ retries' = 0
  /\ UNCHANGED <<running, repeated, control, unrun>>

(* A checkpoint before the request, then the provider is asked.            *)
Request ==
  /\ phase = "ask" /\ ~cut /\ ~stop
  /\ phase' = "generate"
  /\ UNCHANGED <<history, running, retries, repeated, control, unrun>>

(* The response was malformed, or cut off while reasoning: nothing of it   *)
(* enters the history, a notice does, and the model is asked again, a      *)
(* bounded number of times. After that the agent fails.                    *)
Regenerate ==
  /\ phase = "generate" /\ ~cut
  /\ IF retries < MaxRetries
     THEN /\ Room
          /\ retries' = retries + 1
          /\ history' = Append(history, Said("user"))
          /\ phase' = "ask"
     ELSE /\ phase' = "stopped"
          /\ UNCHANGED <<retries, history>>
  /\ UNCHANGED <<running, repeated, control, unrun>>

(* The response is committed to the history unless the exchange was cut or *)
(* a stop was requested: the control lock decides.                         *)
Respond(calls, atOnce) ==
  /\ phase = "generate" /\ ~cut /\ ~stop /\ Room
  /\ history' = Append(history, Asked(calls))
  /\ retries' = 0
  /\ batch' = calls /\ next' = 1 /\ started' = {}
  /\ together' = (atOnce /\ Len(calls) > 1)
  /\ phase' = IF calls = <<>> THEN "wait" ELSE IF together' THEN "running" ELSE "batch"
  /\ UNCHANGED <<repeated, control, unrun>>

(* A reply check, or a reply that is sent, ends the exchange the same way  *)
(* for the history: see Respond with no calls. A check that has a notice   *)
(* asks again instead.                                                     *)
ReplyRefused ==
  /\ phase = "generate" /\ ~cut /\ ~stop /\ Len(history) + 1 < MaxHistory
  /\ history' = history \o <<Asked(<<>>), Said("user")>>
  /\ phase' = "ask"
  /\ retries' = 0
  /\ UNCHANGED <<running, repeated, control, unrun>>

(* A cancelled or failing request leaves no trace in the history.          *)
GenerationEnds ==
  /\ phase = "generate" /\ (cut \/ stop)
  /\ phase' = "after"
  /\ UNCHANGED <<history, running, retries, repeated, control, unrun>>

(* invokeTogether, after one checkpoint: every call of the batch starts,   *)
(* and all of them run before the first result is settled.                 *)
RunTogether ==
  /\ phase = "running" /\ ~cut /\ ~stop
  /\ started' = DOMAIN batch
  /\ phase' = "batch"
  /\ UNCHANGED <<history, batch, next, together, retries, repeated, control, unrun>>

(* invokeCall, after a checkpoint of its own: the call starts.             *)
Start ==
  /\ phase = "batch" /\ ~together /\ ~cut /\ ~stop
  /\ next <= Len(batch) /\ next \notin started
  /\ started' = started \union {next}
  /\ UNCHANGED <<phase, history, batch, next, together, retries, repeated, control, unrun>>

Lost(id) == history
Recorded(id) == Append(history, Result(id))

(* The result of a call that was cut short is recorded too, and then the   *)
(* exchange unwinds; any other result is recorded, and the agent fails     *)
(* when it has seen it too often.                                          *)
Settle(same) ==
  /\ phase = "batch" /\ next \in started
  /\ IF cut
     THEN /\ history' = Recorded(batch[next])
          /\ phase' = "after"
          /\ next' = next + 1
          /\ UNCHANGED repeated
     ELSE /\ history' = Append(history, Result(batch[next]))
          /\ repeated' = IF same THEN repeated + 1 ELSE 1
          /\ next' = next + 1
          /\ phase' = IF repeated' >= MaxRepeated THEN "stopped" ELSE "batch"
  /\ UNCHANGED <<batch, together, started, retries, control, unrun>>

(* The batch is settled: the model is asked again, or a control tool ends  *)
(* the exchange.                                                           *)
BatchEnds(yielded) ==
  /\ phase = "batch" /\ next > Len(batch)
  /\ phase' = IF yielded THEN "wait" ELSE "ask"
  /\ UNCHANGED <<history, running, retries, repeated, control, unrun>>

(* A checkpoint, or the wait for the inbox, meets the cancelled context.   *)
Unwind ==
  /\ cut \/ stop
  /\ \/ phase \in {"wait", "ask", "running"}
     \/ phase = "batch" /\ next \notin started
  /\ phase' = "after"
  /\ UNCHANGED <<history, running, retries, repeated, control, unrun>>

-----------------------------------------------------------------------------
(* pendingCalls: the calls of the last assistant message, less one for     *)
(* each result after it with the same id.                                  *)
Positions(role) == {i \in DOMAIN history : history[i].role = role}
LastAsked == CHOOSE i \in Positions("assistant") : \A j \in Positions("assistant") : j <= i
Results(id, from) == Cardinality({i \in Positions("tool") : i > from /\ history[i].call = id})

PendingCalls ==
  IF Positions("assistant") = {} THEN {}
  ELSE LET calls == history[LastAsked].calls
       IN {i \in DOMAIN calls :
             Cardinality({j \in 1 .. i : calls[j] = calls[i]}) > Results(calls[i], LastAsked)}

(* Every call without a result gets one that says that it did not run, in  *)
(* the order of the calls.                                                 *)
NoneCancelled == <<>>
Pending(k) == CHOOSE i \in PendingCalls : Cardinality({j \in PendingCalls : j <= i}) = k
Cancelled ==
  [k \in 1 .. Cardinality(PendingCalls) |-> Result(history[LastAsked].calls[Pending(k)])]

SettleInterrupt ==
  /\ phase = "after" /\ interrupt = "asked"
  /\ history' = (history \o Cancelled) \o <<Said("user")>>
  /\ unrun' = unrun + Cardinality({i \in started : i >= next /\ i \in DOMAIN batch})
  /\ interrupt' = IF stop THEN interrupt ELSE "settled"
  /\ phase' = IF stop THEN "stopped" ELSE "fence"
  /\ batch' = <<>> /\ next' = 1 /\ started' = {} /\ together' = FALSE
  /\ repeated' = 0
  /\ UNCHANGED <<retries, cut, stop, interrupts>>

Stopped ==
  /\ phase \in {"after", "fence"} /\ stop /\ (phase = "after" => interrupt # "asked")
  /\ phase' = "stopped"
  /\ UNCHANGED <<history, running, retries, repeated, control, unrun>>

RequestInterrupt ==
  /\ interrupt = "none" /\ interrupts < MaxInterrupts /\ phase # "stopped"
  /\ interrupt' = "asked" /\ cut' = TRUE /\ interrupts' = interrupts + 1
  /\ UNCHANGED <<phase, history, running, retries, repeated, stop, unrun>>

(* The fence is lifted, and the next exchange has a context of its own.    *)
ReleaseInterrupt ==
  /\ interrupt = "settled" /\ phase = "fence" /\ ~stop
  /\ interrupt' = "none" /\ cut' = FALSE
  /\ phase' = "wait"
  /\ UNCHANGED <<history, running, retries, repeated, stop, interrupts, unrun>>

(* A stop cancels the context of the whole loop as well.                   *)
RequestStop ==
  /\ ~stop /\ phase # "stopped"
  /\ stop' = TRUE /\ cut' = TRUE
  /\ UNCHANGED <<phase, history, running, retries, repeated, interrupt, interrupts, unrun>>

Batches == UNION {[1 .. n -> Ids] : n \in 0 .. MaxBatch}

Next ==
  \/ Consume \/ Request \/ Regenerate \/ ReplyRefused \/ GenerationEnds
  \/ \E calls \in Batches, atOnce \in BOOLEAN : Respond(calls, atOnce)
  \/ RunTogether \/ Start \/ Unwind
  \/ \E same \in BOOLEAN : Settle(same)
  \/ \E yielded \in BOOLEAN : BatchEnds(yielded)
  \/ SettleInterrupt \/ Stopped
  \/ RequestInterrupt \/ ReleaseInterrupt \/ RequestStop

Spec == Init /\ [][Next]_vars

-----------------------------------------------------------------------------
(* Whenever the model is asked, every call it ever made has one result and *)
(* no more, between the call and the next response, also when it gave two  *)
(* calls one id, and also when an interruption cut the batch anywhere:     *)
(* providers refuse a history that is not so (settleInterrupt).            *)
EveryCallAnswered ==
  phase = "generate" =>
    \A p \in Positions("assistant") :
      LET later == {q \in Positions("assistant") : q > p}
          upto  == IF later = {} THEN Len(history) + 1
                   ELSE CHOOSE q \in later : \A r \in later : q <= r
      IN \A id \in Ids :
           Cardinality({i \in DOMAIN history[p].calls : history[p].calls[i] = id}) =
           Cardinality({i \in Positions("tool") : p < i /\ i < upto /\ history[i].call = id})

(* A call that the history says did not run was never started: "remaining  *)
(* calls never ran" (agent/interrupt.go:100). The code does not keep this  *)
(* for a batch run at once: all of it ran when the first result unwinds    *)
(* the exchange.                                                           *)
RemainingCallsNeverRan == unrun = 0
=============================================================================
