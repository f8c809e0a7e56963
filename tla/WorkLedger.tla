----------------------------- MODULE WorkLedger -----------------------------
(***************************************************************************)
(* How a mutation of the work ledger reaches the event log and the         *)
(* dispatcher (beginMutation, endMutation, PendingEvents and               *)
(* AcknowledgeEvent of work.Store, the loop of workflow.Session).          *)
(*                                                                         *)
(* A mutation holds the emission lock from its first change until its      *)
(* last event is published, but it releases the state lock while it        *)
(* publishes: readers and PendingEvents run in between.  The events of     *)
(* one mutation are published one at a time, any of them may be refused,   *)
(* and only the last carries the changed records.                          *)
(*                                                                         *)
(* What a mutation changes is WorkStore's business: here it advances the   *)
(* versions of some records.  Events are numbered as they are minted.      *)
(***************************************************************************)
EXTENDS Integers, Sequences, SequencesExt

CONSTANTS
  Record,          \* works, plans, submissions and audits
  MaxMinted,       \* bounds the events minted
  MaxEvents        \* the most events one mutation appends

VARIABLES
  store,       \* the version of each record
  events,      \* appended and not acknowledged
  visible,     \* visibleEvents: how many of them the dispatcher may see
  failure,     \* a publication has failed
  ready,       \* the coalesced wakeup (a channel of one)
  sending,     \* index of the next event to publish; 0: no mutation under way
  minted,      \* events minted so far
  log,         \* the accepted events
  dispatch,    \* what the dispatcher is doing
  batch,       \* the pending events it has read
  attempted,   \* ids of pending events it has handled before
  dispatched,  \* ids of all the events it has handled, in order (history)
  held         \* ids of handled events that await their recipient

storeVars == <<store, events, visible, failure, sending, minted, log>>
dispatchVars == <<dispatch, batch, attempted, dispatched, held>>
vars == <<storeVars, ready, dispatchVars>>

\* The records an event carries; most events carry none.
Nothing == [r \in {} |-> 0]

----------------------------------------------------------------------------
(* The store. *)

\* Faulty variant: each event carries a change of its own.
EventsOfEach(n, owned, change) ==
  [i \in 1..n |-> [id |-> minted + i, owned |-> i \in owned,
                   change |-> IF i = n THEN change
                              ELSE LET first == CHOOSE r \in DOMAIN change : TRUE
                                   IN [r \in {first} |-> change[r]]]]
\* Faulty variant: one changed record is left out of the change.
EventsOfOne(n, owned, change) ==
  [i \in 1..n |-> [id |-> minted + i, owned |-> i \in owned,
                   change |-> IF i = n
                              THEN LET first == CHOOSE r \in DOMAIN change : TRUE
                                   IN [r \in {first} |-> change[r]]
                              ELSE Nothing]]

\* The last event of a mutation carries all it changed.  An owned event is one an
\* owner must consume.
EventsOf(n, owned, change) ==
  [i \in 1..n |-> [id |-> minted + i, owned |-> i \in owned,
                   change |-> IF i = n THEN change ELSE Nothing]]

Mutable == sending = 0 /\ ~failure

\* beginMutation, the operation, and the first part of endMutation.  A refused
\* request changes nothing and appends nothing.
Mutate(changed, n, owned) ==
  /\ Mutable
  /\ minted + n <= MaxMinted
  /\ store' = [r \in Record |-> IF r \in changed THEN store[r] + 1 ELSE store[r]]
  /\ events' = events \o EventsOf(n, owned, [r \in changed |-> store'[r]])
  /\ minted' = minted + n
  /\ sending' = visible + 1
  /\ UNCHANGED <<visible, failure, ready, log, dispatchVars>>

\* Reporter.Publish accepts the next event.
Publish ==
  /\ sending \in 1..Len(events)
  /\ log' = Append(log, events[sending])
  /\ sending' = sending + 1
  /\ UNCHANGED <<store, events, visible, failure, ready, minted, dispatchVars>>

\* It refuses it: the rest of the mutation is never published, and the store
\* takes no further mutation.
PublishFails ==
  /\ sending \in 1..Len(events)
  /\ failure' = TRUE
  /\ sending' = 0
  /\ UNCHANGED <<store, events, visible, ready, minted, log, dispatchVars>>

\* Every event is published: the dispatcher may see them.
EndMutation ==
  /\ sending > Len(events)
  /\ visible' = Len(events)
  /\ ready' = TRUE
  /\ sending' = 0
  /\ UNCHANGED <<store, events, failure, minted, log, dispatchVars>>

\* Where an event is pending.
PositionsOf(id) == {i \in 1..Len(events) : events[i].id = id}

\* AcknowledgeEvent waits for the emission lock.  It drops the first event of the id.
Acknowledged(id) ==
  /\ sending = 0
  /\ \/ PositionsOf(id) = {} /\ UNCHANGED <<events, visible>>
     \/ \E i \in PositionsOf(id) :
          /\ \A j \in PositionsOf(id) : i <= j
          /\ events' = RemoveAt(events, i)
          /\ visible' = IF i <= visible THEN visible - 1 ELSE visible

----------------------------------------------------------------------------
(* The dispatcher: it waits for Ready, reads the pending events and handles *)
(* each of them once; the events an owner must consume stay pending until   *)
(* the owner has.                                                           *)

Wake ==
  /\ dispatch = "waiting" /\ ready
  /\ ready' = FALSE
  /\ dispatch' = "reading"
  /\ UNCHANGED <<storeVars, batch, attempted, dispatched, held>>

\* The timer of the notice queue drains as well.
Tick ==
  /\ dispatch = "waiting" /\ held # {}
  /\ dispatch' = "reading"
  /\ UNCHANGED <<storeVars, ready, batch, attempted, dispatched, held>>

\* Faulty variant: all appended events are read.
PendingAll == events
PendingEvents == SubSeq(events, 1, visible)

ReadPending ==
  /\ dispatch = "reading"
  /\ batch' = PendingEvents
  /\ dispatch' = "handling"
  /\ UNCHANGED <<storeVars, ready, attempted, dispatched, held>>

\* Faulty variant: a pending event is handled whenever it is read.
NeverAttempted(id) == FALSE
Attempted(id) == id \in attempted

\* An event whose handling ends at once is acknowledged and forgotten.
HandleAndAcknowledge ==
  /\ dispatch = "handling" /\ batch # <<>>
  /\ LET id == Head(batch).id IN
     /\ ~Attempted(id) /\ ~Head(batch).owned
     /\ Acknowledged(id)
     /\ dispatched' = Append(dispatched, id)
  /\ batch' = Tail(batch)
  /\ UNCHANGED <<store, failure, ready, sending, minted, log, dispatch, attempted, held>>

\* One that notifies an owner, or waits in the notice queue, stays pending.
HandleAndHold ==
  /\ dispatch = "handling" /\ batch # <<>>
  /\ LET id == Head(batch).id IN
     /\ ~Attempted(id) /\ Head(batch).owned
     /\ dispatched' = Append(dispatched, id)
     /\ attempted' = attempted \cup {id}
     /\ held' = held \cup {id}
  /\ batch' = Tail(batch)
  /\ UNCHANGED <<storeVars, ready, dispatch>>

\* A pending event that was handled before is passed over.
Skip ==
  /\ dispatch = "handling" /\ batch # <<>>
  /\ Attempted(Head(batch).id)
  /\ batch' = Tail(batch)
  /\ UNCHANGED <<storeVars, ready, dispatch, attempted, dispatched, held>>

\* Faulty variant: a wakeup that came while the batch was handled is dropped.
DrainedClearing ==
  /\ dispatch = "handling" /\ batch = <<>>
  /\ dispatch' = "waiting" /\ ready' = FALSE
  /\ UNCHANGED <<storeVars, batch, attempted, dispatched, held>>

Drained ==
  /\ dispatch = "handling" /\ batch = <<>>
  /\ dispatch' = "waiting"
  /\ UNCHANGED <<storeVars, ready, batch, attempted, dispatched, held>>

\* The owner consumed the notification: the loop takes the receipt, and forgets
\* the event.
Consumed(id) ==
  /\ dispatch = "waiting" /\ id \in held
  /\ Acknowledged(id)
  /\ held' = held \ {id} /\ attempted' = attempted \ {id}
  /\ UNCHANGED <<store, failure, ready, sending, minted, log, dispatch, batch, dispatched>>

\* A queued notice is overtaken by its work: it is retired while an event is
\* handled (or on the timer), and not forgotten.
Retire(id) ==
  /\ dispatch \in {"waiting", "handling"} /\ id \in held
  /\ Acknowledged(id)
  /\ held' = held \ {id}
  /\ UNCHANGED <<store, failure, ready, sending, minted, log, dispatch, batch, attempted,
                 dispatched>>

----------------------------------------------------------------------------
Init ==
  /\ store = [r \in Record |-> 0]
  /\ events = <<>> /\ visible = 0 /\ failure = FALSE /\ ready = FALSE
  /\ sending = 0 /\ minted = 0 /\ log = <<>>
  /\ dispatch = "waiting" /\ batch = <<>>
  /\ attempted = {} /\ dispatched = <<>> /\ held = {}

Mutation ==
  \/ \E changed \in (SUBSET Record) \ {{}}, n \in 1..MaxEvents :
       \E owned \in SUBSET (1..n) : Mutate(changed, n, owned)
  \/ Publish \/ PublishFails \/ EndMutation

Dispatching ==
  \/ Wake \/ ReadPending \/ HandleAndAcknowledge \/ HandleAndHold \/ Skip \/ Drained

Next == Mutation \/ Dispatching \/ Tick \/ \E id \in held : Consumed(id) \/ Retire(id)

\* Publish returns (the log answers every publication), and the dispatcher's
\* goroutine runs.  Nobody is obliged to mutate, nor an owner to read.
Fairness ==
  /\ WF_vars(Publish \/ PublishFails \/ EndMutation)
  /\ WF_vars(Dispatching)

Spec == Init /\ [][Next]_vars /\ Fairness

----------------------------------------------------------------------------
(* What publication promises. *)

TypeOK ==
  /\ store \in [Record -> 0..minted]
  /\ visible \in 0..Len(events) /\ sending \in 0..Len(events) + 1
  /\ failure \in BOOLEAN /\ ready \in BOOLEAN
  /\ \A i \in DOMAIN events : events[i].id \in 1..minted
  /\ dispatch \in {"waiting", "reading", "handling"}
  /\ held \subseteq attempted /\ attempted \subseteq 1..minted

\* ReadModel.Apply, over accepted events in order.
Replayed(accepted, r) ==
  LET carrying == {i \in DOMAIN accepted : r \in DOMAIN accepted[i].change} IN
  IF carrying = {} THEN 0
  ELSE accepted[CHOOSE i \in carrying : \A j \in carrying : j <= i].change[r]
Replay == [r \in Record |-> Replayed(log, r)]

\* Between mutations the replayed log gives the live records, unless a
\* publication has failed.
ReplayMatches == sending = 0 /\ ~failure => Replay = store

\* A replay sees each mutation whole or not at all, and lags by no more than the
\* mutation being published; a failed publication hides exactly the mutation it
\* belongs to and is the last (endMutation, Change, Apply).
ReplayAtomic == INSTANCE LedgerReplay WITH live <- store, view <- Replay, frozen <- failure
ReplayIsAtomic == ReplayAtomic!Spec

\* The dispatcher acts on an event only once the log holds it, and on the whole
\* mutation it belongs to: no message is routed for what a replay would not show.
DispatchedArePublished ==
  \A id \in ToSet(dispatched) :
    /\ \E i \in DOMAIN log : log[i].id = id
    /\ sending # 0 => \A i \in visible + 1..Len(events) : events[i].id # id

\* Events are first handled in the order they were minted, none is passed over
\* and none is handled twice, however acknowledgements and mutations interleave.
HandledInOrder == \A i \in DOMAIN dispatched : dispatched[i] = i

\* An acknowledged event never comes back, and one that awaits its owner stays
\* pending.
HeldStayPending ==
  \A id \in ToSet(dispatched) : id \in held <=> \E i \in DOMAIN events : events[i].id = id

\* The store, the log, the dispatcher and the owners see the same ledger.
PublicationHolds ==
  ReplayMatches /\ DispatchedArePublished /\ HandledInOrder /\ HeldStayPending

\* Every event of a mutation that was published in full is eventually handled:
\* the coalesced wakeup is never lost.
Handled(id) == id \in ToSet(dispatched)
EveryEventHandled == []<>(\A i \in 1..visible : Handled(events[i].id))

============================================================================
