------------------------------ MODULE Startup -------------------------------
(***************************************************************************)
(* How a session comes to be and how it is given up (New in                *)
(* harness/session.go, lifecycle.go, Dispose in events.go, and the group   *)
(* of internal/resource).  New takes one thing after another; wherever it  *)
(* fails it disposes of what it has, within a deadline, and what that      *)
(* leaves stays with the error it returns, whose Close tries again.        *)
(***************************************************************************)
EXTENDS Naturals, Sequences, SequencesExt, Functions

CONSTANTS
  Tooling,    \* What the configuration asks for, in the order New takes it:
  Reading,    \* transport, lsp, web, scratch lsp; then reader, workspace copies.
  MaxCalls    \* Bound: calls of Dispose.

VARIABLES
  stage,      \* Where New is.
  entries,    \* resources.entries.
  store,      \* none, free: New alone has it, kept: the group or the log does.
  log,        \* none, open, failed, finished, disposed.
  agents,     \* The controller and the workflow: none, open, closed.
  owner,      \* The caller's context is cancelled.
  registered, \* stopOwner is set.
  state, reason, startupError, \* Session.
  attempt,    \* What finalize is at, if it runs.
  at, bad,    \* The entry it is at; whether one failed.
  refused,    \* The log refused the outcome.
  attempts,
  call,       \* What the call of Dispose under way is at.
  calls,
  returned    \* What New has returned: nothing, a session, an error, a handle.

vars == <<stage, entries, store, log, agents, owner, registered, state, reason, startupError,
          attempt, at, bad, refused, attempts, call, calls, returned>>

building == <<stage, entries, store, log, agents>>
closing == <<state, reason, attempt, at, bad, refused, attempts>>
waiting == <<call, calls>>

Init ==
  /\ stage = "resources" /\ entries = << >> /\ store = "none" /\ log = "none" /\ agents = "none"
  /\ owner = FALSE /\ registered = FALSE /\ state = "open" /\ reason = "none" /\ startupError = FALSE
  /\ attempt = "none" /\ at = 0 /\ bad = FALSE /\ refused = FALSE /\ attempts = 0
  /\ call = "none" /\ calls = 0 /\ returned = "nothing"

\* Group.Add.
Entry(name) == [name |-> name, closed |-> FALSE, tried |-> FALSE, times |-> 0]
Add(name) == entries' = Append(entries, Entry(name))

-----------------------------------------------------------------------------
(* New, stage by stage; each but the last may fail.                        *)

At(s) == stage = s /\ returned = "nothing" /\ ~startupError
Proceed(next) == stage' = next /\ UNCHANGED <<startupError, call, calls>>

\* The deferred function: the error is recorded, and what there is disposed of.
Fail == startupError' = TRUE /\ call' = "close" /\ calls' = calls + 1 /\ UNCHANGED stage

Rest == UNCHANGED <<owner, registered, state, reason, attempt, at, bad, refused, attempts,
                  returned>>

\* The caller's resources are owned even when one of them is nil.
TakeResources ==
  /\ At("resources") /\ Add("injected") /\ (Proceed("config") \/ Fail)
  /\ UNCHANGED <<store, log, agents>> /\ Rest

CheckConfig ==
  /\ At("config")
  /\ \/ ~owner /\ Proceed("store")
     \/ Fail
  /\ UNCHANGED <<entries, store, log, agents>> /\ Rest

\* A store the factory returns with an error is released too.
OpenStore ==
  /\ At("store")
  /\ \/ store' = "free" /\ Proceed("head") /\ UNCHANGED entries
     \/ store' = "kept" /\ Add("event store") /\ Fail
     \/ Fail /\ UNCHANGED <<entries, store>>
  /\ UNCHANGED <<log, agents>> /\ Rest

CheckHead ==
  /\ At("head")
  /\ \/ Proceed("log") /\ UNCHANGED <<entries, store>>
     \/ Add("invalid event store") /\ store' = "kept" /\ Fail
  /\ UNCHANGED <<log, agents>> /\ Rest

\* The log owns the store from here on.
OpenLog ==
  /\ At("log") /\ log' = "open" /\ store' = "kept"
  /\ Proceed("tools") \/ Fail
  /\ UNCHANGED <<entries, agents>> /\ Rest

\* The parts in order: each is added once it is there, and what is built with
\* it may fail after.
Order == Tooling \o Reading
Taken == {entries[i].name : i \in DOMAIN entries}
TakePart(list, next) ==
  LET left == SelectSeq(list, LAMBDA p : p \notin Taken)
  IN IF left = << >> THEN Proceed(next) /\ UNCHANGED entries
     ELSE \/ Add(Head(left)) /\ (Proceed(stage) \/ Fail)
          \/ Fail /\ UNCHANGED entries

TakeTools ==
  /\ At("tools") /\ TakePart(Tooling, "conversation")
  /\ UNCHANGED <<store, log, agents>> /\ Rest

\* The controller is there from here on, to be closed too.
Converse ==
  /\ At("conversation") /\ agents' = "open" /\ Proceed("readers")
  /\ UNCHANGED <<entries, store, log>> /\ Rest

TakeReaders ==
  /\ At("readers") /\ TakePart(Reading, "workflow")
  /\ UNCHANGED <<store, log, agents>> /\ Rest

BuildWorkflow ==
  /\ At("workflow") /\ (Proceed("bootstrap") \/ Fail)
  /\ UNCHANGED <<entries, store, log, agents>> /\ Rest

\* The manager, and the debugger; a context that has ended is a failure.
Bootstrap ==
  /\ At("bootstrap")
  /\ \/ ~owner /\ log = "open" /\ Proceed("configuration")
     \/ Fail
  /\ UNCHANGED <<entries, store, log, agents>> /\ Rest

PublishConfiguration ==
  /\ At("configuration")
  /\ \/ log = "open" /\ Proceed("return") /\ UNCHANGED log
     \/ Fail /\ log' = "failed"
  /\ UNCHANGED <<entries, store, agents>> /\ Rest

Return ==
  /\ At("return") /\ returned' = "session" /\ registered' = TRUE
  /\ UNCHANGED building /\ UNCHANGED closing /\ UNCHANGED waiting /\ UNCHANGED <<owner, startupError>>

\* A write of the log fails, or takes too long: it records nothing any more.
LogFails ==
  /\ log = "open" /\ log' = "failed"
  /\ UNCHANGED <<stage, entries, store, agents, owner, registered, startupError, returned>>
  /\ UNCHANGED closing /\ UNCHANGED waiting

OwnerCancels ==
  /\ ~owner /\ owner' = TRUE
  /\ UNCHANGED building /\ UNCHANGED closing /\ UNCHANGED waiting /\ UNCHANGED <<registered, startupError, returned>>

-----------------------------------------------------------------------------
(* Closing.                                                                *)

\* startCloseReason: whoever comes while an attempt runs joins it, and so does
\* whoever comes after one that succeeded.
StartClose(why) ==
  IF attempt # "none" THEN UNCHANGED closing ELSE
  /\ attempt' = "settle" /\ at' = 0 /\ bad' = FALSE /\ attempts' = attempts + 1 /\ UNCHANGED refused
  /\ state' = IF state = "open" THEN "closing" ELSE state
  /\ reason' = IF state # "open" THEN reason ELSE IF startupError THEN "startup_failed" ELSE why

OwnerCloses ==
  /\ owner /\ registered /\ registered' = FALSE
  /\ StartClose("owner_cancelled")
  /\ UNCHANGED building /\ UNCHANGED waiting /\ UNCHANGED <<owner, startupError, returned>>

\* Dispose, by the host of a session or through the handle of an error.
Dispose ==
  /\ returned \in {"session", "handle"} /\ call = "none" /\ calls < MaxCalls
  /\ call' = "close" /\ calls' = calls + 1
  /\ UNCHANGED building /\ UNCHANGED closing /\ UNCHANGED <<owner, registered, startupError, returned>>

CallCloses ==
  /\ call = "close" /\ call' = "wait" /\ StartClose("requested")
  /\ UNCHANGED building /\ UNCHANGED <<calls, owner, registered, startupError, returned>>

\* The agents settle, execution is cancelled and its operations drained, and
\* the workflow, or the controller there is without one, is closed.
Settle ==
  /\ attempt = "settle" /\ attempt' = "release" /\ at' = Len(entries)
  /\ agents' = IF agents = "open" THEN "closed" ELSE agents
  /\ UNCHANGED <<stage, entries, store, log, state, reason, bad, refused, attempts, owner, registered, startupError, returned>>
  /\ UNCHANGED waiting

\* Group.Close, one entry: those closed are passed over, and one that fails
\* stays owned.
Owned(i) == ~entries[i].closed

Release ==
  /\ attempt = "release" /\ at > 0
  /\ \/ ~Owned(at) /\ UNCHANGED <<entries, bad>>
     \/ /\ Owned(at)
        /\ \E ok \in BOOLEAN :
             /\ entries' = [entries EXCEPT ![at].closed = @ \/ ok, ![at].tried = TRUE,
                                           ![at].times = IF ok THEN @ + 1 ELSE @]
             /\ bad' = (bad \/ ~ok)
  /\ at' = at - 1
  /\ UNCHANGED <<stage, store, log, agents, state, reason, attempt, refused, attempts, owner, registered,
                 startupError, returned>>
  /\ UNCHANGED waiting

\* The deadline of the clean-up: the rest is not tried.
Deadline ==
  /\ attempt = "release" /\ at > 0 /\ Owned(at)
  /\ bad' = TRUE /\ at' = 0
  /\ UNCHANGED building /\ UNCHANGED waiting
  /\ UNCHANGED <<state, reason, attempt, refused, attempts, owner, registered, startupError, returned>>

\* A clean-up that failed gives up the attempt, for another to be made; after
\* one that did not the log ends with the outcome, which one that has failed
\* refuses: the attempt has failed then too, but nothing is left to clean up.
Finish ==
  /\ attempt = "release" /\ at = 0
  /\ IF bad THEN attempt' = "none" /\ UNCHANGED <<state, log, registered, refused>>
     ELSE /\ attempt' = "done" /\ state' = "closed" /\ registered' = FALSE
          /\ refused' = (log = "failed")
          /\ log' = IF log = "open" THEN "finished" ELSE log
  /\ UNCHANGED <<stage, entries, store, agents, reason, at, bad, attempts, owner, startupError, returned>>
  /\ UNCHANGED waiting

-----------------------------------------------------------------------------
(* The wait of Dispose, and what follows it.                               *)

\* An error of the close is returned even though the disposal after it is not
\* held up by it.
DisposeAfter(failed) ==
  /\ call' = IF failed THEN "dispose after failure" ELSE "dispose"
  /\ UNCHANGED returned

\* Over: New returns its error, with a handle if disposing failed.
Over(ok) ==
  /\ call' = "none"
  /\ returned' = IF returned # "nothing" THEN returned ELSE IF ok THEN "error" ELSE "handle"

Waited ==
  /\ call = "wait" /\ attempt \in {"none", "done"}
  /\ IF state \in {"closed", "disposed"} THEN DisposeAfter(refused) ELSE Over(FALSE)
  /\ UNCHANGED building /\ UNCHANGED closing /\ UNCHANGED <<calls, owner, registered, startupError>>

\* The context of the call ends first.
WaitEnds ==
  /\ call = "wait"
  /\ IF state \in {"closed", "disposed"} THEN DisposeAfter(TRUE) ELSE Over(FALSE)
  /\ UNCHANGED building /\ UNCHANGED closing /\ UNCHANGED <<calls, owner, registered, startupError>>

DisposeLog ==
  /\ call \in {"dispose", "dispose after failure"}
  /\ \/ /\ log' = IF log = "none" THEN "none" ELSE "disposed"
        /\ state' = "disposed" /\ Over(call = "dispose")
     \/ log # "none" /\ Over(FALSE) /\ UNCHANGED <<log, state>>
  /\ UNCHANGED <<stage, entries, store, agents, reason, attempt, at, bad, refused, attempts, calls, owner, registered, startupError>>

New ==
  \/ TakeResources \/ CheckConfig \/ OpenStore \/ CheckHead \/ OpenLog \/ TakeTools
  \/ Converse \/ TakeReaders \/ BuildWorkflow \/ Bootstrap \/ PublishConfiguration \/ Return

Next ==
  \/ New
  \/ LogFails \/ OwnerCancels \/ OwnerCloses \/ Dispose \/ CallCloses
  \/ Settle \/ Release \/ Deadline \/ Finish \/ Waited \/ WaitEnds \/ DisposeLog

Spec == Init /\ [][Next]_vars

-----------------------------------------------------------------------------
AllReleased == \A i \in DOMAIN entries : entries[i].closed

TypeOK ==
  /\ Taken \subseteq Range(Order) \cup {"injected", "event store", "invalid event store"}
  /\ state \in {"open", "closing", "closed", "disposed"} /\ at \in 0..Len(entries)
  /\ returned \in {"nothing", "session", "error", "handle"}

\* An error New returns without a handle leaves nothing behind, wherever it
\* failed; and what is disposed of is all released (StartupError's comment).
NothingIsLost ==
  returned = "error" \/ state = "disposed" =>
    AllReleased /\ agents # "open" /\ log \in {"none", "disposed"} /\ store # "free"

\* Until then what was taken stays with somebody who can release it.
SomebodyOwns ==
  /\ ~AllReleased /\ returned # "nothing" => returned \in {"session", "handle"}
  /\ store = "free" => returned = "nothing" /\ ~startupError

\* Nothing is closed twice, however many attempts are made and whoever makes
\* them, and nothing before what was built on it has been closed or has failed
\* to (Group).
ReleasedOnce ==
  /\ \A i \in DOMAIN entries : entries[i].times <= 1
  /\ \A i, j \in DOMAIN entries : i < j /\ entries[i].closed => entries[j].tried

\* The log lasts as long as what may write to it, and says how it ended.
LogLasts ==
  /\ log \in {"finished", "disposed"} => AllReleased /\ agents # "open" /\ attempt = "done"
  /\ reason = "startup_failed" <=> startupError /\ state # "open"

\* A session New returns is whole until something closes it.
SessionIsWhole ==
  returned = "session" /\ state = "open" =>
    /\ Len(entries) = Len(Order) + 1 /\ (\A i \in DOMAIN entries : ~entries[i].closed)
    /\ log \in {"open", "failed"} /\ registered

StartupHolds == TypeOK /\ NothingIsLost /\ SomebodyOwns /\ ReleasedOnce /\ LogLasts /\ SessionIsWhole
=============================================================================
