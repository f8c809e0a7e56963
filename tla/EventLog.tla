------------------------------ MODULE EventLog ------------------------------
(***************************************************************************)
(* eventlog: the log of a session over a JSONL file.  Publishers queue      *)
(* records under a quota and wait for the one writer; the writer puts each *)
(* on the disk and only then makes it visible; a subscriber reads what is  *)
(* visible.  A failure (an error, an expired write, invalid data) freezes  *)
(* the visible prefix for ever, while a write may still be under way.      *)
(*                                                                         *)
(* Each publisher publishes one record.  A process that sleeps on a wake   *)
(* channel is in `asleep` (of the log) or in `dozing` (of the store) until *)
(* the channel is closed.                                                  *)
(***************************************************************************)
EXTENDS Integers, Sequences, SequencesExt, FiniteSets

CONSTANTS
  Publisher,
  Entries,      \* Limits.Entries
  Terminal      \* the record session_closed

VARIABLES
  pub,          \* where each publisher's call is
  queue, jobs, pending, completed,   \* the log's queue
  logErr, finishing, finish, flush,  \* failure, and the calls of Finish and Flush
  wpc, wjob,    \* the writer
  expired,      \* the budget of the write at hand is used up
  firing,       \* a timer is about to fail the log
  committed,    \* the records that are visible
  failed, disposed,
  disk,         \* the lines of the file
  sub,          \* a subscriber
  asleep, dozing

publishing == <<pub, queue, jobs, pending, completed>>
calls == <<finishing, finish, flush>>
writer == <<wpc, wjob, expired>>
shelf == <<committed, failed, disposed>>
vars == <<publishing, logErr, calls, writer, firing, shelf, disk, sub, asleep, dozing>>

Record == Publisher \cup {Terminal}
Range1(s) == {s[i] : i \in DOMAIN s}
Sealed == Terminal \in Range1(committed)
Writable == ~disposed /\ ~failed /\ ~Sealed
Done == wpc = "exited"

Signal == asleep' = {}

----------------------------------------------------------------------------
(* Failure.                                                                 *)

\* fail: every publication in flight is answered, the queue is dropped.  A sealed
\* store does not fail any more.
Fail ==
  IF logErr \/ Sealed
  THEN UNCHANGED <<publishing, logErr, expired, failed, asleep, dozing>>
  ELSE /\ failed' = (failed \/ ~disposed)
       /\ dozing' = FALSE
       /\ logErr' = TRUE /\ expired' = TRUE
       /\ pub' = [p \in Publisher |-> IF p \in jobs /\ pub[p] = "queued" THEN "failed" ELSE pub[p]]
       /\ jobs' = {} /\ queue' = <<>> /\ pending' = 0
       /\ Signal
       /\ UNCHANGED completed

----------------------------------------------------------------------------
(* Publishers.                                                              *)

\* One slot for each publication that may be pending, and one more.
Producing == {p \in Publisher : pub[p] \in {"waiting", "queued"}}

PublishContext(p) ==
  /\ pub[p] = "idle"
  /\ pub' = [pub EXCEPT ![p] = IF Cardinality(Producing) > Entries THEN "refused" ELSE "waiting"]
  /\ UNCHANGED <<queue, jobs, pending, completed, logErr, calls, writer, firing, shelf, disk, sub,
                 asleep, dozing>>

PublishInvalid(p) ==
  /\ pub[p] = "idle" /\ ~Done
  /\ Fail
  /\ UNCHANGED <<calls, wpc, wjob, firing, committed, disposed, disk, sub>>

Answer(p, answer) == pub' = [pub EXCEPT ![p] = answer]

\* The loop of PublishContext: what ends it, or the wait for room.
Enqueue(p) ==
  /\ pub[p] = "waiting" /\ p \notin asleep
  /\ \/ /\ logErr /\ Answer(p, "failed")
        /\ UNCHANGED <<queue, jobs, pending, asleep>>
     \/ /\ ~logErr /\ finishing /\ Answer(p, "sealed")
        /\ UNCHANGED <<queue, jobs, pending, asleep>>
     \/ /\ ~logErr /\ ~finishing /\ pending < Entries
        /\ queue' = Append(queue, p) /\ jobs' = jobs \cup {p}
        /\ pending' = pending + 1 /\ Answer(p, "queued")
        /\ Signal
     \/ /\ ~logErr /\ ~finishing /\ pending >= Entries
        /\ asleep' = asleep \cup {p}
        /\ UNCHANGED <<pub, queue, jobs, pending>>
  /\ UNCHANGED <<completed, logErr, calls, writer, firing, shelf, disk, sub, dozing>>

\* The caller's context ends: a queued record is written all the same.
Cancelled(p) ==
  /\ pub[p] \in {"waiting", "queued"}
  /\ Answer(p, "cancelled")
  /\ asleep' = asleep \ {p}
  /\ UNCHANGED <<queue, jobs, pending, completed, logErr, calls, writer, firing, shelf, disk, sub,
                 dozing>>

----------------------------------------------------------------------------
(* The writer.                                                              *)

Begin(job) == wjob' = job /\ wpc' = "append" /\ expired' = FALSE

Run ==
  /\ wpc = "idle" /\ "writer" \notin asleep
  /\ \/ logErr /\ wpc' = "exited" /\ UNCHANGED <<queue, wjob, expired, asleep>>
     \/ ~logErr /\ queue # <<>> /\ Begin(Head(queue)) /\ queue' = Tail(queue) /\ UNCHANGED asleep
     \/ ~logErr /\ queue = <<>> /\ finishing /\ Begin(Terminal) /\ UNCHANGED <<queue, asleep>>
     \/ ~logErr /\ queue = <<>> /\ ~finishing /\ asleep' = asleep \cup {"writer"}
        /\ UNCHANGED <<queue, wpc, wjob, expired>>
  /\ UNCHANGED <<pub, jobs, pending, completed, logErr, calls, firing, shelf, disk, sub, dozing>>

\* The write budget runs out: the context ends, and a goroutine will fail the log
\* even if the write returns first.
Expire ==
  /\ wpc \in {"append", "written", "truncate"} /\ ~expired
  /\ expired' = TRUE /\ firing' = TRUE
  /\ UNCHANGED <<publishing, logErr, calls, wpc, wjob, shelf, disk, sub, asleep, dozing>>

TimerFails ==
  /\ firing /\ firing' = FALSE
  /\ IF Done THEN UNCHANGED <<publishing, logErr, expired, failed, asleep, dozing>> ELSE Fail
  /\ UNCHANGED <<calls, wpc, wjob, committed, disposed, disk, sub>>

FailStore == failed' = (failed \/ Writable) /\ dozing' = FALSE

Line(record, whole) == [record |-> record, whole |-> whole]
Keeps == UNCHANGED <<publishing, logErr, calls, wjob, expired, firing, disposed, sub, asleep>>

\* write: refused, or bytes at the end of what was committed: all, or some.
WriteRefused ==
  /\ wpc = "append" /\ (expired \/ ~Writable)
  /\ wpc' = "refused"
  /\ UNCHANGED <<committed, failed, disk, dozing>> /\ Keeps

Write ==
  /\ wpc = "append" /\ Writable
  /\ disk' = Append(disk, Line(wjob, TRUE)) /\ wpc' = "written"
  /\ UNCHANGED <<committed, failed, dozing>> /\ Keeps

WriteFails ==
  /\ wpc = "append" /\ Writable
  /\ disk' \in {disk, Append(disk, Line(wjob, FALSE)), Append(disk, Line(wjob, TRUE))}
  /\ wpc' = "truncate" /\ FailStore
  /\ UNCHANGED committed /\ Keeps

\* Faulty variant: what was written is visible, whatever has happened meanwhile.
CommitLate ==
  /\ wpc = "written"
  /\ committed' = Append(committed, wjob) /\ wpc' = "stored" /\ dozing' = FALSE
  /\ UNCHANGED <<failed, disk>> /\ Keeps
\* Faulty variant: the subscribers are not woken.
CommitSilently ==
  /\ wpc = "written" /\ Writable /\ ~expired
  /\ committed' = Append(committed, wjob) /\ wpc' = "stored"
  /\ UNCHANGED <<failed, disk, dozing>> /\ Keeps
Commit ==
  /\ wpc = "written" /\ Writable /\ ~expired
  /\ committed' = Append(committed, wjob) /\ wpc' = "stored" /\ dozing' = FALSE
  /\ UNCHANGED <<failed, disk>> /\ Keeps

CommitRefused ==
  /\ wpc = "written" /\ (expired \/ ~Writable)
  /\ wpc' = "truncate" /\ FailStore
  /\ UNCHANGED <<committed, disk>> /\ Keeps

\* discardTail: the failure is visible before the uncommitted bytes are removed, if
\* they can be.
DiscardTail ==
  /\ wpc = "truncate"
  /\ disk' \in {disk, SubSeq(disk, 1, Len(committed))}
  /\ wpc' = "refused"
  /\ UNCHANGED <<shelf, dozing>> /\ Keeps

Idle == IF wjob = Terminal THEN "exited" ELSE "idle"

\* Faulty variant: the room of a written record is not given back.
StoredUncounted ==
  /\ wpc = "stored" /\ wpc' = Idle
  /\ IF wjob \in jobs
     THEN /\ pub' = [pub EXCEPT ![wjob] = IF @ = "queued" THEN "stored" ELSE @]
          /\ jobs' = jobs \ {wjob} /\ completed' = completed + 1
     ELSE UNCHANGED <<pub, jobs, completed>>
  /\ Signal
  /\ UNCHANGED <<queue, pending, logErr, calls, wjob, expired, firing, shelf, disk, sub, dozing>>
Stored ==
  /\ wpc = "stored" /\ wpc' = Idle
  /\ IF wjob \in jobs
     THEN /\ pub' = [pub EXCEPT ![wjob] = IF @ = "queued" THEN "stored" ELSE @]
          /\ jobs' = jobs \ {wjob}
          /\ pending' = pending - 1 /\ completed' = completed + 1
     ELSE UNCHANGED <<pub, jobs, pending, completed>>
  /\ Signal
  /\ UNCHANGED <<queue, logErr, calls, wjob, expired, firing, shelf, disk, sub, dozing>>

\* A failure is latched, never retried.
Refused ==
  /\ wpc = "refused" /\ wpc' = Idle
  /\ Fail
  /\ UNCHANGED <<calls, wjob, firing, committed, disposed, disk, sub>>

----------------------------------------------------------------------------
(* Flush, Finish, Dispose and a subscriber.                                 *)

Accepted == completed + Cardinality(jobs)

Flush ==
  /\ flush.state = "idle"
  /\ flush' = [state |-> "waiting", target |-> Accepted, before |-> jobs]
  /\ UNCHANGED <<publishing, logErr, finishing, finish, writer, firing, shelf, disk, sub, asleep,
                 dozing>>

FlushReturns ==
  /\ flush.state = "waiting" /\ "flush" \notin asleep
  /\ \/ logErr /\ flush' = [flush EXCEPT !.state = "failed"] /\ UNCHANGED asleep
     \/ ~logErr /\ completed >= flush.target
        /\ flush' = [flush EXCEPT !.state = "flushed"] /\ UNCHANGED asleep
     \/ ~logErr /\ completed < flush.target
        /\ asleep' = asleep \cup {"flush"} /\ UNCHANGED flush
  /\ UNCHANGED <<publishing, logErr, finishing, finish, writer, firing, shelf, disk, sub, dozing>>

Finish ==
  /\ ~finishing /\ finishing' = TRUE
  /\ finish' = "waiting"
  /\ Signal
  /\ UNCHANGED <<publishing, logErr, flush, writer, firing, shelf, disk, sub, dozing>>

FinishReturns ==
  /\ finish = "waiting" /\ Done
  /\ finish' = IF logErr THEN "failed" ELSE "sealed"
  /\ UNCHANGED <<publishing, logErr, finishing, flush, writer, firing, shelf, disk, sub, asleep,
                 dozing>>

\* Reads are joined before the shelf is closed: they end with an error.
Dispose ==
  /\ Done /\ ~disposed
  /\ disposed' = TRUE /\ dozing' = FALSE
  /\ sub' = IF sub.state = "reading" THEN [sub EXCEPT !.state = "disposed"] ELSE sub
  /\ UNCHANGED <<publishing, logErr, calls, writer, firing, committed, failed, disk, asleep>>

Subscribe ==
  /\ sub.state = "none" /\ ~disposed
  /\ \E after \in 0..Len(committed) : sub' = [state |-> "reading", after |-> after]
  /\ UNCHANGED <<publishing, logErr, calls, writer, firing, shelf, disk, asleep, dozing>>

Detach ==
  /\ sub.state = "reading"
  /\ sub' = [sub EXCEPT !.state = "detached"] /\ dozing' = FALSE
  /\ UNCHANGED <<publishing, logErr, calls, writer, firing, shelf, disk, asleep>>

\* Next: the record behind the cursor; or how the log ended; or wait for more.
NextRecord ==
  /\ sub.state = "reading" /\ ~dozing
  /\ \/ /\ sub.after < Len(committed)
        /\ sub' = [sub EXCEPT !.after = @ + 1] /\ UNCHANGED dozing
     \/ /\ sub.after = Len(committed) /\ (failed \/ Sealed)
        /\ sub' = [sub EXCEPT !.state = IF failed THEN "failed" ELSE "eof"] /\ UNCHANGED dozing
     \/ /\ sub.after = Len(committed) /\ ~failed /\ ~Sealed
        /\ dozing' = TRUE /\ UNCHANGED sub
  /\ UNCHANGED <<publishing, logErr, calls, writer, firing, shelf, disk, asleep>>

----------------------------------------------------------------------------
(* OpenJSONL: what a later process reads from the file, as it is now.       *)

\* Faulty variant: the last line counts, ended or not.
ReadTorn(lines) == lines
\* What follows the last line that was ended is not a record.
Ended(lines) == {0} \cup {i \in DOMAIN lines : lines[i].whole}
ReadLines(lines) == SubSeq(lines, 1, Max(Ended(lines)))

\* A line that was not ended and is followed by others does not decode.
Archive ==
  LET lines == ReadLines(disk)
      end == {i \in DOMAIN lines : lines[i].record = Terminal}
  IN [events |-> [i \in DOMAIN lines |-> lines[i].record],
      valid |-> /\ \A i \in DOMAIN lines : lines[i].whole
                /\ \A i \in end : i = Len(disk),
      interrupted |-> end = {}]

----------------------------------------------------------------------------
Init ==
  /\ pub = [p \in Publisher |-> "idle"]
  /\ queue = <<>> /\ jobs = {} /\ pending = 0 /\ completed = 0
  /\ logErr = FALSE /\ finishing = FALSE /\ finish = "none"
  /\ \E client \in {"flush", "subscriber"} :   \* bounds the clients to one
       /\ flush = [state |-> IF client = "flush" THEN "idle" ELSE "none", target |-> 0, before |-> {}]
       /\ sub = [state |-> IF client = "flush" THEN "absent" ELSE "none", after |-> 0]
  /\ wpc = "idle" /\ wjob = Terminal /\ expired = FALSE /\ firing = FALSE
  /\ committed = <<>> /\ failed = FALSE /\ disposed = FALSE
  /\ disk = <<>>
  /\ asleep \in {{}, {"writer"}}   \* the writer has not looked yet, or waits
  /\ dozing = FALSE

Writing ==
  \/ Run \/ WriteRefused \/ Write \/ WriteFails \/ Commit \/ CommitRefused \/ DiscardTail
  \/ Stored \/ Refused

Next ==
  \/ \E p \in Publisher : PublishContext(p) \/ PublishInvalid(p) \/ Enqueue(p) \/ Cancelled(p)
  \/ Writing \/ Expire \/ TimerFails
  \/ Flush \/ FlushReturns \/ Finish \/ FinishReturns \/ Dispose
  \/ Subscribe \/ Detach \/ NextRecord

\* A write may hang, but not past its budget; everything else that can run does.
Fairness ==
  /\ \A p \in Publisher : WF_vars(Enqueue(p))
  /\ WF_vars(Run \/ Stored \/ Refused) /\ WF_vars(TimerFails)
  /\ WF_vars(Expire \/ Write \/ Commit)
  /\ WF_vars(FlushReturns) /\ WF_vars(FinishReturns) /\ WF_vars(NextRecord)

Spec == Init /\ [][Next]_vars /\ Fairness

----------------------------------------------------------------------------
\* What the log answers is true: a stored record is visible, once; a flush covers all
\* that was pending before it; a clean end is a sealed file with nothing in flight; and
\* the quota counts exactly the publications that are pending (log.go:130-260).
AnswersAreTrue ==
  /\ \A p \in Publisher : pub[p] = "stored" => p \in Range1(committed)
  /\ IsInjective(committed)
  /\ flush.state = "flushed" => flush.before \subseteq Range1(committed)
  /\ finish = "sealed" => Sealed /\ jobs = {} /\ ~failed
  /\ pending = Cardinality(jobs) /\ pending <= Entries
  /\ Cardinality(Producing) <= Entries + 1

\* A crash at any moment leaves a file that opens, with every visible record in its
\* order and at most the one that was being written (jsonl.go:60-260).
ArchiveKeepsPrefix ==
  /\ Archive.valid
  /\ IsPrefix(committed, Archive.events)
  /\ Len(Archive.events) <= Len(committed) + 1

\* Nothing becomes visible after a failure was reported: the accepted prefix is frozen.
FailureFreezes == [][failed => committed' = committed]_vars

\* Whatever happens to the writer, a publisher is answered, and a subscriber reads all
\* that is visible and how the log ended, unless it detaches or the log is disposed.
EverybodyAnswered ==
  []<>(/\ \A p \in Publisher : pub[p] \notin {"waiting", "queued"}
       /\ flush.state = "waiting" => ~logErr /\ completed < flush.target
       /\ sub.state = "reading" => sub.after = Len(committed) /\ ~failed /\ ~Sealed)
=============================================================================
