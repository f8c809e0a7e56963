---------------------------- MODULE LanguageServer ----------------------------
(***************************************************************************)
(* lsp: a Manager and one language server of it.  A query is a transaction  *)
(* under the manager's gate: it makes sure the server runs, scans the       *)
(* workspace, tells the server what changed, sends it the document, asks,   *)
(* and labels the answer.  Meanwhile files are written, hints of the writes *)
(* arrive late or never, the server publishes when it likes and may die,    *)
(* and the manager is closed.                                               *)
(*                                                                         *)
(* There are two files: the document queries are about, and a file it       *)
(* depends on.  A content is a number, larger the later it was written and  *)
(* never written twice; a diagnostic or a position stands for the contents  *)
(* the server computed it from: text of the document, seen of the other.    *)
(***************************************************************************)
EXTENDS Integers, Sequences

CONSTANTS
  MaxEdits,      \* bounds the writes
  MaxQueries,    \* bounds the transactions, the refresher's included
  MaxDeaths,     \* bounds the server's deaths
  Closes         \* whether the manager may be closed

VARIABLES
  disk, hinted,  \* the files, and whether a hint of a write is on its way
  m,             \* the Manager: epoch, closing, a reference it handed out, how often it was asked
  inst,          \* the instance; "untold" is what a scan found and its server was not told of
  server, wire,  \* the process with its inbox, and what it sent
  client,        \* what the callbacks keep of the current process
  q,             \* the transaction under the gate
  refresher,     \* the goroutine that refreshes open documents after hints
  answer         \* the last answer of a query, with the contents it came from

vars == <<disk, hinted, m, inst, server, wire, client, q, refresher, answer>>
world == <<disk, hinted>>

File == {"document", "dependency"}
Unscanned == [x \in {} |-> 0]
NoSet == [version |-> 0, text |-> 0, seen |-> 0, epoch |-> 0, revision |-> 0]
NoDoc == [version |-> 0, text |-> 0]
NoRef == [text |-> 0, seen |-> 0, generation |-> 0, untold |-> 0]
NoAnswer == [fresh |-> "none", text |-> 0, seen |-> 0, now |-> 0, scanned |-> 0, untold |-> 0,
             resync |-> FALSE]
Idle == [pc |-> "idle"]
Down == [up |-> FALSE, inbox |-> <<>>, version |-> 0, text |-> 0, seen |-> 0, pulls |-> FALSE]
NewClient == [epoch |-> 0, pushed |-> NoSet, pulled |-> NoSet, revision |-> 0, watches |-> FALSE]

Init ==
  /\ disk = [x \in File |-> 1] /\ hinted = FALSE
  /\ m = [epoch |-> 0, closing |-> FALSE, shut |-> FALSE, ref |-> NoRef, queries |-> 0]
  /\ inst = [generation |-> 0, failures |-> 0, files |-> Unscanned, untold |-> 0, doc |-> NoDoc,
             next |-> 0, client |-> FALSE]
  /\ server = Down /\ wire = <<>> /\ client = NewClient
  /\ q = Idle /\ refresher = "idle" /\ answer = NoAnswer

----------------------------------------------------------------------------
(* Writers, the server, and the callbacks of its messages.                  *)

Edit(x) ==
  /\ disk["document"] + disk["dependency"] < MaxEdits + 2 /\ ~m.closing
  /\ disk' = [disk EXCEPT ![x] = @ + 1]
  /\ hinted' \in {hinted, TRUE}
  /\ UNCHANGED <<m, inst, server, wire, client, q, refresher, answer>>

\* Changed, called after a write by its tool or by the watcher; it also wakes the refresher.
Changed ==
  /\ hinted /\ hinted' = FALSE /\ ~m.closing
  /\ m' = [m EXCEPT !.epoch = @ + 1]
  /\ refresher' = IF refresher = "idle" THEN "queued" ELSE refresher
  /\ UNCHANGED <<disk, inst, server, wire, client, q, answer>>

ServerDies ==
  /\ server.up /\ inst.generation <= MaxDeaths /\ ~m.closing
  /\ server' = Down /\ wire' = <<>>
  /\ UNCHANGED <<world, m, inst, client, q, refresher, answer>>

Report(s, kind) == [kind |-> kind, version |-> s.version, text |-> s.text, seen |-> s.seen]

\* It handles its messages in order, reads the files it is told of, and publishes after each
\* change; a request is answered from what it believes.
ServerHandles ==
  /\ server.up /\ server.inbox # <<>> /\ ~m.closing
  /\ LET msg == Head(server.inbox)
         s == [server EXCEPT !.inbox = Tail(@)]
         told == IF msg.kind = "sync" THEN [s EXCEPT !.version = msg.version, !.text = msg.text]
                 ELSE IF msg.kind = "watched" THEN [s EXCEPT !.seen = disk["dependency"]]
                 ELSE s
     IN /\ server' = told
        /\ wire' = IF msg.kind = "ask" THEN Append(wire, Report(told, "report"))
                   ELSE IF told.version = 0 THEN wire
                   ELSE Append(wire, Report(told, "publish"))
  /\ UNCHANGED <<world, m, inst, client, q, refresher, answer>>

\* storeDiagnosticSet: an older version never replaces a newer one.
Store(old, set) == IF set.version < old.version THEN old ELSE set

AsSet(r, e, revision) ==
  [version |-> r.version, text |-> r.text, seen |-> r.seen, epoch |-> e, revision |-> revision]

\* Handle: a publication is stamped with the epoch at which it arrives.
Published ==
  /\ wire # <<>> /\ Head(wire).kind = "publish" /\ ~m.closing
  /\ wire' = Tail(wire)
  /\ client' = [client EXCEPT !.pushed = Store(@, AsSet(Head(wire), client.epoch, 0))]
  /\ UNCHANGED <<world, m, inst, server, q, refresher, answer>>

\* Handle: the server withdraws what was pulled from it, and open documents are refreshed.
RefreshAsked ==
  /\ server.up /\ server.pulls /\ client.revision = 0 /\ ~m.closing
  /\ client' = [client EXCEPT !.revision = @ + 1]
  /\ refresher' = IF refresher = "idle" THEN "queued" ELSE refresher
  /\ UNCHANGED <<world, m, inst, server, wire, q, answer>>

\* Handle: the server asks for the changes of the dependency, or no longer (register).
Registers ==
  /\ server.up /\ ~m.closing
  /\ client' = [client EXCEPT !.watches = ~@]
  /\ UNCHANGED <<world, m, inst, server, wire, q, refresher, answer>>

----------------------------------------------------------------------------
(* A transaction: acquire, ensure, reconcile.                               *)

Query == [kind : {"diagnostics"}, resync : BOOLEAN] \cup [kind : {"navigate"}, resync : {FALSE}]
         \cup [kind : {"follow"}, resync : {FALSE}]

Goto(pc) == [q EXCEPT !.pc = pc]
Started(query) == [pc |-> "ensure", query |-> query, scan |-> Unscanned, set |-> NoSet,
                   known |-> FALSE, epoch |-> 0, fresh |-> "none", asked |-> -1]

\* follow starts from the reference; target refuses it when the server or the text changed.
RefIsGood == server.up /\ m.ref.generation = inst.generation /\ disk["dependency"] = m.ref.text

Acquire ==
  /\ q.pc = "idle" /\ ~m.closing /\ m.queries < MaxQueries
  /\ \E query \in Query :
       /\ query.kind = "follow" => m.ref # NoRef /\ RefIsGood
       /\ q' = Started(query)
  /\ m' = [m EXCEPT !.queries = @ + 1]
  /\ answer' = NoAnswer
  /\ UNCHANGED <<world, inst, server, wire, client, refresher>>

\* refresh: queries the open documents of a running server, as any caller does.
RefresherAcquires ==
  /\ refresher = "queued" /\ q.pc = "idle" /\ ~m.closing
  /\ refresher' = "idle"
  /\ IF server.up /\ inst.doc # NoDoc
     THEN /\ m.queries < MaxQueries /\ m' = [m EXCEPT !.queries = @ + 1]
          /\ q' = Started([kind |-> "diagnostics", resync |-> FALSE])
     ELSE UNCHANGED <<m, q>>
  /\ UNCHANGED <<world, inst, server, wire, client, answer>>

\* ensure: a server that died takes its documents and the scan with it, and counts as a failure;
\* versions and the manager's epoch go on.
Ensure ==
  /\ q.pc = "ensure"
  /\ IF inst.client /\ server.up THEN q' = Goto("scan") /\ UNCHANGED <<inst, server, wire, client>>
     ELSE LET lost == [inst EXCEPT !.client = FALSE, !.doc = NoDoc, !.files = Unscanned,
                                   !.failures = @ + 1]
              known == IF inst.client THEN lost ELSE inst
          IN \/ /\ known.failures >= 2
                /\ q' = Idle /\ inst' = known /\ UNCHANGED <<server, wire, client>>
             \/ /\ known.failures < 2
                /\ inst' = [known EXCEPT !.client = TRUE, !.generation = @ + 1]
                /\ \E pulls \in BOOLEAN :
                     server' = [Down EXCEPT !.up = TRUE, !.seen = disk["dependency"], !.pulls = pulls]
                /\ wire' = <<>> /\ client' = NewClient
                /\ q' = Goto("scan")
             \/ /\ known.failures < 2   \* it does not start
                /\ inst' = [known EXCEPT !.failures = @ + 1]
                /\ q' = Idle /\ UNCHANGED <<server, wire, client>>
  /\ UNCHANGED <<world, m, refresher, answer>>

\* reconcile reads every file of the workspace,
Scan ==
  /\ q.pc = "scan" /\ q.scan = Unscanned
  /\ q' = [q EXCEPT !.scan = disk]
  /\ UNCHANGED <<world, m, inst, server, wire, client, refresher, answer>>

Send(msg) == [server EXCEPT !.inbox = IF server.up THEN Append(@, msg) ELSE @]

\* and then, under a new epoch when anything differs from the last scan, tells the server of what
\* it watches: of nothing the first time, and of the dependency only if that changed.
Reconcile ==
  /\ q.pc = "scan" /\ q.scan # Unscanned
  /\ LET first == inst.files = Unscanned
         differs == ~first /\ q.scan # inst.files
         changed == ~first /\ q.scan["dependency"] # inst.files["dependency"]
         tells == changed /\ client.watches
         e == IF differs THEN m.epoch + 1 ELSE m.epoch
     IN /\ m' = [m EXCEPT !.epoch = e]
        /\ client' = [client EXCEPT !.epoch = e]
        /\ server' = IF tells THEN Send([kind |-> "watched"]) ELSE server
        /\ inst' = [inst EXCEPT !.files = q.scan,
                                !.untold = IF first \/ (changed /\ ~tells) THEN q.scan["dependency"] ELSE @]
  /\ q' = Goto("sync")
  /\ UNCHANGED <<world, wire, refresher, answer>>

\* Faulty variant: an unchanged document is not sent again.
MustSendIfChanged(text) == inst.doc = NoDoc \/ inst.doc.text # text
MustSend(text) == inst.doc = NoDoc \/ inst.doc.text # text \/ q.query.resync

\* syncDocumentVersion reads the document once more (the open documents are synchronized before it;
\* here it is the only one); an open one is sent when it differs, or anyway for a resync.
Sync ==
  /\ q.pc = "sync"
  /\ LET text == disk["document"]
         v == inst.next + 1
     IN IF ~MustSend(text) THEN UNCHANGED <<inst, server>>
        ELSE /\ inst' = [inst EXCEPT !.next = v, !.doc = [version |-> v, text |-> text]]
             /\ server' = Send([kind |-> "sync", version |-> v, text |-> text])
  /\ q' = Goto(IF q.query.kind = "diagnostics" /\ ~server.pulls THEN "wait" ELSE "ask")
  /\ UNCHANGED <<world, m, wire, client, refresher, answer>>

----------------------------------------------------------------------------
(* Diagnostics: documentDiagnostics, and the label the answer gets.         *)

\* diagnosticSnapshot: a withdrawn pull has no version; two producers agree or have none.
Pulled(c) == IF c.pulled.revision = c.revision THEN c.pulled ELSE [c.pulled EXCEPT !.version = 0]
Less(a, b) == IF a < b THEN a ELSE b
Merged(a, b) ==
  [b EXCEPT !.version = IF a.version = b.version /\ a.epoch = b.epoch THEN @ ELSE 0,
            !.text = Less(a.text, b.text), !.seen = Less(a.seen, b.seen)]
Snapshot(c) ==
  IF c.pulled = NoSet THEN c.pushed
  ELSE IF c.pushed = NoSet THEN Pulled(c) ELSE Merged(c.pushed, Pulled(c))

Ask ==
  /\ q.pc = "ask" /\ server.up
  /\ server' = Send([kind |-> "ask"])
  /\ q' = [q EXCEPT !.pc = "asked", !.asked = client.revision, !.epoch = m.epoch]
  /\ UNCHANGED <<world, m, inst, wire, client, refresher, answer>>

Answered == q.pc = "asked" /\ wire # <<>> /\ Head(wire).kind = "report"

PullAnswered ==
  /\ Answered /\ q.query.kind = "diagnostics"
  /\ wire' = Tail(wire)
  /\ LET set == [AsSet(Head(wire), client.epoch, q.asked) EXCEPT !.version = inst.doc.version]
         c == [client EXCEPT !.pulled = Store(@, set)]
     IN /\ client' = c
        /\ q' = [q EXCEPT !.pc = "label", !.set = Snapshot(c), !.known = TRUE]
  /\ UNCHANGED <<world, m, inst, server, refresher, answer>>

\* The pull has an error, or a report that is not full.  Or its time is up: it is cancelled, and a
\* server that does not answer within a grace is ended.  What was published may still do.
PullFails ==
  /\ q.pc = "asked" /\ q.query.kind = "diagnostics"
  /\ q' = Goto("wait")
  /\ \/ Answered /\ wire' = Tail(wire) /\ UNCHANGED server
     \/ server' = Down /\ wire' = <<>>
  /\ UNCHANGED <<world, m, inst, client, refresher, answer>>

\* Nor does a pull get through to a server that died.
AskFails ==
  /\ q.pc = "ask" /\ q.query.kind = "diagnostics" /\ ~server.up
  /\ q' = Goto("wait")
  /\ UNCHANGED <<world, m, inst, server, wire, client, refresher, answer>>

\* The loop after a failed pull, and of a server that only publishes.
PushAnswered ==
  /\ q.pc = "wait" /\ client.pushed.version = inst.doc.version /\ client.pushed.epoch = client.epoch
  /\ q' = [q EXCEPT !.pc = "label", !.set = client.pushed, !.known = TRUE]
  /\ UNCHANGED <<world, m, inst, server, wire, client, refresher, answer>>

\* The deadline passes, while the server is still analysing or in the loop, or the server dies.
WaitEnds ==
  /\ q.pc \in {"ask", "wait"} /\ q.query.kind = "diagnostics"
  /\ q' = [q EXCEPT !.pc = "label", !.set = IF q.pc = "ask" THEN Snapshot(client) ELSE client.pushed,
                    !.known = q.pc = "wait" /\ client.pushed # NoSet]
  /\ UNCHANGED <<world, m, inst, server, wire, client, refresher, answer>>

\* Faulty variant: only the epochs are compared.
IsCurrentWorkspace(set) == set.epoch = client.epoch /\ set.epoch = m.epoch
IsCurrent(set) == set.version = inst.doc.version /\ set.epoch = client.epoch /\ set.epoch = m.epoch

\* add: the label, from the versions, the epochs and the text on disk.
Label ==
  /\ q.pc = "label"
  /\ q' = [q EXCEPT !.pc = "recheck", !.epoch = client.epoch,
             !.fresh = IF ~(q.known /\ server.up /\ q.set.version > 0) THEN "unknown"
                       ELSE IF IsCurrent(q.set) /\ disk["document"] = inst.doc.text
                       THEN "synchronized" ELSE "stale"]
  /\ UNCHANGED <<world, m, inst, server, wire, client, refresher, answer>>

\* Diagnostics, at last: the snapshot is compared once more before the answer is returned.
Recheck ==
  /\ q.pc = "recheck"
  /\ LET same == disk["document"] = inst.doc.text /\ q.epoch = m.epoch
     IN answer' = [fresh |-> IF same THEN q.fresh ELSE "stale", text |-> q.set.text,
                   seen |-> q.set.seen, now |-> disk["document"],
                   scanned |-> q.scan["dependency"], untold |-> inst.untold,
                   resync |-> q.query.resync]
  /\ q' = Idle
  /\ UNCHANGED <<world, m, inst, server, wire, client, refresher>>

----------------------------------------------------------------------------
(* Navigation: a position in the dependency, located in its text.           *)

\* Faulty variant: the text is whatever the file has now.
LocateAnyway(r) ==
  [text |-> disk["dependency"], seen |-> r.seen, generation |-> inst.generation, untold |-> inst.untold]
\* location: a position in a file that is not open is refused unless the file is as scanned.
Locate(r) ==
  IF disk["dependency"] = q.scan["dependency"]
  THEN [text |-> disk["dependency"], seen |-> r.seen, generation |-> inst.generation,
        untold |-> inst.untold]
  ELSE NoRef

NavigateAnswered ==
  /\ Answered /\ q.query.kind # "diagnostics"
  /\ wire' = Tail(wire)
  /\ m' = [m EXCEPT !.ref = IF Locate(Head(wire)) = NoRef THEN @ ELSE Locate(Head(wire))]
  /\ q' = Idle
  /\ UNCHANGED <<world, inst, server, client, refresher, answer>>

\* semanticCall: an answer that the workspace moved under, or an empty one of a server that warms
\* up, is asked for again; an error or another empty one ends the query.
NavigateUnanswered ==
  /\ Answered /\ q.query.kind # "diagnostics"
  /\ wire' = Tail(wire)
  /\ q' \in {Goto("ask"), Idle}
  /\ UNCHANGED <<world, m, inst, server, client, refresher, answer>>

\* Or the server died, or its deadline passed between two requests, or within one that the server
\* does not answer.
NavigateFails ==
  /\ q.pc \in {"ask", "asked"} /\ q.query.kind # "diagnostics"
  /\ q' = Idle
  /\ IF q.pc = "asked" THEN server' = Down /\ wire' = <<>> ELSE UNCHANGED <<server, wire>>
  /\ UNCHANGED <<world, m, inst, client, refresher, answer>>

----------------------------------------------------------------------------
(* Close.                                                                   *)

\* The life of every transaction ends first, then the gate is waited for.
CloseBegins ==
  /\ Closes /\ ~m.closing
  /\ m' = [m EXCEPT !.closing = TRUE]
  /\ UNCHANGED <<world, inst, server, wire, client, q, refresher, answer>>

\* Faulty variant: one that is queued waits for the gate.
RefresherEndsIdle ==
  /\ m.closing /\ refresher = "idle"
  /\ refresher' = "ended"
  /\ UNCHANGED <<world, m, inst, server, wire, client, q, answer>>
\* Queued for the gate or not, the refresher ends with the manager's life.
RefresherEnds ==
  /\ m.closing /\ refresher # "ended"
  /\ refresher' = "ended"
  /\ UNCHANGED <<world, m, inst, server, wire, client, q, answer>>

\* A transaction whose context ended returns at its next wait, or gives no answer at its end.
Abandon ==
  /\ m.closing /\ q.pc \notin {"idle", "closing"}
  /\ q' = Idle
  /\ UNCHANGED <<world, m, inst, server, wire, client, refresher, answer>>

TakeGate ==
  /\ m.closing /\ ~m.shut /\ q.pc = "idle"
  /\ q' = [pc |-> "closing"]
  /\ UNCHANGED <<world, m, inst, server, wire, client, refresher, answer>>

\* Holding the gate, Close waits for the goroutines and then ends the server.
Shut ==
  /\ q.pc = "closing" /\ refresher = "ended"
  /\ m' = [m EXCEPT !.shut = TRUE]
  /\ server' = Down /\ wire' = <<>> /\ q' = Idle
  /\ UNCHANGED <<world, inst, client, refresher, answer>>

Transaction ==
  /\ ~m.closing
  /\ \/ Ensure \/ Scan \/ Reconcile \/ Sync \/ Ask
     \/ PullAnswered \/ PullFails \/ AskFails \/ PushAnswered \/ WaitEnds \/ Label \/ Recheck
     \/ NavigateAnswered \/ NavigateUnanswered \/ NavigateFails

Next ==
  \/ \E x \in File : Edit(x)
  \/ Changed \/ ServerDies \/ ServerHandles \/ Published \/ RefreshAsked \/ Registers
  \/ Acquire \/ RefresherAcquires \/ Transaction
  \/ CloseBegins \/ RefresherEnds \/ Abandon \/ TakeGate \/ Shut

\* The goroutines and the pipes run; the server owes nothing.
Fairness ==
  /\ WF_vars(Transaction) /\ WF_vars(Published) /\ WF_vars(RefresherAcquires)
  /\ WF_vars(RefresherEnds) /\ WF_vars(Abandon) /\ WF_vars(TakeGate) /\ WF_vars(Shut)

Spec == Init /\ [][Next]_vars /\ Fairness
----------------------------------------------------------------------------
\* Diagnostics labelled synchronized were computed by the server from the very text that is in the
\* file when they are returned, across edits, restarts of the server and late publications
\* (diagnostics.go: the label and its recheck).
SynchronizedIsExact == answer.fresh = "synchronized" => answer.text = answer.now

\* A query that resends the document (the report after a write asks for that) is answered from an
\* analysis no older than its scan of the other files, if it is labelled synchronized: a publication
\* that was on its way when the files were scanned cannot pass for it (types.go: Resync).  It is so
\* for what the server was told of, which leaves out what its first scan found and the changes of
\* files that it had not asked to be told of.
ResyncConfirms ==
  answer.fresh = "synchronized" /\ answer.resync /\ answer.scanned # answer.untold
    => answer.seen >= answer.scanned

\* The text that a reference names by its hash is the text in which the server found the position
\* (queries.go: location; workspace.go: reconcile tells the server before it is asked), again for
\* a text that the server was told of.
LocatedInItsText == m.ref.text # m.ref.untold => m.ref.seen = m.ref.text

\* reconcile "always verifies workspace content before a query", and so catches what no hint
\* announced (workspace.go:15): so the answer to a resync is never older than the scan.  Not so for
\* what the server was not told of.
ScanCatchesChanges ==
  answer.fresh = "synchronized" /\ answer.resync => answer.seen >= answer.scanned

\* Closing ends, whatever the server does: transactions return, and the refresher does not wait for
\* the gate that Close holds (manager.go: Close).
CloseEnds == m.closing ~> m.shut
=============================================================================
