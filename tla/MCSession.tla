----------------------------- MODULE MCSession -----------------------------
(***************************************************************************)
(* The parts under a session: its control (admission, interruption, close), *)
(* the publication of the ledger, the event log, and the close of the       *)
(* language servers.  Each behaviour exercises one of them, the focus, and  *)
(* leaves the others in their initial state, where no step that fairness is *)
(* about is enabled.                                                       *)
(***************************************************************************)
EXTENDS SessionControl

CONSTANTS Item, MaxMinted, MaxEvents,
          Publisher, Entries, Terminal,
          MaxEdits, MaxQueries, MaxDeaths, Closes

\* The quota of the log is a number, and session_closed is the log's own record.
ASSUME LogAssumption == Entries \in Nat /\ Terminal \notin Publisher

VARIABLES
  focus,
  store, events, visible, failure, ready, announcing, minted, log, dispatch, batch, attempted,
  dispatched, awaiting,
  pub, queue, jobs, pending, completed, logErr, finishing, finish, flush, wpc, wjob, expired,
  firing, committed, failed, disposed, disk, sub, asleep, dozing,
  files, hinted, m, inst, server, wire, client, q, refresher, answer

Ledger == INSTANCE WorkLedger WITH Record <- Item, sending <- announcing, held <- awaiting
Log == INSTANCE EventLog
Servers == INSTANCE LanguageServer WITH disk <- files

ledgerVars == <<store, events, visible, failure, ready, announcing, minted, log, dispatch, batch,
                attempted, dispatched, awaiting>>
logVars == <<pub, queue, jobs, pending, completed, logErr, finishing, finish, flush, wpc, wjob,
             expired, firing, committed, failed, disposed, disk, sub, asleep, dozing>>
serverVars == <<files, hinted, m, inst, server, wire, client, q, refresher, answer>>
allVars == <<focus, vars, ledgerVars, logVars, serverVars>>

MCInit ==
  /\ focus \in {"control", "ledger", "log", "servers"}
  /\ Init /\ Ledger!Init /\ Log!Init /\ Servers!Init
  /\ focus # "log" => flush.state = "none" /\ asleep = {"writer"}

MCNext ==
  /\ UNCHANGED focus
  /\ \/ focus = "control" /\ Next /\ UNCHANGED <<ledgerVars, logVars, serverVars>>
     \/ focus = "ledger" /\ Ledger!Next /\ UNCHANGED <<vars, logVars, serverVars>>
     \/ focus = "log" /\ Log!Next /\ UNCHANGED <<vars, ledgerVars, serverVars>>
     \/ focus = "servers" /\ Servers!Next /\ UNCHANGED <<vars, ledgerVars, logVars>>

MCSpec ==
  /\ MCInit /\ [][MCNext]_allVars
  /\ Fairness /\ Ledger!Fairness /\ Log!Fairness /\ Servers!Fairness

----------------------------------------------------------------------------
\* The ledger, the log and the dispatcher agree (WorkLedger).
PublicationHolds == Ledger!PublicationHolds
\* A replay of the log sees each mutation whole or not at all (WorkLedger, LedgerReplay).
ReplayIsAtomic == Ledger!ReplayIsAtomic
\* Every event that was published is handled (WorkLedger).
EveryEventHandled == Ledger!EveryEventHandled
\* What the log answers a publisher, a flush or a finish is true (EventLog).
AnswersAreTrue == Log!AnswersAreTrue
\* A crash leaves a file that opens, with every visible record (EventLog).
ArchiveKeepsPrefix == Log!ArchiveKeepsPrefix
\* Nothing becomes visible after a failure was reported, and every caller of the log is
\* answered (EventLog).
LogAnswers == Log!FailureFreezes /\ Log!EverybodyAnswered
\* The manager of the language servers closes, whatever they do (LanguageServer).
CloseEnds == Servers!CloseEnds
=============================================================================
