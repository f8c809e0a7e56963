------------------------- MODULE MCComponentsProofs -------------------------
(***************************************************************************)
(* The theorems of the components (ComponentProofs, ScreenProofs) hold of  *)
(* the instances that the run explores, for every value of the constants   *)
(* those have.                                                             *)
(***************************************************************************)
EXTENDS MCComponents, TLAPS

Proved == INSTANCE ComponentProofs
  WITH topic <- x1, stage <- x2, agents <- x3, registered <- x4, outputs <- x5, histories <- x6,
       lastBatch <- x7, usage <- x8, chunks <- x9, contents <- x10, messages <- x11,
       receipts <- x12, tools <- x13, work <- x14, evidence <- x15, research <- x16,
       noted <- x17, phase <- x1, history <- x2, batch <- x3, next <- x4, together <- x5,
       started <- x6, retries <- x7, repeated <- x8, cut <- x9, interrupt <- x10,
       stop <- x11, interrupts <- x12, unrun <- x13, disk <- x1, hinted <- x2,
       manager <- x3, server <- x4, process <- x5, wire <- x6, callbacks <- x7,
       transaction <- x8, refresher <- x9, answer <- x10, trace <- x1, stands <- x2,
       looks <- x3, passed <- x4, nextGate <- x5, quiet <- x6, skipped <- x7, cutOff <- x8,
       acted <- x9, crashed <- x10

Shown == INSTANCE ScreenProofs
  WITH calls <- x1, length <- x2, views <- x3, view <- x4, reads <- x5, jobStatus <- x1,
       cancelled <- x2, announcing <- x3, pc <- x4, at <- x5, tasks <- x6, verdict <- x7,
       outbox <- x8, boxes <- x9, events <- x10, client <- x11, directory <- x1,
       writer <- x2, listGeneration <- x3, index <- x4, scans <- x5, scanning <- x6,
       refreshing <- x7, lister <- x8, analysis <- x9, cache <- x10, reader <- x11,
       life <- x1, ended <- x2, mail <- x3, messages <- x4, feed <- x5, pending <- x6,
       working <- x7, agentsKnown <- x8, stopping <- x9, talkStatus <- x10, looks <- x11

----------------------------------------------------------------------------
\* The instance here, and the one of the proofs, are the same.
LEMMA ReaderIsProved ==
  /\ Reader!Init <=> Shown!Reader!Init
  /\ Reader!Next <=> Shown!Reader!Next
  /\ Reader!PagesFit <=> Shown!Reader!PagesFit
<1>1. Reader!Init <=> Shown!Reader!Init
  BY DEF Reader!Init, Shown!Reader!Init, Reader!NoView, Shown!Reader!NoView
<1>2. Reader!Next <=> Shown!Reader!Next
  BY DEF Reader!Next, Shown!Reader!Next, Reader!Deliver, Shown!Reader!Deliver,
     Reader!EarlierEntries, Shown!Reader!EarlierEntries, Reader!EarlierOutputs,
     Shown!Reader!EarlierOutputs, Reader!Grow, Shown!Reader!Grow, Reader!Leave,
     Shown!Reader!Leave, Reader!Open, Shown!Reader!Open, Reader!ReadFails,
     Shown!Reader!ReadFails, Reader!Refresh, Shown!Reader!Refresh, Reader!ToggleReasoning,
     Shown!Reader!ToggleReasoning, Reader!Before, Shown!Reader!Before, Reader!Current,
     Shown!Reader!Current, Reader!NoView, Shown!Reader!NoView, Reader!Load,
     Shown!Reader!Load, Reader!Least, Shown!Reader!Least, Reader!MayLoad,
     Shown!Reader!MayLoad
<1>3. Reader!PagesFit <=> Shown!Reader!PagesFit
  BY DEF Reader!PagesFit, Shown!Reader!PagesFit, Reader!Contiguous, Shown!Reader!Contiguous,
     Reader!NoView, Shown!Reader!NoView
<1> QED
  BY <1>1, <1>2, <1>3

\* Whatever the person opens, refreshes or leaves while pages load, and in whatever order the
\* reads arrive, what is shown is one unbroken stretch of the agent shown (transcript.go,
\* reasoning.go).
THEOREM PagesFitAlways == Spec => []PagesFit
<1> DEFINE Inv == focus = "browser" => Shown!BrowserInv
<1>0. Shown!PageAssumption
  BY ReaderAssumption DEF Shown!PageAssumption
<1>1. Init => Inv
  <2> SUFFICES ASSUME Init, focus = "browser" PROVE Shown!BrowserInv
    OBVIOUS
  <2>1. Reader!Init
    BY Zenon DEF Init
  <2> QED
    BY <1>0, <2>1, ReaderIsProved, Shown!BrowserInitially
<1>2. Inv /\ [Next]_vars => Inv'
  <2> SUFFICES ASSUME Inv, [Next]_vars, focus' = "browser" PROVE Shown!BrowserInv'
    OBVIOUS
  <2>1. focus = "browser"
    BY DEF Next, vars
  <2>2. Reader!Next \/ UNCHANGED vars
    BY <2>1, Zenon DEF Next
  <2>3. [Shown!Reader!Next]_Shown!Reader!vars
    BY <2>2, ReaderIsProved DEF vars, Shown!Reader!vars
  <2> QED
    BY <1>0, <2>1, <2>3, Shown!BrowserStep
<1>3. Inv => PagesFit
  BY ReaderIsProved, Shown!BrowserFits DEF PagesFit
<1> QED
  BY <1>1, <1>2, <1>3, PTL DEF Spec

----------------------------------------------------------------------------
\* The instance here, and the one of the proofs, are the same.
LEMMA ViewsIsProved ==
  /\ Views!Init <=> Proved!Views!Init
  /\ Views!Next <=> Proved!Views!Next
  /\ Views!ViewsFit <=> Proved!Views!ViewsFit
<1>1. Views!Init <=> Proved!Views!Init
  BY DEF Views!Init, Proved!Views!Init, Views!NoBatch, Proved!Views!NoBatch, Views!NoRun,
     Proved!Views!NoRun
<1>2. Views!Next <=> Proved!Views!Next
  BY DEF Views!Next, Proved!Views!Next, Views!AgentStarted, Proved!Views!AgentStarted,
     Views!SessionClosed, Proved!Views!SessionClosed, Views!SessionStarted,
     Proved!Views!SessionStarted, Views!Talk, Proved!Views!Talk, Views!TheMail,
     Proved!Views!TheMail, Views!TheOne, Proved!Views!TheOne, Views!TheRest,
     Proved!Views!TheRest, Views!TheWork, Proved!Views!TheWork, Views!Started,
     Proved!Views!Started, Views!body, Proved!Views!body, Views!job, Proved!Views!job,
     Views!mail, Proved!Views!mail, Views!talk, Proved!Views!talk, Views!AgentYielded,
     Proved!Views!AgentYielded, Views!Channels, Proved!Views!Channels, Views!HistoryAppended,
     Proved!Views!HistoryAppended, Views!OutputDelta, Proved!Views!OutputDelta,
     Views!OutputFinished, Proved!Views!OutputFinished, Views!OutputStarted,
     Proved!Views!OutputStarted, Views!ToolBatch, Proved!Views!ToolBatch, Views!Ack,
     Proved!Views!Ack, Views!ContentChunk, Proved!Views!ContentChunk, Views!Message,
     Proved!Views!Message, Views!Noted, Proved!Views!Noted, Views!AgentRegistered,
     Proved!Views!AgentRegistered, Views!AgentState, Proved!Views!AgentState,
     Views!Creatable, Proved!Views!Creatable, Views!Heads, Proved!Views!Heads, Views!States,
     Proved!Views!States, Views!Usage, Proved!Views!Usage, Views!Research,
     Proved!Views!Research, Views!ToolFinished, Proved!Views!ToolFinished, Views!ToolStarted,
     Proved!Views!ToolStarted, Views!Work, Proved!Views!Work, Views!Complete,
     Proved!Views!Complete, Views!NoBatch, Proved!Views!NoBatch, Views!Active,
     Proved!Views!Active, Views!Framed, Proved!Views!Framed, Views!Plain, Proved!Views!Plain,
     Views!Positions, Proved!Views!Positions, Views!NoBytes, Proved!Views!NoBytes,
     Views!Terminal, Proved!Views!Terminal, Views!Known, Proved!Views!Known, Views!Bound,
     Proved!Views!Bound, Views!NoRun, Proved!Views!NoRun, Views!Calls, Proved!Views!Calls
<1>3. Views!ViewsFit <=> Proved!Views!ViewsFit
  BY DEF Views!ViewsFit, Proved!Views!ViewsFit, Views!PagesTile, Proved!Views!PagesTile,
     Views!ViewsCohere, Proved!Views!ViewsCohere, Views!PageOf, Proved!Views!PageOf,
     Views!Calls, Proved!Views!Calls, Views!Complete, Proved!Views!Complete, Views!Known,
     Proved!Views!Known, Views!NoRun, Proved!Views!NoRun, Views!Positions,
     Proved!Views!Positions, Views!Started, Proved!Views!Started, Views!PageEnd,
     Proved!Views!PageEnd
<1> QED
  BY <1>1, <1>2, <1>3

\* Whatever records come, and in whatever order, those that the projector takes leave views that
\* fit together, and their pages, read backwards, show everything once (projector.go).
THEOREM ViewsFitAlways == Spec => []ViewsFit
<1> DEFINE Inv == focus = "views" => Proved!ViewsInv
<1>0. Proved!ViewsAssumption
  BY ViewsAssumption DEF Proved!ViewsAssumption
<1>1. Init => Inv
  <2> SUFFICES ASSUME Init, focus = "views" PROVE Proved!ViewsInv
    OBVIOUS
  <2>1. Views!Init
    BY Zenon DEF Init
  <2> QED
    BY <1>0, <2>1, ViewsIsProved, Proved!ViewsInitially
<1>2. Inv /\ [Next]_vars => Inv'
  <2> SUFFICES ASSUME Inv, [Next]_vars, focus' = "views" PROVE Proved!ViewsInv'
    OBVIOUS
  <2>1. focus = "views"
    BY DEF Next, vars
  <2>2. Views!Next \/ UNCHANGED vars
    BY <2>1, Zenon DEF Next
  <2>3. [Proved!Views!Next]_Proved!Views!vars
    BY <2>2, ViewsIsProved DEF vars, Proved!Views!vars, Proved!Views!body, Proved!Views!job, Proved!Views!mail, Proved!Views!talk
  <2> QED
    BY <1>0, <2>1, <2>3, Proved!ViewsStep
<1>3. Inv => ViewsFit
  BY ViewsIsProved, Proved!ViewsFits DEF ViewsFit
<1> QED
  BY <1>1, <1>2, <1>3, PTL DEF Spec

----------------------------------------------------------------------------
\* The instance here, and the one of the proofs, are the same.
LEMMA LoopIsProved ==
  /\ Loop!Init <=> Proved!Loop!Init
  /\ Loop!Next <=> Proved!Loop!Next
  /\ Loop!EveryCallAnswered <=> Proved!Loop!EveryCallAnswered
<1>1. Loop!Init <=> Proved!Loop!Init
  BY DEF Loop!Init, Proved!Loop!Init
<1>2. Loop!Next <=> Proved!Loop!Next
  BY DEF Loop!Next, Proved!Loop!Next, Loop!BatchEnds, Proved!Loop!BatchEnds, Loop!Batches,
     Proved!Loop!Batches, Loop!Consume, Proved!Loop!Consume, Loop!GenerationEnds,
     Proved!Loop!GenerationEnds, Loop!Regenerate, Proved!Loop!Regenerate,
     Loop!ReleaseInterrupt, Proved!Loop!ReleaseInterrupt, Loop!ReplyRefused,
     Proved!Loop!ReplyRefused, Loop!Request, Proved!Loop!Request, Loop!RequestInterrupt,
     Proved!Loop!RequestInterrupt, Loop!RequestStop, Proved!Loop!RequestStop, Loop!Respond,
     Proved!Loop!Respond, Loop!RunTogether, Proved!Loop!RunTogether, Loop!Settle,
     Proved!Loop!Settle, Loop!SettleInterrupt, Proved!Loop!SettleInterrupt, Loop!Start,
     Proved!Loop!Start, Loop!Stopped, Proved!Loop!Stopped, Loop!Unwind, Proved!Loop!Unwind,
     Loop!control, Proved!Loop!control, Loop!running, Proved!Loop!running, Loop!Room,
     Proved!Loop!Room, Loop!Said, Proved!Loop!Said, Loop!Asked, Proved!Loop!Asked,
     Loop!Recorded, Proved!Loop!Recorded, Loop!Result, Proved!Loop!Result, Loop!Cancelled,
     Proved!Loop!Cancelled, Loop!LastAsked, Proved!Loop!LastAsked, Loop!Pending,
     Proved!Loop!Pending, Loop!PendingCalls, Proved!Loop!PendingCalls, Loop!Positions,
     Proved!Loop!Positions, Loop!Results, Proved!Loop!Results, Loop!Cardinality,
     Proved!Loop!Cardinality
<1>3. Loop!EveryCallAnswered <=> Proved!Loop!EveryCallAnswered
  BY DEF Loop!EveryCallAnswered, Proved!Loop!EveryCallAnswered, Loop!Positions,
     Proved!Loop!Positions, Loop!Cardinality, Proved!Loop!Cardinality
<1> QED
  BY <1>1, <1>2, <1>3

\* Wherever an exchange is interrupted, cut, stopped or regenerated, the model is never asked with
\* a call that has no result, or with a result too many (agent.go, interrupt.go, thread.go).
THEOREM EveryCallIsAnswered == Spec => []EveryCallAnswered
<1> DEFINE Inv == focus = "exchange" => Proved!LoopInv
<1>1. Init => Inv
  <2> SUFFICES ASSUME Init, focus = "exchange" PROVE Proved!LoopInv
    OBVIOUS
  <2>1. Loop!Init
    BY Zenon DEF Init
  <2> QED
    BY <2>1, LoopIsProved, Proved!LoopInitially
<1>2. Inv /\ [Next]_vars => Inv'
  <2> SUFFICES ASSUME Inv, [Next]_vars, focus' = "exchange" PROVE Proved!LoopInv'
    OBVIOUS
  <2>1. focus = "exchange"
    BY DEF Next, vars
  <2>2. Loop!Next \/ UNCHANGED vars
    BY <2>1, Zenon DEF Next
  <2>3. [Proved!Loop!Next]_Proved!Loop!vars
    BY <2>2, LoopIsProved DEF vars, Proved!Loop!vars
  <2> QED
    BY <2>1, <2>3, Proved!LoopStep
<1>3. Inv => EveryCallAnswered
  BY LoopIsProved, Proved!LoopFits DEF EveryCallAnswered
<1> QED
  BY <1>1, <1>2, <1>3, PTL DEF Spec

----------------------------------------------------------------------------
\* The instance here, and the one of the proofs, are the same.
LEMMA JobIsProved ==
  /\ Job!Init <=> Shown!Job!Init
  /\ Job!Next <=> Shown!Job!Next
  /\ Job!JobsAreHonest <=> Shown!Job!JobsAreHonest
<1>1. Job!Init <=> Shown!Job!Init
  BY DEF Job!Init, Shown!Job!Init, Job!Task, Shown!Job!Task, Job!job, Shown!Job!job
<1>2. Job!Next <=> Shown!Job!Next
  BY DEF Job!Next, Shown!Job!Next, Job!After, Shown!Job!After, Job!BoxEnds, Shown!Job!BoxEnds,
     Job!CancelAnnounced, Shown!Job!CancelAnnounced, Job!CancelJob, Shown!Job!CancelJob,
     Job!Disconnect, Shown!Job!Disconnect, Job!Follow, Shown!Job!Follow,
     Job!HandleJobEvents, Shown!Job!HandleJobEvents, Job!InOrder, Shown!Job!InOrder,
     Job!Running, Shown!Job!Running, Job!StartJob, Shown!Job!StartJob, Job!job,
     Shown!Job!job, Job!run, Shown!Job!run, Job!Emit, Shown!Job!Emit, Job!Event,
     Shown!Job!Event, Job!AgentExits, Shown!Job!AgentExits, Job!BoxKilled,
     Shown!Job!BoxKilled, Job!Grade, Shown!Job!Grade, Job!GraderExits,
     Shown!Job!GraderExits, Job!JobEnds, Shown!Job!JobEnds, Job!Observe,
     Shown!Job!Observe, Job!PrepareContainers, Shown!Job!PrepareContainers,
     Job!PrepareFails, Shown!Job!PrepareFails, Job!Result, Shown!Job!Result, Job!Skip,
     Shown!Job!Skip, Job!StartBox, Shown!Job!StartBox, Job!StartTask, Shown!Job!StartTask,
     Job!Box, Shown!Job!Box, Job!Goes, Shown!Job!Goes, Job!Phase, Shown!Job!Phase,
     Job!Ending, Shown!Job!Ending, Job!Final, Shown!Job!Final, Job!Failed,
     Shown!Job!Failed, Job!Task, Shown!Job!Task, Job!Outcome, Shown!Job!Outcome,
     Job!Cardinality, Shown!Job!Cardinality
<1>3. Job!JobsAreHonest <=> Shown!Job!JobsAreHonest
  BY DEF Job!JobsAreHonest, Shown!Job!JobsAreHonest, Job!ContainersBelong,
     Shown!Job!ContainersBelong, Job!EndIsComplete, Shown!Job!EndIsComplete,
     Job!TasksSettle, Shown!Job!TasksSettle, Job!job, Shown!Job!job, Job!Event,
     Shown!Job!Event, Job!Task, Shown!Job!Task, Job!Cardinality, Shown!Job!Cardinality
<1> QED
  BY <1>1, <1>2, <1>3

\* Whenever a job is cancelled, its containers fail or its follower loses the connection, one job
\* runs at a time, no container outlives a job that was not cancelled, what is over has settled
\* every task, and a follower that is told of the end has everything before it (job.go, server.go).
THEOREM JobsAreAlwaysHonest == Spec => []JobsAreHonest
<1> DEFINE Inv == focus = "job" => Shown!JobInv
<1>0. Shown!JobsAssumption
  BY JobAssumption DEF Shown!JobsAssumption
<1>1. Init => Inv
  <2> SUFFICES ASSUME Init, focus = "job" PROVE Shown!JobInv
    OBVIOUS
  <2>1. Job!Init
    BY Zenon DEF Init
  <2> QED
    BY <1>0, <2>1, JobIsProved, Shown!JobInitially
<1>2. Inv /\ [Next]_vars => Inv'
  <2> SUFFICES ASSUME Inv, [Next]_vars, focus' = "job" PROVE Shown!JobInv'
    OBVIOUS
  <2>1. focus = "job"
    BY DEF Next, vars
  <2>2. Job!Next \/ UNCHANGED vars
    BY <2>1, Zenon DEF Next
  <2>3. [Shown!Job!Next]_Shown!Job!vars
    BY <2>2, JobIsProved DEF vars, Shown!Job!vars, Shown!Job!job, Shown!Job!run
  <2> QED
    BY <1>0, <2>1, <2>3, Shown!JobStep
<1>3. Inv => JobsAreHonest
  BY <1>0, JobIsProved, Shown!JobFits DEF JobsAreHonest
<1> QED
  BY <1>1, <1>2, <1>3, PTL DEF Spec

----------------------------------------------------------------------------
\* The instance here, and the one of the proofs, are the same.
LEMMA AnalysisIsProved ==
  /\ Analysis!Init <=> Proved!Analysis!Init
  /\ Analysis!Next <=> Proved!Analysis!Next
  /\ Analysis!SynchronizedIsExact <=> Proved!Analysis!SynchronizedIsExact
  /\ Analysis!LocatedInItsText <=> Proved!Analysis!LocatedInItsText
  /\ Analysis!ResyncConfirms <=> Proved!Analysis!ResyncConfirms
<1>1. Analysis!Init <=> Proved!Analysis!Init
  BY DEF Analysis!Init, Proved!Analysis!Init, Analysis!Down, Proved!Analysis!Down, Analysis!File,
     Proved!Analysis!File, Analysis!Idle, Proved!Analysis!Idle, Analysis!NewClient,
     Proved!Analysis!NewClient, Analysis!NoAnswer, Proved!Analysis!NoAnswer, Analysis!NoDoc,
     Proved!Analysis!NoDoc, Analysis!NoRef, Proved!Analysis!NoRef, Analysis!Unscanned,
     Proved!Analysis!Unscanned, Analysis!NoSet, Proved!Analysis!NoSet
<1>2. Analysis!Next <=> Proved!Analysis!Next
  BY DEF Analysis!Next, Proved!Analysis!Next, Analysis!Abandon, Proved!Analysis!Abandon,
     Analysis!Acquire, Proved!Analysis!Acquire, Analysis!Changed, Proved!Analysis!Changed,
     Analysis!CloseBegins, Proved!Analysis!CloseBegins, Analysis!Edit, Proved!Analysis!Edit,
     Analysis!File, Proved!Analysis!File, Analysis!Published, Proved!Analysis!Published,
     Analysis!RefreshAsked, Proved!Analysis!RefreshAsked, Analysis!RefresherAcquires,
     Proved!Analysis!RefresherAcquires, Analysis!RefresherEnds,
     Proved!Analysis!RefresherEnds, Analysis!Registers, Proved!Analysis!Registers,
     Analysis!ServerDies, Proved!Analysis!ServerDies, Analysis!ServerHandles,
     Proved!Analysis!ServerHandles, Analysis!Shut, Proved!Analysis!Shut, Analysis!TakeGate,
     Proved!Analysis!TakeGate, Analysis!Transaction, Proved!Analysis!Transaction,
     Analysis!Idle, Proved!Analysis!Idle, Analysis!world, Proved!Analysis!world,
     Analysis!NoAnswer, Proved!Analysis!NoAnswer, Analysis!NoRef, Proved!Analysis!NoRef,
     Analysis!Query, Proved!Analysis!Query, Analysis!RefIsGood, Proved!Analysis!RefIsGood,
     Analysis!Started, Proved!Analysis!Started, Analysis!AsSet, Proved!Analysis!AsSet,
     Analysis!Store, Proved!Analysis!Store, Analysis!NoDoc, Proved!Analysis!NoDoc,
     Analysis!Down, Proved!Analysis!Down, Analysis!Report, Proved!Analysis!Report,
     Analysis!Ask, Proved!Analysis!Ask, Analysis!AskFails, Proved!Analysis!AskFails,
     Analysis!Ensure, Proved!Analysis!Ensure, Analysis!Label, Proved!Analysis!Label,
     Analysis!NavigateAnswered, Proved!Analysis!NavigateAnswered, Analysis!NavigateFails,
     Proved!Analysis!NavigateFails, Analysis!NavigateUnanswered,
     Proved!Analysis!NavigateUnanswered, Analysis!PullAnswered, Proved!Analysis!PullAnswered,
     Analysis!PullFails, Proved!Analysis!PullFails, Analysis!PushAnswered,
     Proved!Analysis!PushAnswered, Analysis!Recheck, Proved!Analysis!Recheck,
     Analysis!Reconcile, Proved!Analysis!Reconcile, Analysis!Scan, Proved!Analysis!Scan,
     Analysis!Sync, Proved!Analysis!Sync, Analysis!WaitEnds, Proved!Analysis!WaitEnds,
     Analysis!NoSet, Proved!Analysis!NoSet, Analysis!Unscanned, Proved!Analysis!Unscanned,
     Analysis!Send, Proved!Analysis!Send, Analysis!Goto, Proved!Analysis!Goto,
     Analysis!NewClient, Proved!Analysis!NewClient, Analysis!IsCurrent,
     Proved!Analysis!IsCurrent, Analysis!Answered, Proved!Analysis!Answered, Analysis!Locate,
     Proved!Analysis!Locate, Analysis!Snapshot, Proved!Analysis!Snapshot, Analysis!MustSend,
     Proved!Analysis!MustSend, Analysis!Merged, Proved!Analysis!Merged, Analysis!Pulled,
     Proved!Analysis!Pulled, Analysis!Less, Proved!Analysis!Less
<1>3. Analysis!SynchronizedIsExact <=> Proved!Analysis!SynchronizedIsExact
  BY DEF Analysis!SynchronizedIsExact, Proved!Analysis!SynchronizedIsExact
<1>4. Analysis!LocatedInItsText <=> Proved!Analysis!LocatedInItsText
  BY DEF Analysis!LocatedInItsText, Proved!Analysis!LocatedInItsText
<1>5. Analysis!ResyncConfirms <=> Proved!Analysis!ResyncConfirms
  BY DEF Analysis!ResyncConfirms, Proved!Analysis!ResyncConfirms
<1> QED
  BY <1>1, <1>2, <1>3, <1>4, <1>5

LEMMA AnalysisInvariant == Spec => [](focus = "analysis" => Proved!LspInv)
<1> DEFINE Inv == focus = "analysis" => Proved!LspInv
<1>1. Init => Inv
  <2> SUFFICES ASSUME Init, focus = "analysis" PROVE Proved!LspInv
    OBVIOUS
  <2>1. Analysis!Init
    BY Zenon DEF Init
  <2> QED
    BY <2>1, AnalysisIsProved, Proved!LspInitially
<1>2. Inv /\ [Next]_vars => Inv'
  <2> SUFFICES ASSUME Inv, [Next]_vars, focus' = "analysis" PROVE Proved!LspInv'
    OBVIOUS
  <2>1. focus = "analysis"
    BY DEF Next, vars
  <2>2. Analysis!Next \/ UNCHANGED vars
    BY <2>1, Zenon DEF Next
  <2>3. [Proved!Analysis!Next]_Proved!Analysis!vars
    BY <2>2, AnalysisIsProved DEF vars, Proved!Analysis!vars
  <2> QED
    BY <2>1, <2>3, Proved!LspStep
<1> QED
  BY <1>1, <1>2, PTL DEF Spec

\* However files are edited, hints lost, servers restarted and publications delayed, diagnostics
\* labelled synchronized were computed from the very text they are returned with, and a position is
\* located in the text in which the server found it (diagnostics.go, queries.go).
THEOREM AnswersAreAlwaysFresh == Spec => []AnswersAreFresh
<1>1. (focus = "analysis" => Proved!LspInv) => AnswersAreFresh
  BY AnalysisIsProved, Proved!LspFits DEF AnswersAreFresh
<1> QED
  BY <1>1, AnalysisInvariant, PTL

\* A report after a write comes from an analysis no older than its scan of the other files: what was
\* on its way when the files were scanned cannot pass for it (types.go: Resync).
THEOREM ResyncAlwaysConfirms == Spec => []ResyncConfirms
<1>1. (focus = "analysis" => Proved!LspInv) => ResyncConfirms
  BY AnalysisIsProved, Proved!LspFits DEF ResyncConfirms
<1> QED
  BY <1>1, AnalysisInvariant, PTL

----------------------------------------------------------------------------
\* The instance here, and the one of the proofs, are the same.
LEMMA LibraryIsProved ==
  /\ Library!Init <=> Shown!Library!Init
  /\ Library!Next <=> Shown!Library!Next
  /\ Library!LibraryIsCurrent <=> Shown!Library!LibraryIsCurrent
<1>1. Library!Init <=> Shown!Library!Init
  BY DEF Library!Init, Shown!Library!Init, Library!Absent, Shown!Library!Absent, Library!Away,
     Shown!Library!Away, Library!Lister, Shown!Library!Lister, Library!NoAnalysis,
     Shown!Library!NoAnalysis, Library!NoList, Shown!Library!NoList, Library!Resting,
     Shown!Library!Resting, Library!Stamps, Shown!Library!Stamps, Library!Cardinality,
     Shown!Library!Cardinality
<1>2. Library!Next <=> Shown!Library!Next
  BY DEF Library!Next, Shown!Library!Next, Library!AnalysisFails, Shown!Library!AnalysisFails,
     Library!Analyze, Shown!Library!Analyze, Library!Analyzed, Shown!Library!Analyzed,
     Library!AppendResult, Shown!Library!AppendResult, Library!Delete,
     Shown!Library!Delete, Library!Deleted, Shown!Library!Deleted, Library!Discover,
     Shown!Library!Discover, Library!Index, Shown!Library!Index, Library!Invalidate,
     Shown!Library!Invalidate, Library!JobEnds, Shown!Library!JobEnds, Library!Ladder,
     Shown!Library!Ladder, Library!Leave, Shown!Library!Leave, Library!LibraryRefused,
     Shown!Library!LibraryRefused, Library!Lister, Shown!Library!Lister, Library!Lock,
     Shown!Library!Lock, Library!OverlayJobs, Shown!Library!OverlayJobs, Library!Rename,
     Shown!Library!Rename, Library!Rescan, Shown!Library!Rescan, Library!Share,
     Shown!Library!Share, Library!Stamps, Shown!Library!Stamps, Library!StartJob,
     Shown!Library!StartJob, Library!Store, Shown!Library!Store, Library!Away,
     Shown!Library!Away, Library!NoAnalysis, Shown!Library!NoAnalysis, Library!list,
     Shown!Library!list, Library!report, Shown!Library!report, Library!Absent,
     Shown!Library!Absent, Library!At, Shown!Library!At, Library!Refused,
     Shown!Library!Refused, Library!NoList, Shown!Library!NoList, Library!Resting,
     Shown!Library!Resting, Library!Summarize, Shown!Library!Summarize, Library!Known,
     Shown!Library!Known, Library!Waits, Shown!Library!Waits, Library!Joined,
     Shown!Library!Joined, Library!Overlay, Shown!Library!Overlay, Library!Dirty,
     Shown!Library!Dirty, Library!Scanned, Shown!Library!Scanned, Library!Recorded,
     Shown!Library!Recorded
<1>3. Library!LibraryIsCurrent <=> Shown!Library!LibraryIsCurrent
  BY DEF Library!LibraryIsCurrent, Shown!Library!LibraryIsCurrent, Library!ListShowsChanges,
     Shown!Library!ListShowsChanges, Library!LiveRunsStay, Shown!Library!LiveRunsStay,
     Library!ReportsAreCurrent, Shown!Library!ReportsAreCurrent
<1> QED
  BY <1>1, <1>2, <1>3

\* However scans, changes and reports overlap, a list shows all that the server had changed before
\* it was asked for, no run is changed under its job, and a report is as new as the results it was
\* asked for (index.go, library.go, server.go).
THEOREM LibraryStaysCurrent == Spec => []LibraryIsCurrent
<1> DEFINE Inv == focus = "library" => Shown!LibraryInv
<1>0. Shown!ListersAssumption
  BY LibraryAssumption DEF Shown!ListersAssumption
<1>1. Init => Inv
  <2> SUFFICES ASSUME Init, focus = "library" PROVE Shown!LibraryInv
    OBVIOUS
  <2>1. Library!Init
    BY Zenon DEF Init
  <2> QED
    BY <2>1, LibraryIsProved, Shown!LibraryInitially
<1>2. Inv /\ [Next]_vars => Inv'
  <2> SUFFICES ASSUME Inv, [Next]_vars, focus' = "library" PROVE Shown!LibraryInv'
    OBVIOUS
  <2>1. focus = "library"
    BY DEF Next, vars
  <2>2. Library!Next \/ UNCHANGED vars
    BY <2>1, Zenon DEF Next
  <2>3. [Shown!Library!Next]_Shown!Library!vars
    BY <2>2, LibraryIsProved DEF vars, Shown!Library!vars, Shown!Library!list, Shown!Library!report
  <2> QED
    BY <1>0, <2>1, <2>3, Shown!LibraryStep
<1>3. Inv => LibraryIsCurrent
  BY LibraryIsProved, Shown!LibraryFits DEF LibraryIsCurrent
<1> QED
  BY <1>1, <1>2, <1>3, PTL DEF Spec

----------------------------------------------------------------------------
\* The instance here, and the one of the proofs, are the same.
LEMMA PlayerIsProved ==
  /\ Player!Init <=> Proved!Player!Init
  /\ Player!Next <=> Proved!Player!Next
  /\ Player!OrderOrReport <=> Proved!Player!OrderOrReport
<1>1. Player!Init <=> Proved!Player!Init
  BY DEF Player!Init, Proved!Player!Init, Player!Point, Proved!Player!Point, Player!Traces,
     Proved!Player!Traces, Player!End, Proved!Player!End, Player!Gate, Proved!Player!Gate,
     Player!IsGate, Proved!Player!IsGate, Player!Record, Proved!Player!Record,
     Player!Awaited, Proved!Player!Awaited, Player!Marked, Proved!Player!Marked,
     Player!Calls, Proved!Player!Calls
<1>2. Player!Next <=> Proved!Player!Next
  BY DEF Player!Next, Proved!Player!Next, Player!Act, Proved!Player!Act, Player!Arrive,
     Proved!Player!Arrive, Player!ContextEnds, Proved!Player!ContextEnds, Player!End,
     Proved!Player!End, Player!ExtraCall, Proved!Player!ExtraCall, Player!Gate,
     Proved!Player!Gate, Player!GiveUp, Proved!Player!GiveUp, Player!Leave,
     Proved!Player!Leave, Player!Look, Proved!Player!Look, Player!Mark, Proved!Player!Mark,
     Player!Point, Proved!Player!Point, Player!RunPolls, Proved!Player!RunPolls,
     Player!SendFails, Proved!Player!SendFails, Player!TimePasses, Proved!Player!TimePasses,
     Player!PassGate, Proved!Player!PassGate, Player!Awaited, Proved!Player!Awaited,
     Player!InTurn, Proved!Player!InTurn, Player!Record, Proved!Player!Record, Player!Calls,
     Proved!Player!Calls, Player!Notify, Proved!Player!Notify, Player!UnderWay,
     Proved!Player!UnderWay, Player!IsGate, Proved!Player!IsGate, Player!FirstOpen,
     Proved!Player!FirstOpen, Player!Skippable, Proved!Player!Skippable, Player!Marked,
     Proved!Player!Marked, Player!Waiting, Proved!Player!Waiting, Player!Same,
     Proved!Player!Same, Player!InAwait, Proved!Player!InAwait
<1>3. Player!OrderOrReport <=> Proved!Player!OrderOrReport
  BY DEF Player!OrderOrReport, Proved!Player!OrderOrReport, Player!Awaited, Proved!Player!Awaited,
     Player!Gate, Proved!Player!Gate, Player!Record, Proved!Player!Record, Player!Calls,
     Proved!Player!Calls, Player!IsGate, Proved!Player!IsGate, Player!Marked,
     Proved!Player!Marked
<1> QED
  BY <1>1, <1>2, <1>3

\* Whatever the agents do, leave out or reach late, an awaited point whose wait no context ended
\* is acted on only when every point recorded before it was passed or is reported as skipped
\* (player.go).
THEOREM ReplayKeepsOrder == Spec => []OrderOrReport
<1> DEFINE Inv == focus = "replay" => Proved!PlayerInv
<1>1. Init => Inv
  <2> SUFFICES ASSUME Init, focus = "replay" PROVE Proved!PlayerInv
    OBVIOUS
  <2>1. Player!Init
    BY Zenon DEF Init
  <2> QED
    BY <2>1, PlayerIsProved, Proved!PlayerInitially
<1>2. Inv /\ [Next]_vars => Inv'
  <2> SUFFICES ASSUME Inv, [Next]_vars, focus' = "replay" PROVE Proved!PlayerInv'
    OBVIOUS
  <2>1. focus = "replay"
    BY DEF Next, vars
  <2>2. Player!Next \/ UNCHANGED vars
    BY <2>1, Zenon DEF Next
  <2>3. [Proved!Player!Next]_Proved!Player!vars
    BY <2>2, PlayerIsProved DEF vars, Proved!Player!vars
  <2> QED
    BY <2>1, <2>3, Proved!PlayerStep
<1>3. Inv => OrderOrReport
  BY PlayerIsProved, Proved!PlayerFits DEF OrderOrReport
<1> QED
  BY <1>1, <1>2, <1>3, PTL DEF Spec

----------------------------------------------------------------------------
\* The instance here, and the one of the proofs, are the same.
LEMMA ScreenIsProved ==
  /\ Screen!Init <=> Shown!Screen!Init
  /\ Screen!Next <=> Shown!Screen!Next
  /\ Screen!QueuedIsWhatWaits <=> Shown!Screen!QueuedIsWhatWaits
<1>1. Screen!Init <=> Shown!Screen!Init
  BY DEF Screen!Init, Shown!Screen!Init
<1>2. Screen!Next <=> Shown!Screen!Next
  BY DEF Screen!Next, Shown!Screen!Next, Screen!Consumes, Shown!Screen!Consumes, Screen!Ends,
     Shown!Screen!Ends, Screen!Exits, Shown!Screen!Exits, Screen!InterruptFails,
     Shown!Screen!InterruptFails, Screen!Interrupts, Shown!Screen!Interrupts,
     Screen!ObservationEnds, Shown!Screen!ObservationEnds, Screen!Observe,
     Shown!Screen!Observe, Screen!Parks, Shown!Screen!Parks, Screen!Pause,
     Shown!Screen!Pause, Screen!Quit, Shown!Screen!Quit, Screen!Replies,
     Shown!Screen!Replies, Screen!Rests, Shown!Screen!Rests, Screen!Resume,
     Shown!Screen!Resume, Screen!Send, Shown!Screen!Send, Screen!ShowAgents,
     Shown!Screen!ShowAgents, Screen!Stop, Shown!Screen!Stop, Screen!StopAnswered,
     Shown!Screen!StopAnswered, Screen!Terminate, Shown!Screen!Terminate, Screen!Wakes,
     Shown!Screen!Wakes, Screen!Writes, Shown!Screen!Writes, Screen!Active,
     Shown!Screen!Active, Screen!Event, Shown!Screen!Event, Screen!Near,
     Shown!Screen!Near, Screen!ui, Shown!Screen!ui, Screen!Becomes, Shown!Screen!Becomes,
     Screen!Exited, Shown!Screen!Exited, Screen!Live, Shown!Screen!Live, Screen!Delivered,
     Shown!Screen!Delivered, Screen!Drained, Shown!Screen!Drained, Screen!session,
     Shown!Screen!session, Screen!Published, Shown!Screen!Published, Screen!Talking,
     Shown!Screen!Talking, Screen!ObserveState, Shown!Screen!ObserveState, Screen!Settled,
     Shown!Screen!Settled, Screen!Moves, Shown!Screen!Moves, Screen!Controls,
     Shown!Screen!Controls, Screen!shown, Shown!Screen!shown, Screen!Delivers,
     Shown!Screen!Delivers, Screen!StateEvent, Shown!Screen!StateEvent, Screen!Cardinality,
     Shown!Screen!Cardinality
<1>3. Screen!QueuedIsWhatWaits <=> Shown!Screen!QueuedIsWhatWaits
  BY DEF Screen!QueuedIsWhatWaits, Shown!Screen!QueuedIsWhatWaits
<1> QED
  BY <1>1, <1>2, <1>3

\* Whatever the session does while the terminal is behind, once it has taken every event it shows
\* as queued what waits for an agent, and nothing else (tui.go).
THEOREM QueuedIsAlwaysWhatWaits == Spec => []QueuedIsWhatWaits
<1> DEFINE Inv == focus = "terminal" => Shown!TerminalInv
<1>0. Shown!PeopleAssumption
  BY ScreenAssumption DEF Shown!PeopleAssumption, IsFiniteSet, Shown!IsFiniteSet
<1>1. Init => Inv
  <2> SUFFICES ASSUME Init, focus = "terminal" PROVE Shown!TerminalInv
    OBVIOUS
  <2>1. Screen!Init
    BY Zenon DEF Init
  <2> QED
    BY <2>1, ScreenIsProved, Shown!TerminalInitially
<1>2. Inv /\ [Next]_vars => Inv'
  <2> SUFFICES ASSUME Inv, [Next]_vars, focus' = "terminal" PROVE Shown!TerminalInv'
    OBVIOUS
  <2>1. focus = "terminal"
    BY DEF Next, vars
  <2>2. Screen!Next \/ UNCHANGED vars
    BY <2>1, Zenon DEF Next
  <2>3. [Shown!Screen!Next]_Shown!Screen!vars
    BY <2>2, ScreenIsProved DEF vars, Shown!Screen!vars, Shown!Screen!session, Shown!Screen!shown
  <2> QED
    BY <1>0, <2>1, <2>3, Shown!TerminalStep
<1>3. Inv => QueuedIsWhatWaits
  BY ScreenIsProved, Shown!TerminalFits DEF QueuedIsWhatWaits
<1> QED
  BY <1>1, <1>2, <1>3, PTL DEF Spec

=============================================================================
