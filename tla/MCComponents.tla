---------------------------- MODULE MCComponents ----------------------------
(***************************************************************************)
(* Small instances of the components that stand by themselves.  Each        *)
(* behaviour exercises one of them, the focus.  They share their variables: *)
(* x1 is the first variable of the component in focus, and so on.  Those it *)
(* does not need are 0.                                                     *)
(***************************************************************************)
EXTENDS Naturals, Sequences, FiniteSets

VARIABLES focus, x1, x2, x3, x4, x5, x6, x7, x8, x9, x10, x11, x12, x13, x14, x15, x16, x17, x18

\* The bounds of the components whose theorems are for every value of them (MCComponentsProofs).
CONSTANTS LoopIds, LoopBatch, LoopHistory, LoopRetries, LoopRepeated, LoopInterrupts,
          ReplayAgents, ReplayUser, ReplayKinds, ReplayTrace, LspEdits, LspQueries, LspDeaths,
          LspCloses, TalkAgents, TalkManager, TalkRevision, TalkMessages, TalkLooks, TalkBehind,
          ReaderAgents, ReaderPage, ReaderCalls, ReaderViews, EvalJobs, EvalTasks, EvalEvents,
          EvalCancels, LibraryListers, LibraryReaders, LibraryResults,
          LibraryClients, ViewAgents, ViewUser,
          ViewCalls, ViewHistory, ViewBytes, ViewRevision, ViewSteps

ASSUME ScreenAssumption == TalkManager \in TalkAgents /\ IsFiniteSet(TalkAgents)
ASSUME ReaderAssumption == ReaderPage \in Nat \ {0}
ASSUME JobAssumption == 1 \in EvalJobs /\ EvalTasks \in Nat /\ EvalEvents \in Nat
ASSUME LibraryAssumption ==
  "refresher" \notin LibraryListers /\ "nobody" \notin LibraryListers /\ LibraryResults \in Nat
ASSUME ViewsAssumption == ViewAgents # {} /\ "none" \notin ViewAgents

Loop == INSTANCE Exchange
  WITH Ids <- LoopIds, MaxBatch <- LoopBatch, MaxHistory <- LoopHistory,
       MaxRetries <- LoopRetries, MaxRepeated <- LoopRepeated, MaxInterrupts <- LoopInterrupts,
       phase <- x1, history <- x2, batch <- x3, next <- x4, together <- x5, started <- x6,
       retries <- x7, repeated <- x8, cut <- x9, interrupt <- x10, stop <- x11, interrupts <- x12,
       unrun <- x13
Player == INSTANCE Replay
  WITH Agent <- ReplayAgents, User <- ReplayUser, Kind <- ReplayKinds, MaxTrace <- ReplayTrace,
       trace <- x1, stands <- x2, looks <- x3, passed <- x4, next <- x5, quiet <- x6,
       skipped <- x7, cut <- x8, acted <- x9, crashed <- x10
Analysis == INSTANCE LanguageServer
  WITH MaxEdits <- LspEdits, MaxQueries <- LspQueries, MaxDeaths <- LspDeaths,
       Closes <- LspCloses, disk <- x1, hinted <- x2, m <- x3, inst <- x4, server <- x5,
       wire <- x6, client <- x7, q <- x8, refresher <- x9, answer <- x10
Screen == INSTANCE Terminal
  WITH Agents <- TalkAgents, Manager <- TalkManager, MaxRevision <- TalkRevision,
       MaxMessages <- TalkMessages, MaxLooks <- TalkLooks, MaxBehind <- TalkBehind, life <- x1,
       ended <- x2, mail <- x3, messages <- x4, feed <- x5, pending <- x6, working <- x7,
       known <- x8, stopping <- x9, status <- x10, looks <- x11
\* Two files to mention, and one that is mentioned, taken back and mentioned again.
Draft == INSTANCE Composer
  WITH Plain <- {"hi"}, Mentions <- {"@a", "@b"}, Commands <- {"/"}, MaxFound <- 2, MaxEdits <- 2,
       MaxJobs <- 2, text <- x1, edits <- x2, accepts <- x3, job <- x4, loads <- x5, jobs <- x6,
       ended <- x7, posted <- x8, menu <- x9, search <- x10, searches <- x11
Redraft == INSTANCE Composer
  WITH Plain <- {"hi"}, Mentions <- {"@a"}, Commands <- {"/"}, MaxFound <- 2, MaxEdits <- 3,
       MaxJobs <- 2, text <- x1, edits <- x2, accepts <- x3, job <- x4, loads <- x5, jobs <- x6,
       ended <- x7, posted <- x8, menu <- x9, search <- x10, searches <- x11
Reader == INSTANCE Browser
  WITH Agents <- ReaderAgents, Page <- ReaderPage, MaxCalls <- ReaderCalls,
       MaxViews <- ReaderViews, calls <- x1, length <- x2, views <- x3, view <- x4, reads <- x5
Job == INSTANCE EvalJob
  WITH Jobs <- EvalJobs, Tasks <- EvalTasks, MaxEvents <- EvalEvents, Cancels <- EvalCancels,
       status <- x1, cancelled <- x2, announcing <- x3, pc <- x4, at <- x5, tasks <- x6,
       verdict <- x7, outbox <- x8, boxes <- x9, events <- x10, client <- x11
Library == INSTANCE ResultsLibrary
  WITH Listers <- LibraryListers, Readers <- LibraryReaders, MaxResults <- LibraryResults,
       MaxClients <- LibraryClients, disk <- x1, job <- x2, generation <- x3, index <- x4, scans <- x5, scanning <- x6,
       refreshing <- x7, lister <- x8, analysis <- x9, cache <- x10, reader <- x11
Files == INSTANCE Files
  WITH Agents <- {"a1", "a2"}, Lines <- {"x", "y"}, MaxLength <- 2, MaxOps <- 2, MaxShell <- 1,
       MaxCells <- 4, mode <- x1, file <- x2, gate <- x3, asleep <- x4, call <- x5, labels <- x6,
       retired <- x7, issued <- x8, shown <- x9, ops <- x10, shell <- x11, raced <- x12
Merge == INSTANCE FileMerge
  WITH Keys <- {"x", "y"}, Blank <- "", MaxBody <- 3, MaxQuote <- 3, Slack <- 1, Part <- 1,
       Whole <- 2, Common <- 2, Tried <- 3, Enough <- 2, MaxCells <- 9, body <- x1,
       last <- x2
Views == INSTANCE Projection
  WITH Agents <- ViewAgents, User <- ViewUser, MaxCalls <- ViewCalls, MaxHistory <- ViewHistory,
       MaxBytes <- ViewBytes, MaxRevision <- ViewRevision, MaxSteps <- ViewSteps, topic <- x1,
       stage <- x2, agents <- x3, registered <- x4, outputs <- x5, histories <- x6,
       lastBatch <- x7, usage <- x8, chunks <- x9, contents <- x10, messages <- x11,
       receipts <- x12, tools <- x13, work <- x14, evidence <- x15, research <- x16, noted <- x17
\* Two scouts under budgets that each run out: calls, tokens, searches and what is retained.
Inquiry == INSTANCE Research
  WITH Scouts <- {1, 2}, Urls <- {"u", "v"}, Sources <- {"s"}, ScoutSlots <- 2, ModelSlots <- 1,
       ModelCalls <- 6, Tokens <- 9, Reservation <- 2, Fetches <- 2, Searches <- 2,
       Retention <- 16, SourceRoom <- 2, Requirements <- {"q"}, MaxRounds <- 0, Inferred <- {}, stage <- x1,
       round <- x2, depends <- x3, live <- x4, bound <- x5, scout <- x6, call <- x7,
       flights <- x8, retaining <- x9, sources <- x10, claims <- x11, spend <- x12,
       retained <- x13, recordFailed <- x14, records <- x15, failed <- x16, draft <- x17,
       report <- x18
\* One scout with what two rounds and a complete report take, fetches and room run out.
Deepening == INSTANCE Research
  WITH Scouts <- {1}, Urls <- {"u", "v", "w"}, Sources <- {"s", "t"}, ScoutSlots <- 1,
       ModelSlots <- 1, ModelCalls <- 8, Tokens <- 8, Reservation <- 1, Fetches <- 2,
       Searches <- 1, Retention <- 24, SourceRoom <- 1, Requirements <- {"q"}, MaxRounds <- 1,
       Inferred <- {"t"}, stage <- x1,
       round <- x2, depends <- x3, live <- x4, bound <- x5, scout <- x6, call <- x7,
       flights <- x8, retaining <- x9, sources <- x10, claims <- x11, spend <- x12,
       retained <- x13, recordFailed <- x14, records <- x15, failed <- x16, draft <- x17,
       report <- x18
Trace == INSTANCE Timing
  WITH Agents <- {"m", "w"}, Role <- [m |-> "manager", w |-> "implementor"], Works <- {"i", "c"},
       WorkKind <- [i |-> "implementation", c |-> "audit"], Parent <- [i |-> "i", c |-> "i"],
       Tools <- {"read", "grep", "wait_for_input"}, Reads <- {"read", "grep"}, Unit <- 6,
       MaxTime <- 5, MaxSteps <- 3, now <- x1, flight <- x2, holding <- x3, truth <- x4,
       models <- x5, spans <- x6, running <- x7, runs <- x8, works <- x9, open <- x10,
       holds <- x11, stages <- x12, starts <- x13, messages <- x14
Copies == INSTANCE Workspaces
  WITH Implementors <- {"i"}, Checkers <- {"c", "d"}, Subject <- "subject", Check <- "check",
       FileNames <- {"f"}, MaxRuns <- 1, MaxWrites <- 1, MaxAssigned <- 2, MaxDirs <- 2,
       Commands <- {"build"}, NoCommand <- "none", held <- x1, revision <- x2, due <- x3,
       real <- x4, stamp <- x5, call <- x6, lock <- x7, copies <- x8, dirs <- x9, removing <- x10,
       closed <- x11, paths <- x12, runs <- x13, owed <- x14
Solo == INSTANCE SoloFinish
  WITH Paths <- {"p.go", "notes"}, Code <- {"p.go"}, Checks <- 3, Calls <- 2, Failures <- 1,
       MaxEdits <- 4, MaxSeen <- 2, MaxExchanges <- 2, pc <- x1, exchanges <- x2, edits <- x3,
       always <- x4, requested <- x5, tested <- x6, held <- x7, changed <- x8, ran <- x9,
       failed <- x10, sound <- x11, replyChecks <- x12, run <- x13, events <- x14, holds <- x15,
       sent <- x16
Birth == INSTANCE Startup
  WITH Tooling <- <<"transport", "lsp">>, Reading <- <<"progress reader">>, MaxCalls <- 3,
       stage <- x1, entries <- x2, store <- x3, log <- x4, agents <- x5, owner <- x6,
       registered <- x7, state <- x8, reason <- x9, startupError <- x10, attempt <- x11,
       at <- x12, bad <- x13, refused <- x14, attempts <- x15, call <- x16, calls <- x17,
       returned <- x18
\* Many works and two messages of the user, and one work and two pauses, stops or failures.
Recorder == INSTANCE Recorder
  WITH MaxTurns <- 2, MaxWrites <- 1, MaxWorks <- 3, MaxControls <- 0, now <- x1, mail <- x2,
       state <- x3, at <- x4, controls <- x5, work <- x6, notices <- x7, writing <- x8, lost <- x9,
       rec <- x10
Controlled == INSTANCE Recorder
  WITH MaxTurns <- 1, MaxWrites <- 1, MaxWorks <- 1, MaxControls <- 2, now <- x1, mail <- x2,
       state <- x3, at <- x4, controls <- x5, work <- x6, notices <- x7, writing <- x8, lost <- x9,
       rec <- x10
Checks == INSTANCE WriteCheck
  WITH Writers <- {"a"}, Runners <- {"b"}, Primary <- "workspace", Scratch <- {"r", "s"},
       MaxRoots <- 1, MaxWrites <- 2, MaxManagers <- 3, source <- x1, stamp <- x2, managers <- x3,
       order <- x4, closed <- x5, up <- x6, leaving <- x7, started <- x8, check <- x9
Attempt == INSTANCE Attempt
  WITH MaxUnread <- 3, MaxMail <- 2, MaxWrites <- 1, step <- x1, cancelled <- x2, state <- x3,
       mail <- x4, replied <- x5, sent <- x6, writing <- x7, failed <- x8, tree <- x9,
       unread <- x10, watch <- x11, result <- x12, observer <- x13, told <- x14, screen <- x15,
       record <- x16, outbox <- x17
EvalScreen == INSTANCE EvalScreen
  WITH Tasks <- {"t1", "t2"},
       Sizes <- {[height |-> 14, wide |-> TRUE], [height |-> 22, wide |-> FALSE]},
       MaxCalls <- 1, MaxKeys <- 2, phase <- x1, calls <- x2, problems <- x3, seen <- x4,
       selected <- x5, followActive <- x6, queueOpen <- x7, metricsOpen <- x8, queueCursor <- x9,
       listOffset <- x10, size <- x11, viewport <- x12, plan <- x13, stopping <- x14,
       pressed <- x15
Streams == INSTANCE Streams
  WITH Agents <- {"m", "a"}, Manager <- "m", Heights <- {1}, MaxEntries <- 2, MaxChanges <- 1,
       entries <- x1, nextEntry <- x2, changes <- x3, views <- x4, unread <- x5, position <- x6,
       selected <- x7, offset <- x8, height <- x9, frozen <- x10, covered <- x11, born <- x12,
       seen <- x13, held <- x14
PlanDock == INSTANCE PlanDock
  WITH Plans <- {"p"}, Todos <- {"t"}, StepIds <- {"s", "u"}, Works <- {"w"},
       Reports <- {"completed"}, Lengths <- {2}, Capacity <- 1, MaxChanges <- 2, MaxMessages <- 1,
       MaxKeys <- 1, plans <- x1, ledger <- x2, events <- x3, messages <- x4, changes <- x5,
       legacy <- x6, views <- x7, order <- x8, active <- x9, generation <- x10, cache <- x11,
       focused <- x12, works <- x13, workOrder <- x14, keys <- x15, chosen <- x16
Roster == INSTANCE Roster
  WITH Agents <- {"a"}, Manager <- "m", Heights <- {1, 3, 6}, Widths <- {3, 8}, MaxEvents <- 2,
       MaxKeys <- 3, truth <- x1, queue <- x2, made <- x3, states <- x4, working <- x5,
       work <- x6, failed <- x7, selected <- x8, focusID <- x9, onCompleted <- x10,
       expanded <- x11, keyboard <- x12, hover <- x13, keys <- x14, told <- x15
Experiments == INSTANCE Experiments
  WITH Agents <- {"e"}, Works <- {"w1", "w2"}, Steps <- {"s"}, NoStep <- "no", MaxHypotheses <- 2,
       MaxRefs <- 1, MaxIssued <- 3, works <- x1, steps <- x2, issued <- x3, call <- x4,
       runs <- x5, recorded <- x6, conclusions <- x7
Staff == INSTANCE Staff
  WITH User <- "user", Nobody <- "", Agents <- {"a1", "a2", "a3"}, Builder <- "implementor",
       Checker <- "auditor", Reviewer <- "reviewer", Works <- {"w"},
       Configurations <- {{"implementor", "auditor"}, {"reviewer"}}, agents <- x1, nodes <- x2,
       edges <- x3, published <- x4, mu <- x5, calls <- x6, works <- x7, briefs <- x8,
       staffed <- x9, auto <- x10, specs <- x11, held <- x12, logging <- x13
Trial == INSTANCE Trial
  WITH MaxCalls <- 1, MaxTools <- 1, MaxTrials <- 2, MaxLog <- 4, log <- x1, actor <- x2,
       gate <- x3, watch <- x4, clock <- x5, phase <- x6, res <- x7, lines <- x8
Grading == INSTANCE Grading
  WITH Scenarios <- {"audit", "race", "schema"}, MaxCalls <- 3, scenario <- x1, ledger <- x2,
       batch <- x3, mixed <- x4, call <- x5, race <- x6, seq <- x7, score <- x8, open <- x9,
       done <- x10, stage <- x11

vars == <<focus, x1, x2, x3, x4, x5, x6, x7, x8, x9, x10, x11, x12, x13, x14, x15, x16, x17, x18>>

\* What a component of n variables leaves over.
Idle(n) ==
  /\ (n < 3 => x3 = 0) /\ (n < 4 => x4 = 0) /\ (n < 5 => x5 = 0) /\ (n < 6 => x6 = 0)
  /\ (n < 7 => x7 = 0) /\ (n < 8 => x8 = 0) /\ (n < 9 => x9 = 0) /\ (n < 10 => x10 = 0)
  /\ (n < 11 => x11 = 0) /\ (n < 12 => x12 = 0) /\ (n < 13 => x13 = 0)
  /\ (n < 14 => x14 = 0) /\ (n < 15 => x15 = 0) /\ (n < 16 => x16 = 0)
  /\ (n < 17 => x17 = 0) /\ (n < 18 => x18 = 0)
\* Nested from the last one, where TLC may stop early.
Stay(n) ==
  n < 18 => x18' = x18 /\ (n < 17 => x17' = x17 /\ (n < 16 => x16' = x16 /\
    (n < 15 => x15' = x15 /\ (n < 14 => x14' = x14 /\ (n < 13 => x13' = x13 /\
      (n < 12 => x12' = x12 /\ (n < 11 => x11' = x11 /\ (n < 10 => x10' = x10 /\
        (n < 9 => x9' = x9 /\ (n < 8 => x8' = x8 /\ (n < 7 => x7' = x7 /\
          (n < 6 => x6' = x6 /\ (n < 5 => x5' = x5 /\ (n < 4 => x4' = x4 /\
            (n < 3 => x3' = x3)))))))))))))))

Init ==
  \/ focus = "exchange" /\ Loop!Init /\ Idle(13)
  \/ focus = "replay" /\ Player!Init /\ Idle(10)
  \/ focus = "analysis" /\ Analysis!Init /\ Idle(10)
  \/ focus = "terminal" /\ Screen!Init /\ Idle(11)
  \/ focus = "composer" /\ Draft!Init /\ Idle(11)
  \/ focus = "redraft" /\ Redraft!Init /\ Idle(11)
  \/ focus = "browser" /\ Reader!Init /\ Idle(5)
  \/ focus = "job" /\ Job!Init /\ Idle(11)
  \/ focus = "library" /\ Library!Init /\ Idle(11)
  \/ focus = "files" /\ Files!Init /\ Idle(12)
  \/ focus = "merge" /\ Merge!Init /\ Idle(2)
  \/ focus = "views" /\ Views!Init /\ Idle(17)
  \/ focus = "research" /\ Inquiry!Init /\ Idle(18)
  \/ focus = "rounds" /\ Deepening!Init /\ Idle(18)
  \/ focus = "timing" /\ Trace!Init /\ Idle(14)
  \/ focus = "workspaces" /\ Copies!Init /\ Idle(14)
  \/ focus = "solo" /\ Solo!Init /\ Idle(16)
  \/ focus = "startup" /\ Birth!Init /\ Idle(18)
  \/ focus = "recorder" /\ Recorder!Init /\ Idle(10)
  \/ focus = "controls" /\ Controlled!Init /\ Idle(10)
  \/ focus = "checks" /\ Checks!Init /\ Idle(9)
  \/ focus = "attempt" /\ Attempt!Init /\ Idle(17)
  \/ focus = "evalscreen" /\ EvalScreen!Init /\ Idle(15)
  \/ focus = "streams" /\ Streams!Init /\ Idle(14)
  \/ focus = "plandock" /\ PlanDock!Init /\ Idle(16)
  \/ focus = "roster" /\ Roster!Init /\ Idle(15)
  \/ focus = "experiments" /\ Experiments!Init /\ Idle(7)
  \/ focus = "staff" /\ Staff!Init /\ Idle(13)
  \/ focus = "trial" /\ Trial!Init /\ Idle(8)
  \/ focus = "grading" /\ Grading!Init /\ Idle(11)

Next ==
  /\ UNCHANGED focus
  /\ \/ focus = "exchange" /\ Loop!Next /\ Stay(13)
     \/ focus = "replay" /\ Player!Next /\ Stay(10)
     \/ focus = "analysis" /\ Analysis!Next /\ Stay(10)
     \/ focus = "terminal" /\ Screen!Next /\ Stay(11)
     \/ focus = "composer" /\ Draft!Next /\ Stay(11)
     \/ focus = "redraft" /\ Redraft!Next /\ Stay(11)
     \/ focus = "browser" /\ Reader!Next /\ Stay(5)
     \/ focus = "job" /\ Job!Next /\ Stay(11)
     \/ focus = "library" /\ Library!Next /\ Stay(11)
     \/ focus = "files" /\ Files!Next /\ Stay(12)
     \/ focus = "merge" /\ Merge!Next /\ Stay(2)
     \/ focus = "views" /\ Views!Next /\ Stay(17)
     \/ focus = "research" /\ Inquiry!Next /\ Stay(18)
     \/ focus = "rounds" /\ Deepening!Next /\ Stay(18)
     \/ focus = "timing" /\ Trace!Next /\ Stay(14)
     \/ focus = "workspaces" /\ Copies!Next /\ Stay(14)
     \/ focus = "solo" /\ Solo!Next /\ Stay(16)
     \/ focus = "startup" /\ Birth!Next /\ Stay(18)
     \/ focus = "recorder" /\ Recorder!Next /\ Stay(10)
     \/ focus = "controls" /\ Controlled!Next /\ Stay(10)
     \/ focus = "checks" /\ Checks!Next /\ Stay(9)
     \/ focus = "attempt" /\ Attempt!Next /\ Stay(17)
     \/ focus = "evalscreen" /\ EvalScreen!Next /\ Stay(15)
     \/ focus = "streams" /\ Streams!Next /\ Stay(14)
     \/ focus = "plandock" /\ PlanDock!Next /\ Stay(16)
     \/ focus = "roster" /\ Roster!Next /\ Stay(15)
     \/ focus = "experiments" /\ Experiments!Next /\ Stay(7)
     \/ focus = "staff" /\ Staff!Next /\ Stay(13)
     \/ focus = "trial" /\ Trial!Next /\ Stay(8)
     \/ focus = "grading" /\ Grading!Next /\ Stay(11)

Spec == Init /\ [][Next]_vars

\* TLC's part of the replays: the agents of a recording differ by name only, so of those that
\* begin with an agent one name is enough.
ReplayUpToNames ==
  focus = "replay" /\ Len(x1) > 1 =>
    x1[2].by \in {ReplayUser, CHOOSE a \in ReplayAgents : TRUE}

----------------------------------------------------------------------------
\* What is sent to the model, and what a finished exchange leaves behind, answers every call
\* of every batch once and in order, whatever interrupts, stops or cuts the exchange (Exchange).
EveryCallAnswered == focus = "exchange" => Loop!EveryCallAnswered
\* A replay acts in the recorded order where it waited, or reports what it skipped (Replay).
OrderOrReport == focus = "replay" => Player!OrderOrReport
\* Diagnostics labelled synchronized, and positions handed out, belong to the very text they are
\* shown with (LanguageServer).
AnswersAreFresh == focus = "analysis" => Analysis!SynchronizedIsExact /\ Analysis!LocatedInItsText
\* A report after a write comes from an analysis no older than its scan (LanguageServer).
ResyncConfirms == focus = "analysis" => Analysis!ResyncConfirms
\* What the terminal shows as queued is what waits for an agent, once it has read the events
\* of the session (Terminal).
QueuedIsWhatWaits == focus = "terminal" => Screen!QueuedIsWhatWaits
\* A load of attachments that was cancelled sends nothing, another its draft at most once,
\* and nothing is sent more often than it was put in the composer (Composer).
\* The menu offers what belongs to the draft on the screen, and its selection is on it
\* (Composer).
\* The screen of an evaluation follows what runs, and its rows add up (EvalScreen).
\* No entry of a stream is missed, and a person keeps their place in it (Streams).
\* The dock draws what the ledger has, from a cache that is never stale (PlanDock).
\* The agents are shown as they are, and the cursor on them is never lost (Roster).
ScreensHold == 
  /\ focus = "composer" => Draft!CancelledIsNotSent /\ Draft!MenuFits
  /\ focus = "redraft" => Redraft!CancelledIsNotSent /\ Redraft!MenuFits
  /\ focus = "evalscreen" => EvalScreen!EvalScreenHolds
  /\ focus = "streams" => Streams!StreamsHold
  /\ focus = "plandock" => PlanDock!DockHolds
  /\ focus = "roster" => Roster!RosterHolds
\* The pages of a transcript fit together without a gap or a repetition, whichever of the reads
\* under way arrives, and in whichever order (Browser).
PagesFit == focus = "browser" => Reader!PagesFit
\* One evaluation job runs at a time, its containers and tasks are settled when it is over,
\* and its follower is told of the end with everything before it (EvalJob).
JobsAreHonest == focus = "job" => Job!JobsAreHonest
\* A list of runs shows what the server changed before it was asked for, no live run is
\* changed, and a report is as new as the results it was asked for (ResultsLibrary).
LibraryIsCurrent == focus = "library" => Library!LibraryIsCurrent
\* What an agent writes rests on what the disk holds, whoever else reads, edits or waits
\* meanwhile, and a label goes on naming the line it was shown for (Files).
\* A quote that misremembers lines changes none it did not mean to (FileMerge).
EditsAreHonest == 
  /\ focus = "files" => Files!EditsAreHonest
  /\ focus = "merge" => Merge!MergeKeepsReality
\* Whatever was recorded, the views of an inspector cohere and their pages tile (Projection).
ViewsFit == focus = "views" => Views!ViewsFit
\* A research run keeps its budgets, records a source once and before what rests on it, reports
\* only what was verified, and goes on until it is over (Research).
ResearchIsSound ==
  /\ focus = "research" => Inquiry!ResearchIsSound
  /\ focus = "rounds" => Deepening!ResearchIsSound
\* What a trace is said to have spent its time on is what was running, wherever it ends
\* (Timing).
\* What an attempt publishes is final, and its end is the end of its session (Attempt).
\* A trial grades the first boundary there is, and no call gets past it (Trial).
\* An agent passes for what it did, and the harness is not blamed for it (Grading).
EvaluationHolds == 
  /\ focus = "timing" => Trace!TimingHolds
  /\ focus = "attempt" => Attempt!AttemptHolds
  /\ focus = "trial" => Trial!TrialHolds
  /\ focus = "grading" => Grading!GradingHolds
\* Each assignment has its copy of the workspace, and the record of changes misses none
\* (Workspaces).
\* A solo agent's reply does not slip past an unchecked change (SoloFinish).
\* A report that a change has no errors comes of an analysis of the change, if the project kept
\* its server between the two lookups of the check; and no server is forgotten (WriteCheck).
\* What an experiment concludes was measured for it, after it was predicted (Experiments).
ChangesAreChecked ==
  /\ focus = "workspaces" => Copies!WorkspacesHold
  /\ focus = "solo" => Solo!FinishHolds
  /\ focus = "checks" => Checks!WriteChecksHold
  /\ focus = "experiments" => Experiments!ExperimentsHold
\* A start that fails leaves nothing behind it, or leaves it with a handle (Startup).
\* A session the recorder takes for settled is at rest, whatever was paused, stopped or failed,
\* and keeps to its rules (Recorder).
\* The agents of a session are those its graph, its log and its work agree on (Staff).
SessionsHold ==
  /\ focus = "startup" => Birth!StartupHolds
  /\ focus = "recorder" => Recorder!RecorderHolds
  /\ focus = "controls" => Controlled!RecorderHolds
  /\ focus = "staff" => Staff!StaffHolds
=============================================================================
