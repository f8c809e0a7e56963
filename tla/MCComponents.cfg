SPECIFICATION Spec
CONSTANTS
  LoopIds = {"c", "d"}
  LoopBatch = 2
  LoopHistory = 6
  LoopRetries = 1
  LoopRepeated = 3
  LoopInterrupts = 2
  ReplayAgents = {"a1", "a2"}
  ReplayUser = "user"
  ReplayKinds = {"output", "send", "tool", "append"}
  ReplayTrace = 3
  LspEdits = 1
  LspQueries = 2
  LspDeaths = 1
  LspCloses = FALSE
  TalkAgents = {"m", "w"}
  TalkManager = "m"
  TalkRevision = 2
  TalkMessages = 1
  TalkLooks = 1
  TalkBehind = 1
  ReaderAgents = {"a", "b"}
  ReaderPage = 1
  ReaderCalls = 2
  ReaderViews = 2
  EvalJobs = {1, 2}
  EvalTasks = 1
  EvalEvents = 3
  EvalCancels = 1
  LibraryListers = {"r1", "r2"}
  LibraryReaders = {"a", "b"}
  LibraryResults = 1
  LibraryClients = 2
  ViewAgents = {"a", "b"}
  ViewUser = "user"
  ViewCalls = 2
  ViewHistory = 1
  ViewBytes = 1
  ViewRevision = 2
  ViewSteps = 1
INVARIANTS EveryCallAnswered OrderOrReport AnswersAreFresh ResyncConfirms QueuedIsWhatWaits ScreensHold PagesFit JobsAreHonest LibraryIsCurrent EditsAreHonest ViewsFit ResearchIsSound EvaluationHolds ChangesAreChecked SessionsHold
CONSTRAINT ReplayUpToNames
CHECK_DEADLOCK FALSE
