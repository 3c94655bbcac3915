SPECIFICATION ReadsSpec
CONSTANTS
  MaxLlmTurns = 3
  MaxToolCalls = 2
  MaxCallsPerTurn = 2
  MaxAsks = 2
  MaxSteps = 1
  MaxRounds = 3
  MaxParallel = 2
  MaxOneShots = 1
  Sources = {1, 2}
  TypeOf <- MCTypes
  Edges <- MCEdges
  FactsPerRun = 2
  Quotes = 2
  EntityCap = 1
  FactCap = 4
  EdgeCap = 2
  PageSize = 3
  Precision = 2
  MaxRuns = 3
  MaxPages = 3
  None = null
  Graphs <- MCGraphs
  SeedCount = 2
  MaxFetches = 2
  NoNode = noNode
INVARIANTS
  ReadsLoggedOrFailed
  ComposerFreed
  HistoryAnswersCalls
  GraphCompleteOrFlagged
  FactsLoseOnlyTies
  PanelAboutSelected
PROPERTIES
  StreamKept
  QuestionEnds
CHECK_DEADLOCK FALSE
