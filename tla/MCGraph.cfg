SPECIFICATION MCGraphSpec
CONSTANTS
  Content <- MCContent
  Refs = {"l1", "e1", "e2", "g1", "wi", "pr"}
  Tier <- MCTier
  Decisions <- MCDecisions
  RefsOf <- MCRefsOf
  InitialEdges <- MCTies
  Items = {"i1", "i2"}
  Deliveries <- MCDeliveries
  Mentions <- MCMentions
  Notes <- MCNotes
  ScanLimit = 1
  CandidateLimit = 1
  MaxAttempts = 2
  MaxTries <- MCMaxTries
  MaxJudged = 1
  None = null
  Letters = {"a", "b"}
  MaxLength = 4
  MaxPersons = 2
  Domains = {"d"}
  Orgs = {"o"}
  Unknown = unknown
  OldestScanned = 1
  MaxText = 8
  MaxWindow = 4
INVARIANTS
  RowsGatherOnlyTied
  SerialWritesConverge
  SerialDecisionsHold
  CompletedLinksMentions
  SuggestedEitherWay
  ChunksCover
CHECK_DEADLOCK FALSE
