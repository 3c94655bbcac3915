SPECIFICATION MCFairSpec
CONSTANTS
  Landers <- MCLanders
  Versions <- MCVersions
  None = null
  MaxSyncs = 2
  SyncAttempts = 2
  MaxVersion = 2
  Transcripts = {2}
INVARIANTS
  OneRowPerVersion
  CursorSound
  ExtractedAtMostOnce
PROPERTIES
  SyncEnds
