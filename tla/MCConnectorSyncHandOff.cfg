SPECIFICATION Spec
CONSTANTS
  Landers <- MCLanders
  Versions <- MCVersions
  None = null
  MaxSyncs = 1
  SyncAttempts = 2
  MaxVersion = 2
  Transcripts = {2}
INVARIANTS
  TranscriptsHandedOff
