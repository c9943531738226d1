SPECIFICATION StoresSpec
CONSTANTS
  Callers = {1, 2}
  VaultPaths <- SomeVaultPaths
  Colors = {"blue"}
  InitialTree <- SomeTree
  MaxCalls = 3
  NotePaths <- SomeNotePaths
  Window = 2
  MaxTime = 3
  MaxVersions = 2
  MaxMutations = 2
  GitMayFail = TRUE
  MaxContent = 4
  MaxOld = 2
  SpliceBytesLimit = 3
  DocumentBytesLimit = 5
  MaxSearchLimit = 2
  LegacyNotes = {"n", "m"}
  MaxBoots = 3
  Slugs = {"a"}
  Names = {"n", "m"}
  VaultColors = {"c"}
  RegistryCalls = {1, 2}
  MaxRegistryOps = 5
  MaxHandlers = 1
  Candidates <- SomeCandidates
  MaxFiles = 3
  Restores = {"r1", "r2"}
  NoteNames <- SomeNoteNames
  FolderNames <- SomeFolderNames
  ActorDefault = "user"
  ExtraFields = TRUE
CHECK_DEADLOCK FALSE
INVARIANTS FilesAreSound HistoryIsSound TextIsExact   
PROPERTIES  RestoreIsSafe
