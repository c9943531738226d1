SPECIFICATION WebSpec
CONSTANTS
  ShellVaults <- SomeShellVaults
  ShellDisk <- SomeShellDisk
  TypedNames <- SomeTyped
  MaxShellOps = 3
  PageNotes = {"n", "m"}
  PageFolder = "f"
  MaxProviders = 3
  MaxText = 2
  MaxLoadsOut = 3
  MaxListings = 1
  MaxByOthers = 1
  NoteTexts <- SomeNoteTexts
  Insertions <- SomeInsertions
  People <- SomePeople
  UserOf <- OneUser
  Uploads = {"1", "2"}
  Peers = {1, 2}
  MaxEditorOps = 3
  StartNotes <- SomeNotes
  NewLines <- SomeNewLines
  PathLists <- SomePathLists
  Directories <- SomeDirectories
  MaxPreviewOps = 2
CHECK_DEADLOCK FALSE
INVARIANTS  PageIsSound HistoryIsOfTheNote  
