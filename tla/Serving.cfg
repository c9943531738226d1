SPECIFICATION ServingSpec
CONSTANTS
  Edit = {e1}
  Ext = {x1}
  Missing = Missing
  None = None
  Ops = {}
  MaxOps = 0
  MaxWriteFail = 1
  MaxSnapFail = 1
  Notes = {"n", "m"}
  SnapshotRequests = {1, 2}
  MaxEdits = 2
  AppRequests = {1}
  Streams = {1}
  Sockets = {1, 2}
  Sessions = {1}
  McpRequests = {1, 2}
  WatchedEntries = {"a", "b"}
  Readers = {1, 2}
  Writers = {1}
  MaxChanges = 2
  MaxReads = 2
  MaxWatches = 2
  MaxEventHandlers = 2
CHECK_DEADLOCK FALSE
INVARIANTS AckedIsAccountedFor SnapshotIsWhole
PROPERTIES EveryEditIsAcked SnapshotsAreReleased ShutdownIsOrderly  
