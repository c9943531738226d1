SPECIFICATION DocumentsSpec
CONSTANTS
  Edit = {e1, e2}
  Ext = {}
  Missing = Missing
  None = None
  Ops = {"move", "subtree", "delete", "idleClose"}
  MaxOps = 1
  MaxWriteFail = 1
  MaxSnapFail = 1
  Users = {u1, u2}
  DocPaths = {a, b}
  MaxSessions = 2
  MaxMutations = 1
  Peers = {1}
  Letters = {1, 2}
  MaxLoads = 3
  MaxEdits = 2
  Reconnects = TRUE
SYMMETRY Symmetry
CHECK_DEADLOCK FALSE
INVARIANTS TypeOK FlushedIsAccountedFor UnsavedIsVisible OneWriterPerFile SessionsAreTended
PROPERTY LineageIsSound
