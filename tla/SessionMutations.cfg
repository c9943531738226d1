SPECIFICATION Spec
CONSTANTS
  Edit = {e1, e2}
  Ext = {x1}
  Missing = Missing
  None = None
  Ops = {"move", "subtree", "delete", "idleClose", "teardown"}
  MaxOps = 1
  MaxWriteFail = 0
  MaxSnapFail = 0
CHECK_DEADLOCK FALSE
INVARIANTS LiveSessionIsWatched MoveLeavesNoCopy
PROPERTY MutationEnds
