SPECIFICATION Spec
CONSTANTS
  Edit = {e1}
  Ext = {x1, x2}
  Missing = Missing
  None = None
  Ops = {"subtree"}
  MaxOps = 1
  MaxWriteFail = 1
  MaxSnapFail = 0
CHECK_DEADLOCK FALSE
INVARIANT LossIsAnnounced
PROPERTIES FlushSettles ConvergesToFile
