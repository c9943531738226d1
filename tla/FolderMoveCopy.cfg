SPECIFICATION Spec
CONSTANTS
  Edit = {e1, e2}
  Ext = {}
  Missing = Missing
  None = None
  Ops = {"subtree"}
  MaxOps = 1
  MaxWriteFail = 0
  MaxSnapFail = 0
CHECK_DEADLOCK FALSE
INVARIANT FolderMoveLeavesNoCopy
SYMMETRY Symmetry
