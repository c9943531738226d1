SPECIFICATION Spec
CONSTANTS
  Edit = {e1, e2}
  Ext = {}
  Missing = Missing
  None = None
  Ops = {}
  MaxOps = 0
  MaxWriteFail = 0
  MaxSnapFail = 1
CHECK_DEADLOCK FALSE
INVARIANT OnlyConflictsLoseEdits
SYMMETRY Symmetry
