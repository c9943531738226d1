SPECIFICATION Spec
CONSTANTS
  Edit = {e1}
  Ext = {x1}
  Missing = Missing
  None = None
  Ops = {}
  MaxOps = 0
  MaxWriteFail = 0
  MaxSnapFail = 0
CHECK_DEADLOCK FALSE
INVARIANT NoHiddenDivergence
