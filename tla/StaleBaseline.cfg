SPECIFICATION LineageSpec
CONSTANTS
  Peers = {1}
  Letters = {1, 2}
  MaxLoads = 2
  MaxEdits = 2
  Reconnects = TRUE
CHECK_DEADLOCK FALSE
INVARIANT StaleBaselineIsRefused
