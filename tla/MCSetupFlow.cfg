\* Two parts chosen anew, two page loads or restarts.
SPECIFICATION Spec
CONSTANTS
  None = None
  MaxRedo = 2
  MaxLoads = 2
INVARIANTS RemovalProven SentIsTested ReloadRemembered
CHECK_DEADLOCK FALSE
