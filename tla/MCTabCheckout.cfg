\* A checkout and another page, two documents, two runs, and any one further event.
CONSTANTS
  None = None
  Page = {"cart", "checkout"}
  Checkout = {"checkout"}
  Handler = {"h1"}
  MaxDoc = 2
  MaxRun = 2
  MaxQueue = 1
  MaxEvents = 1
SPECIFICATION Spec
INVARIANTS ResumesOnce TestingEnds
PROPERTY ResultStays
CHECK_DEADLOCK FALSE
