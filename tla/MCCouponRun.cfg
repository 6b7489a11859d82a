\* Two codes, prices of one to four, every kind of recipe and of earlier discount.
CONSTANTS
  Nothing = Nothing
  Own = "OWN"
  Codes <- TwoCodes
  Base = 4
SPECIFICATION LiveRunSpec
INVARIANTS ReportTrue OriginalBack
PROPERTIES StopsWriting RunEnds
CHECK_DEADLOCK FALSE
