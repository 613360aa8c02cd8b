SPECIFICATION Spec
CONSTANTS
  Events = {"e1", "e2"}
  MaxHistorySize = 3
  MaxAdds = 5
  Limits <- SomeLimits
INVARIANTS
  RetainsNewest
  ReadsNewest
