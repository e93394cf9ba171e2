CONSTANTS
  NumWaypoints = 3
  NumFixes = 4
  Distances = {1, 2}
  MaxPasses = 2
  Once = {1}
  MaxInAll = 4
  Optional = {2}
  Anchor = "entry"
SPECIFICATION Spec
CHECK_DEADLOCK FALSE
INVARIANTS AssignIsExact MirrorFlipsDirection ArrivalKeepsOrder ArrivalIsFirst MeasuredWithinJourney
