CONSTANTS
  MaxPoints = 4
  MaxTime = 3
SPECIFICATION Spec
CHECK_DEADLOCK FALSE
INVARIANTS PlausibleTravel BreaksSurvive CleanIsKeptWhole
