CONSTANTS
  None = None
  Null = Null
  MinSamples = 3
  Lengths = {0, 595, 600}
  Drives <- MCDrives
  HourOf <- MCHourOf
  WeekOf <- MCWeekOf
  Walls <- MCWalls
SPECIFICATION Spec
INVARIANTS BelievableBaseline MediansHalve WeeksAreAligned JoinedAsDriven 
CHECK_DEADLOCK FALSE
