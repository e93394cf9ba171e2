CONSTANTS
  NumNames = 3
  Others = {1}
  HandNames = {2}
  Spoilt = {3}
  PageSize = 1
  MaxPages = 2
  MaxFails = 1
  MaxStops = 1
  MaxEdits = 1
SPECIFICATION FairSpec
INVARIANTS TypeOK InterruptionsCostNothing CleanRefreshIsComplete
PROPERTIES ArrivesWhole InboxIsTakenUp RecordingsArrive
