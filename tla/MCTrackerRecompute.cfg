CONSTANTS
  p = p
  r = r
  Places = {p, r}
  Backups <- MCBackups
  Files = {1}
  Unreadable = {}
  Trackless = {}
  Algos = {1, 2}
  Anchors = {"entry"}
  Reach <- MCReach
  TripIds = {u1, u2}
  Tasks = {a, b}
  Edits = 2
  Retries = 0
  Recomputes = 1
  Deletes = 0
  Crashes = 1
  Limit <- MCLimit
  NoFile = NoFile
  NoTrip = NoTrip
  NoTask = NoTask
SPECIFICATION RefreshedSpec
INVARIANTS TypeOK FreshIsCurrent
PROPERTIES RefreshingConverges
