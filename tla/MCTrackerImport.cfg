CONSTANTS
  p = p
  r = r
  Places = {p, r}
  Backups <- MCBackups
  Files = {1, 2}
  Unreadable = {}
  Trackless = {}
  Algos = {1}
  Anchors = {"entry"}
  Reach <- MCReach
  TripIds = {u1, u2}
  Tasks = {a, b}
  Edits = 2
  Retries = 1
  Recomputes = 0
  Deletes = 1
  Crashes = 1
  Limit <- MCLimit
  NoFile = NoFile
  NoTrip = NoTrip
  NoTask = NoTask
SPECIFICATION Spec
SYMMETRY Symmetric
INVARIANTS SourcesRetained RecordsNameTheirTrip
PROPERTIES ImportsOnlyUnseen
