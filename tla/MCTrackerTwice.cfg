CONSTANTS
  p = p
  r = r
  Places = {p, r}
  Backups <- MCBackups
  Files = {1}
  Unreadable = {}
  Trackless = {}
  Algos = {1}
  Anchors = {"entry"}
  Reach <- MCReach
  TripIds = {u1, u2}
  Tasks = {a, b}
  Edits = 1
  Retries = 0
  Recomputes = 0
  Deletes = 0
  Crashes = 1
  Limit <- MCLimit
  NoFile = NoFile
  NoTrip = NoTrip
  NoTask = NoTask
SPECIFICATION Spec
SYMMETRY Symmetric
INVARIANTS OneTripPerFile
