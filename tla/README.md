# A verification of the routine routes tracker

The tracker fetches GPX recordings of a daily drive from a cloud folder, measures
each against one route of waypoints, keeps every stored trip measured against
the current route, and shows the results in pages with maps and charts. This
directory models that program in TLA+, checks the models with TLC and proves the
central results with TLAPS.

Every definition is taken from the Go, SQL and JavaScript source; `PROJECT.json` names the
lines behind each. The modules are:

| Module | Models | Used by |
|---|---|---|
| `Route` | the route as the rest of the program sees it: a list of waypoints and a version | `RouteStore` implements it, `Tracker` extends it |
| `RouteStore` | the route tables and the handlers racing over them | `MCRouteStore` |
| `Tracker` | imports, recomputes, retries, deletions, crashes and restarts | `MCTracker`, `TrackerProofs` |
| `Inbox` | the cloud folder, downloads into the inbox, and refreshes that take it up, under failures and shutdowns | run directly |
| `Gpx` | from a document to the fixes of a track | run directly |
| `Passes` | from the fixes to the passes of one waypoint | run directly |
| `Assign` | from the passes to crossings, direction, arrival and segments | run directly |
| `Report` | from the stored measurements to the report of the statistics page | extended by `Charts` |
| `Charts` | from the report to the charts the browser draws | `MCCharts` |
| `Maps` | the maps of the route page and of a trip, and the answers they wait for | run directly |
| `TrackerProofs`, `RouteStoreProofs`, `InboxProofs`, `GpxProofs`, `PassesProofs`, `AssignProofs`, `ChartsProofs`, `MapsProofs` | theorems about the module each is named for, those about `Report` in `ChartsProofs`, and those about `Route` in `TrackerProofs`, which needs them; `RouteStoreProofs` proves as well that `RouteStore` implements `Route` | |
| `MCRouteStore`, `MCTracker`, `MCCharts` | constants and symmetry for TLC | |

## The system

**Parts, their state and their operations**

- *Route storage* (`internal/storage/templates.go`, migrations 0001 and 0002):
  `route_templates` and `waypoints`. Operations: create, add, update, delete,
  move, replace. Each runs in one transaction and raises the route's version.
  Correct when one route is visible, sequence numbers are contiguous and every
  committed edit raises the version.
- *Import and recompute service* (`internal/service`): the inbox directory, the
  retained files (blobs, named by their hash), `refreshMu`, the goroutines under
  way. Operations: Refresh, Ingest, Reprocess, ReprocessTrip, Retry. Correct when
  a trip marked current is current, each file is imported once, and what is left
  stale is eventually recomputed.
- *Trip and file tables* (`internal/storage/trips.go`, `files.go`): `trips`,
  `crossings`, `segments`, `trip_tracks`, `processed_files`. Correct when a
  record names the trip that was made of its file and every trip can be measured
  again.
- *Web server* (`internal/web`): no state of its own; a handler edits the route
  or a trip, or starts a goroutine and answers at once.
- *Process* (`cmd/tracker`, `internal/config`): starts a Reprocess, and ends
  without waiting for goroutines.
- *Matcher* (`internal/matcher`, `internal/geo`): pure. Passes of a recording at
  a waypoint; one pass per waypoint; direction; arrival; segments.
- *GPX parser* (`internal/gpx`): pure. Points to a filtered, ordered track.
- *Cloud folder* (`internal/drive`): lists by pages, downloads what is not in the
  inbox through a temporary file, stops at the first failure. Correct when a
  recording turns up whole or not at all and, if nothing fails, turns up.
- *Statistics* (`internal/storage/segments.go`, `internal/stats`,
  `internal/service/stats.go`): read-only. Percentiles, outliers, the best hour.
  Correct when the baseline is one that can be believed and a median halves what
  it summarises.
- *Scripts* (`internal/web/static`): the state of a page in the browser - layers
  and markers of two maps, the charts. Correct when what is drawn is what was
  chosen, or measured.
- *Backup, simplification, storage check, rendering*: pure or read-only.

**How they interact.** HTTP handlers and goroutines share the database, which
has one connection and so runs one statement or transaction at a time, and
nothing else. Only Refresh takes a lock (`TryLock`, given up at once when it is
held). Recompute workers are started by every edit, at startup and at the end of
every Refresh, and nothing keeps two of them apart. What is stale is worked out
from the version numbers stored with each trip; there is no queue. A pull and the
import after it are one goroutine; what they share with the outside are the
inbox directory, which anybody may copy into, and a context that a shutdown
cancels. A script in the browser knows of the server only what its page was
rendered with and what its requests are answered.

**What is hard.** Workers that read the route and write trips much later; a
read of the route that is two queries; a process that may end between saving a
trip and recording its file; cascades that change trips behind a worker's back;
requests naming rows that are gone; downloads, files and contexts that give out half-way;
answers that arrive after the user has moved on; a search whose picks are indices
into reversed lists; recordings with pauses, gaps, jitter and points out of
order; ties, zeros and rounding in what is reported.
`PROJECT.json` lists each under `hazards` at its line.

## How the models correspond to the code

### Route and RouteStore

`RouteStore` keeps the two tables as functions from identity to row. A handler
is a small machine: it receives a request, reads the active template
(`ReadActive`), creates it if a first waypoint finds none (`CreateTemplate`,
with the loser of a race reading again), and runs its edit (`Apply`). Other
handlers commit between those steps; the edit itself is one transaction.
Inside it, the renumbering after a delete and the three updates of a move are
followed row by row, because SQLite checks `UNIQUE (template_id, seq)` after each
row; a collision rolls the transaction back. `Abandon` is a request cancelled at
any point, or a form refused after its route was created.

`Route` is the abstract specification: no rows, no sequence numbers, no
handlers. `ImplementsRoute` shows the tables implement it, with the refinement
mapping `ActiveVersion` and `Listed`. `Tracker` then builds on `Route`'s actions,
so an edit in `Tracker` is what the tables really do.

A label, a position, a radius and the optional flag are one *place*: the
properties only ask whether two routes are the same. Identities are given out in
order and never repeat, as random identifiers are assumed not to.

### Tracker

A task is a goroutine; its record holds the step it is at and exactly what it
has read and not yet used. One database call is one step. The steps of an import
are `list`, `next`, `load`, `measure`, `save`, `mark`; those of a recompute
`template`, `waypoints`, `stale`, `each`, `write`; a retry begins with `forget`
and `lock`. `ActiveTemplate` is two steps because it is two queries
(`templates.go:24` and `33`).

| Code | Action |
|---|---|
| `Refresh`, `refresh`, `newFiles` | `TryLock`, `ListNewFiles`, `NextFile` |
| `ingestFile`, `Ingest` | `NextFile` (retains the bytes), `LoadRoute`, `MeasureFile`, `SaveNewTrip`, `MarkProcessed` |
| `Reprocess`, `ReprocessTrip`, `reprocessTrip` | `ReadVersion`, `ReadWaypoints`, `ListStaleTrips`, `NextTrip`, `WriteTrip` |
| `Retry` | `StartRetry`, `Forget`, then a Refresh |
| route handlers, `afterRouteChange` | `Edit`, `EditNothing`, `CreateEmptyRoute` |
| `importRoute`, its request cancelled between the commit and the reading back | `RestoreCutOff`: the route has changed and nothing is started |
| `deleteTrip` | `UserDeletesTrip` |
| `run` (`main.go`), a crash, a deployment | `Crash`, `Restart` |
| `measure` on a track without points | `Panic` |

Measuring is abstract: `Reach` says which places a recording passes under each
algorithm version, and a measurement is the set of waypoints at those places.
That is all the properties need, since they ask whether a trip's measurement is
the one the current route would give. What measuring itself does is the subject
of `Gpx`, `Passes` and `Assign`. `NextTrip` loads the trip, its hash and its
retained file in one step; nothing another task does between those three reads
changes what is written, as a trip's file never changes and retained files are
never removed.
Foreign keys are modelled where they act: a deleted waypoint takes the crossings
that name it (`CascadeWaypoints`), a crossing that names a missing waypoint is
refused (`CrossingsAccepted`), and a deleted trip leaves its file's record
without a name (`DeleteTrip`).

The variables `source` and `deleted` are history: they record which file a trip
was created from and what the user deleted, and no action reads them except to
give out fresh identities and to order recomputes by the start of the recording
(a file's number is that start).

### Inbox

`Tracker` lets a file arrive whole and at once, and each refresh run to its end or
to a crash. `Inbox` has what is behind that, and keeps of a recording that was read
only how its import came out. The two share the steps of a refresh from `Scan` on:
`Scan` is `ListNewFiles`, `ReadFile` the read in `NextFile`, `LoadRoute` and `Save`
stand for the steps of those names and `MeasureFile`, and `MarkProcessed` ends the
import in both. `ArrivesWhole` is what `Tracker` takes for granted.

| Code | Action |
|---|---|
| `list`, one request per page, at most `MaxPages` of them | `ListPage` |
| the loop of `Pull` | `SkipPresent`, `BeginDownload`, `DownloadRefused`, `PullDone` |
| `download` | `BeginDownload` (a temporary file), `FinishDownload` (the rename), `DownloadBreaksOff` (its removal) |
| `Refresh`, `refresh`, `newFiles` | `StartRefresh`, `ImportAfterPull`, `Scan`, `FinishRefresh` |
| `ingestFile`, `Ingest` | `ReadFile`, `LoadRoute`, `Save`, `MarkProcessed` |
| a route made; a waypoint or a trip deleted; `Retry` | `CreateRoute`; `DeleteWaypoint`, `DeleteTrip`; `Forget`, then `StartRefresh` |
| `Progress` | the variable `progress` |
| the signal handler of `run`, the end of the process | `Shutdown`, `Restart` |

An import fails for each reason the code has: there is no route yet; the file was
read half-copied; it cannot be imported even whole, being too large or not GPX
(`Spoilt`); the context is cancelled; a waypoint it passes was deleted before the
save, which a foreign key then refuses. Recording the outcome can fail as well, and
the failure is only logged: when the context is cancelled, and when the trip it
names was deleted in between. The two deletions matter only while the file in hand
has been measured (`DeleteWaypoint`) or saved (`DeleteTrip`), so they are enabled
only there; `dangling` says that the next statement will refer to a row that is
gone. A measurement that passes none of the deleted waypoints would be saved all
the same, so a deletion that harms nothing is no step.

A file is absent, partial or whole. Names are numbers in the order of their dates,
as recordings are named by the instant they began. `stuck` holds recordings that
are listed and can never be downloaded: a request that fails at times is bounded
by `MaxFails`, one that always fails is not. Once the context is cancelled every
request and every statement fails, so nothing is recorded any more;
`FinishDownload` remains possible because the rename takes no context. `untimely`
and `withdrawn` are history: the files last imported without a route or as a
waypoint of theirs was deleted, and those the user forgot, or deleted the trip of,
since the refresh began.

### Maps

`route-map.js` and `trip-map.js` are event handlers over a few variables of the
page. One handler is one action, and the answer to a request is an action of its
own that may come at any time later and in any order.

| Code | Action |
|---|---|
| the `change` handler of the trip list | `Pick` |
| its `then` callbacks; a rejected promise | `Answer`; `Lose` |
| the `click` handler of the map; typing in the form | `Click`; `TypeCoordinates` |
| `trip-map.js`, from the waypoints to `fitBounds` | `OpenTripPage`, `TripAnswer`, `TripLost` |
| loading another page | `LoadRoutePage`, `LeaveTripPage` |
| `DELETE /trips/{id}`, the track endpoint | `DeleteTrip`, the set `stored` |

A layer carries the choice it was drawn for, so that two layers of one trip are
two. `overlapped` and `missed` are history: whether a choice was made while
another was being fetched, and whether the latest request was lost. The first
says what the route page really guarantees: it does not cancel a request, nor
check on arrival that it is still wanted, so only a user who waits is certain to
see one line.

### Report and Charts

The statistics page is computed at one time from one query, and drawn by a script
from the JSON embedded in it: two steps, `ShowStats` and `Draw`, over every
assignment of lengths to drives. `Report` has what the server computes, with the
percentiles, the outlier rule and the best hour in integers: durations are whole
tenths of a second, and a fraction is kept as a multiple of itself (`median2` is
twice the median, `mad4` four times the deviation, the test for an outlier is
multiplied out). A list of the report is stated by rank: an element stands at the
place that as many elements come before as precede it (`Ranked`), which is what
`slices.Sort` and the loops over sorted keys produce and what a proof can count.
`Charts` has what the script makes of the report, including the
second formatting of durations it contains, beside the one the tables use.

### Gpx, Passes, Assign

These are the three stages of measuring, each checked over every input of a
bounded size.

- `Gpx` takes any document of points - with or without a time, in any order,
  precise or not, at either of two places a car cannot get between in one
  instant - and steps the loop of `filter`: each step takes the earliest point
  left, in the order of the stable sort, and keeps or discards it.
- `Passes` chooses the next fix nondeterministically and steps the loop of
  `findPasses`. A fix is at the waypoint, well within its radius, just within it,
  within the exit radius, or beyond;
  the chord to it is usable or not; a usable chord goes through the circle, closest
  at an end or in between, or touches it in one instant, in each of the
  ways `IntersectCircle` can return for two such ends. Instants between two fixes
  are kept apart (entry, closest, exit), so an instant invented across a gap
  shows.
- `Assign` takes lists of passes and computes what is stored. A pass is opened at
  a pair of fixes and is entered between them, at the first of them (a start or a
  break within the radius) or at the second, closed at a later fix, and opened no
  earlier than the one before it was closed, perhaps at that very fix; at the end
  of a recording it may last one instant. Recordings have two fixes at least: with
  one, each waypoint has one pass or none and all at one instant.
  The closest approach is at either end of a pass where it matters, which is only
  when it is the anchor. The dynamic program, a table filled waypoint by
  waypoint, keeps the chain where the code keeps a pointer,
  and breaks ties in the order the code scans.

## What TLC checks

| Run | Instance | Shows |
|---|---|---|
| `route_store` | two handlers, two places, two template identities, versions and identities up to 4 | `OneVisibleRoute`, `SeqsContiguous`, `EditsTakeEffect`, and that the tables implement `Route` |
| `import` | two tasks, two files, two trip identities, two edits, a retry, a deletion, a crash | `ImportsOnlyUnseen`, `SourcesRetained`, `RecordsNameTheirTrip` |
| `recompute` | two tasks, one file, two builds, two edits, a crash, one single-trip recompute; with fairness | `FreshIsCurrent`; `RefreshingConverges` |
| `damaged` | three files, one unreadable and one without a usable fix; with fairness | `OlderFilesRecorded` |
| `gpx` | documents of up to four points, three instants | `PlausibleTravel`, `BreaksSurvive`, `CleanIsKeptWhole` |
| `passes` | recordings of up to six fixes | `PassesChronological`, `JitterIsOnePass`, `NothingInvented`, `PassesEndWhereParted` |
| `assignment` | three waypoints of which one is optional, up to two passes each - the first has one at most - and four in all, four fixes, two distances | `AssignIsExact`, `MirrorFlipsDirection`, `ArrivalKeepsOrder`, `ArrivalIsFirst`, `MeasuredWithinJourney` |
| `inbox` | three names, of which one is no recording, one may be copied by hand and one cannot be imported; pages of one name and at most two of them, one failure, one recording that cannot be had, one shutdown and one stop, one deletion or retry; with fairness | `ArrivesWhole`, `InterruptionsCostNothing`, `CleanRefreshIsComplete`; `InboxIsTakenUp`, `RecordingsArrive` |
| `maps` | two trips, two places, three choices, one lost request; with fairness | `BackdropIsTheChoice`, `OneProvisionalMarker`, `TripMapIsPlaced`; `ChoiceIsDrawn` |
| `statistics` | two stretches driven up to six and up to two times, in two hours and two weeks, three lengths of which one is zero, clocks that may go back | `BelievableBaseline`, `MediansHalve`, `WeeksAreAligned`, `JoinedAsDriven`, `TooltipNearTable` |

`route_store`, `recompute`, `inbox` and `maps` check their `TypeOK` as well.

**Why the bounds are enough.** A route edited twice is one that was created and
then changed while a worker held the old one; two tasks are the two workers of a
race, and a third only repeats the role of one of them. Two files are needed for
a record to name the wrong trip. Two trip identities are one for each file, or both
for one that is imported again after a crash or a retry. Three waypoints
are the fewest with a gap in the middle and a waypoint before the destination
that is not the first; two passes of one waypoint are what makes greedy choice
wrong, and four passes in all let two waypoints have two, or one have two and each
other one. That the first has one pass leaves out a choice of arrival on a drive in
reverse; the code that makes it knows only the order of travel, and `ArrivalsAreFirst`
is proved for both. Six fixes hold two passes with a departure between them. Two pages of one
name are fewer than the folder of three holds, so a listing is complete, is
continued, and is given up; the name copied by hand is the middle one, between one
that is never downloaded and one whose import always fails. Three choices are an answer that is
overtaken and one after it. Six drives make an hour with enough measurements and
one with exactly the three needed; 59.5 and 60 seconds are on either side of a
minute in a table and not in a chart. Bounds are named: `Limit` (per operation,
`Edits` ... `Crashes` in the configurations), `MaxEdits`, `MaxPasses`, `Once`, `MaxInAll`,
`MaxPoints`, `MaxTime`, `NumFixes`, `NumNames`, `PageSize`, `MaxPages` (the last
two are constants of the code, 1000 and 50 there), `MaxFails`, `MaxStops`,
`MaxPicks`, `MaxLost`, `Drives`. Tasks, handlers and identities
are interchangeable and used symmetrically where only safety is checked; the
liveness runs use no symmetry. A trip cannot be saved once the identities run
out; the instances of the liveness runs have enough for every import their
bounds allow.

`Gpx`, `Passes`, `Assign` and `Charts` end when their input is used up, so their
runs do not look for deadlock.

**Fairness.** `TasksRun` is weak fairness of each goroutine: Go schedules it and
database calls return. `RefreshIsPressed` is strong fairness of starting a
Refresh: it is a button, so only a person provides it, and it may find every
task of the instance busy now and again. In `Inbox`, where one refresh runs at a
time, weak fairness of `StartRefresh` says the same, that of `RefreshStep` says
that the goroutine runs and each request ends (the client of `drive.go` has a
timeout), and that of `cancelled /\ Restart` that a process told to stop does. In
`Maps`, a browser settles every fetch: each request is answered or lost. No
fairness is assumed of edits, arrivals, choices, deletions, crashes or other
restarts.

Each property is accompanied in `PROJECT.json` by a mutant: a definition with a
plausible mistake in it under which TLC finds the property violated. The mutants
stand beside the definitions they spoil, marked *Fault*.

### Where the code departs from what it says

Two runs state a sentence of the documentation and show the code departing from it.

| Run | Sentence | What happens |
|---|---|---|
| `imported_twice` | "a file is imported exactly once however often the folder is synced" (`README.md:92`) | the process ends between `SaveTrip` and `MarkProcessed` |
| `panics_again` | `ingestFile` "records the outcome, including failures" (`service.go:232`) | a track without points ends the process, again at each refresh |

Further sentences are stated in the modules. TLC refutes each when the named
property replaces the properties of the named configuration, with the constants
given here changed in it:

| Property | Configuration | Sentence | What happens |
|---|---|---|---|
| `RecomputedAtRest` | `MCTrackerTwice.cfg`, `Edits = 3`, `Crashes = 0` | "every stored trip is recomputed" (`README.md:156`) | an older Reprocess finishes last; the trip stays stale until something starts another |
| `DeletedStaysDeleted` | the same, `Edits = 2`, `Deletes = 1`, `Crashes = 0` | `DeleteTrip` removes a trip (`trips.go:304`) | a worker had loaded it and saves it again |
| `RetryImports` | the same, `Retries = 1`, `Crashes = 0`, `SPECIFICATION FairSpec`, no symmetry | "Retry forgets that a file was seen and imports it again" (`service.go:399`) | a running Refresh holds the lock, and has listed its files already |
| `TriplessFilesListed` | the same, `Edits = 2` | - | a trip removed because the route moved away leaves its file recorded as imported, and in no list |
| `FailedMeansUnreadable` | any of `MCTracker` | - | a readable file refreshed before there is a route is recorded as failed |
| `TimedByTheAnchor` | `MCTrackerTwice.cfg`, `Anchors = {"entry", "closest"}` | - | switching `ANCHOR` recomputes nothing |
| `MeasuredWithinJourney` | `AssignEntry.cfg`, `Anchor = "closest"`, two waypoints, five fixes, one pass each | - | the last stretch ends after the journey |
| `BoundariesPreserved` | `Gpx.cfg` | - | a segment whose first point has no time is joined to the one before |
| `OnlyTheChoiceIsDrawn` | `Maps.cfg` | "a past trip can be drawn underneath" (`route-map.js:1`) | two answers cross; the first line drawn stays until the page is loaded again |
| `MarkerShowsTheForm` | `Maps.cfg` | "showing where the next waypoint would go" (`route-map.js:30`) | coordinates typed after a click leave the marker where it was |
| `ExistingAreLeftAlone` | `Inbox.cfg` | existing files are "left alone" (`drive.go:130`) | a file copied in while its download is under way is replaced by it |
| `TooltipIsTable` | `MCCharts.cfg` | "the charts and the tables above them can never disagree" (`stats-charts.js:1`) | 59.5 seconds are `1m 00s` in a table and `0m 59s` in a tooltip |
| `NothingBeatsTheBest` | `MCCharts.cfg` | "1.0 is as good as it gets" (`internal/service/stats.go:44`) | an hour with too few measurements to be the baseline beats it |
| `AxisCarries` | `MCCharts.cfg` | - | a tick finer than the points is labelled with sixty seconds |
| `UnusualIsSlow` | `MCCharts.cfg`, `Lengths = {10, 595, 600}` | "Unusually slow journeys" (`stats.gohtml:102`) | an unusually fast one is marked as well |

## What is proved

TLAPS checks these for every value of the constants - any number of files,
trips, tasks, waypoints, builds, recordings, pages, clicks and operations. They
rest on the named assumptions about the constants (`BackupsAssumption`,
`TrackerAssumptions`, `RouteStoreAssumptions`, `InboxAssumptions`,
`GpxAssumptions`, `PassesAssumptions`, `AssignAssumptions`, `ReportAssumptions`,
`ChartsAssumptions`, `MapsAssumptions`), which TLC evaluates on each instance. None
of them says anything of the program's inputs: drives may take no time at all, which
`hourCells` mistakes for no best yet. One theorem has a hypothesis about a
constant that not every instance satisfies, and it is part of its statement:
`Anchor = "entry"`, the default, in `MeasuredStretchesEndInTime`. With
`"closest"` what it says is false, as the table above shows.

*The import and recompute service* (`TrackerProofs`)

- `RouteTyped`: the route stays a sequence of waypoints with a version.
- `TypeCorrect`: `Spec => []TypeOK`. The type invariant alone is not inductive: a
  task about to write must have a trip and a file. `Typed` adds `Busy`, which
  says what a task holds at each step.
- `FreshTripsAreCurrent`: `Spec => []FreshIsCurrent`. `FreshInv` adds
  `Snapshots` (no task has read a version ahead of the route, and one that has
  read the current version together with waypoints has the current waypoints)
  and `NoneAhead` (no trip is ahead of the route or the build). The torn read is
  harmless because the version is read first: an edit in between leaves the task
  with an old version, and every edit raises the version, so what it writes is
  stale and will be found stale.
- `OnlyUnseenAreImported`: `ImportInv` adds `Exclusive` (only the holder of
  `refreshMu` imports) and `Unseen` (nothing listed or under way has a record).
  The action property follows from the guard of the one action that creates trips.
- `SourcesAreRetained` and `RecordsNameStoredTrips`: `RecordInv` adds `Sourced` (a
  trip keeps the file it came from, whoever rewrites it) and `Held` (a task's
  trip belongs to its file and its bytes are retained), without which a late
  write could put another file's measurements under a recorded trip.

*The route tables* (`RouteStoreProofs`)

- `RouteStoreTyped`, `OneRouteIsVisible` and `SeqsAreContiguous` come from
  `StoreInv`: `OneTemplate` (at most one active template, and every waypoint
  belongs to it), `Numbered` (its rows carry 0, 1, ... each once), and
  `HandlersInv`, which says what a handler between two steps has read. It is
  inductive by three facts about numberings: adding at the end
  (`AppendContiguous`), closing the gap of a deleted row (`ClosedContiguous`) and
  exchanging two neighbours (`SwappedContiguous`) keep one contiguous. A restored
  backup is numbered by its positions (`RestoredRows`).
- `EveryEditTakesEffect`: the uniqueness check after every row never refuses an
  edit. `GapClosesFreely`: a renumbering in ascending order meets no number still
  in use, as each row takes the one the row before has just left.
  `NeighboursSwapFreely`: the move parks one row at -1, which no row has.
- `TablesImplementRoute`: the tables implement `Route`. The abstract list is the
  rows in order of their numbers, so two facts carry the proof: a contiguous
  numbering of n rows uses exactly 0 to n - 1 (`NumbersInUse`, `CountOfNumbers`),
  and therefore only one list reads the rows off in order (`ListIsUnique`). Each
  transaction then has a lemma (`CreationMaps`, `AdditionMaps`, `UpdateMaps`,
  `DeletionMaps`, `MoveMaps`, `ReplacementMaps`) that names the list after it,
  shows that it lists the rows after it, and so that it is the list shown; that
  list is what the operation of `Route` of the same name gives. Every other step
  of a handler is a stutter.

*The parser* (`GpxProofs`)

- `TravelIsPlausible`, `NoBreakIsLost` and `CleanRecordingsAreKept` come from
  `GpxInv`, which says how far the filter has come: what is left is later, in the
  stable order, than all it has seen (`Seen`), so the fixes kept move forward
  (`Advancing`); `pending` is set exactly when a segment began after the last fix
  kept; and of a clean document the first points have been kept, all of them.
  The heart is that a point taken next is the earliest left, so that nothing lies
  between it and the one before it except what was discarded there.

*The passes* (`PassesProofs`)

- `PassesInOrder`, `JitterMakesOnePass`, `NothingIsInvented` and `PassesEndInTime`
  come from `PassesInv`: `KeptPasses` (a kept pass is in order, touches no stretch
  without travel, reaches past no departure, and ended at one unless the recording
  ended it), `InTurn` (the next is entered after it) and `OpenPass` (the open pass
  was entered after all kept ones and after every departure so far). `ExtendedPass`
  is the heart of it: whatever the chord to the next fix does, the open pass stays
  so. Its claim about departures is what lets a pass be closed at the fix that
  ends it, later than its chord left the circle: no departure lies in between.

*The assignment* (`AssignProofs`)

- `DynamicProgramIsExact`. The table of `Chains` is unfolded by its index
  (`TableExists`, `NextRowIsBest`, `ChainsAreBest`). Its entry for waypoint k and
  pass j is a best chain that ends there (`BestAt`): a chain that ends there is
  either that pass alone or extends one that ends earlier (`EndsShortened`), and
  extending a better chain gives a better one (`NotBetterExtended`), so nothing is
  lost by keeping one chain per end (`BestChainIsBest`). The scan keeps a best one
  (`FirstBestIsBest`: the fits a finite instance can have are bounded, so there is
  one). `AssignPassesIsExact` follows, and for the other direction
  `BackwardIsExact`: reversing lists is a bijection between the assignments in
  either order that keeps the fit (`ReversedAssignment`, `TotalBackwards`).
- `MirrorImagesAreOpposite`: mirroring in time maps the assignments in one order
  onto those in the other (`MirroredFitsEqually`); as the best fit is unique even
  where the assignment that has it is not, the two runs compare the same two fits.
- `ArrivalsKeepOrder` and `ArrivalsAreFirst`: an earlier pass of the destination
  follows the waypoint before it, which follows all others (`ArriveFacts`), and
  the fixes kept reach beyond its entry (`TrackEndFacts`); so crossings come in
  order (`StretchesInOrder`), whichever anchor they are timed by.
- `MeasuredStretchesEndInTime` rests on the same facts.

*The inbox* (`InboxProofs`)

- `InboxTyped`, `InterruptionsCostNoTrip`, `CleanRefreshesAreComplete` come from
  `InboxInv`. The second says that what is on record as failed was copied by hand, or
  is spoilt, or was imported without a route or as a waypoint was deleted: downloads
  that break off and shutdowns leave a recording to the next refresh. Besides the types it has `Owned` (a download under way owns one
  temporary file, and each process that ended left one behind at most), `Counts`
  (the progress shown agrees with the queue), `InHand` (a file that is partial was
  copied by hand; what the refresh has read of the file in hand), `Blamed` (a
  reference that dangles has a deletion behind it, and a failure about to be
  recorded has one of the causes above or a cancelled context, in which nothing is
  recorded) and
  `Followed`: as long as no error is on display, everything the refresh came across
  is still in the queue, in hand, in the inbox or recorded, as its step demands,
  unless the user withdrew it.
- `RecordingsArriveWhole` follows from `InboxInv` step by step: the one action that
  writes a file under its own name is the rename.

*The report and the charts* (`ChartsProofs`)

- What the page promises are facts about lists of any length; the steps only carry
  them to the page (the lemma `PageIsOfReport`). They rest on three lemmas about `Ranked`: in a total order
  no two elements of a finite set have one place (`PlacesOfOrder`), so the list has
  each of them once and in order (`RankedLists`), and it is the only list that does
  (`RankedIsTheList`). No proof goes by induction over the measurements.
- `MediansAlwaysHalve`: the median is half the sum of two sorted values, at places
  as far from either end. What is smaller stands before the upper of them and what
  is larger after the lower, which counts both sides. Applied a second time, to the
  deviations, it bounds what is unusual: that exceeds even the upper of the two
  middle deviations, as fewer than half do.
- `BaselineIsBelievable` speaks of stretches no hour of which has a median of zero:
  such an hour would be taken for none (`stats.go:182`). It and `WeeksStayAligned`
  rest on the order of the report: `EndToEnd` is the lists of all
  stretches in the lexicographic order of stretch and place, so an entry of the
  report is found from its stretch and hour, or week, and the other way round. A
  median of a week lies between two of its drives, and rounding keeps that.
- `LinesJoinedAsDriven`: sorting by the wall clock gives back the order of the
  instants, by `RankedIsTheList`: when no clock goes back the two orders are one.
- `TooltipsNearTable` is arithmetic: rounding to hundredths of a minute, then to
  seconds, against rounding to seconds at once.

*The maps* (`MapsProofs`)

- `PatientUserSeesTheChoice`, `OneMarker` and `TripMapsArePlaced` come from
  `MapsInv`, which adds `Asked` (while no choices overlap, the one request in
  flight is that of the latest, and nothing is drawn) and `Waiting` (a trip page
  that waits has no line and no view).

The proofs have one lemma per action or group of actions (`TaskStepTyped`,
`RequestTyped`, `DeleteWaypointKeeps`, `ListKeeps`, ...), one step per action
under it, and frame lemmas for the common case that an action changes nothing but
its own task, handler or page.

So each invariant and each action property that the passing runs check is stated by
a theorem, for every value of the constants. Only model-checked is liveness
(`RefreshingConverges`, `OlderFilesRecorded`,
`InboxIsTakenUp`, `RecordingsArrive`, `ChoiceIsDrawn`), which is beyond the
prover. What the violation runs show are counterexamples, and those of the table
above them as well.

The induction theorems of the library take an operator as a parameter, which no
installed prover can instantiate. Where a proof about `Assign` needs induction it is
made by hand, over recursive functions of an index: a set of numbers that holds 0
and, with each number, the next holds them all, as the least number outside it
would have one before it (`LeastMember`, `InSteps`).

## What is not modelled

- Floating point: projection, the quadratic of `IntersectCircle`, distances and
  speeds, means, standard deviations and the congestion index. What the
  statistics say of durations is modelled in integers.
- Decoding: XML, form fields, JSON from Drive, times, CSV columns. The backup
  format is string handling with a handful of error messages, which the tests
  beside it cover better than a model of strings would.
- Simplification: its result only decorates, and its distances lose their meaning
  over the few integer points TLC can enumerate.
- Statement failures other than those the foreign keys, the unique indexes and a
  cancelled context cause: a full disk or a corrupt file.
- Opening the database and numbering its two migrations, which happens before
  anything else runs; the storage check, which only changes a banner.
- Templates, dates, colours, the mark on an edited row, and the vendored libraries
  (Leaflet, Chart.js, htmx), of which only what the scripts rely on is modelled.
- Two pages editing one waypoint: a save carries every field and the last one
  wins. Nothing promises otherwise, and a place is one value in `RouteStore`.

## Plan

Done, in this order: `Route`, `RouteStore`, `Tracker`, `Assign`, `Passes`, `Gpx`
with the theorems about `Tracker`; then `Maps`, `Inbox`, `Report` and `Charts`,
the theorems about `RouteStore`, `Inbox`, `Passes` and `Maps`, and the proof that
`RouteStore` implements `Route`; then the theorems about `Gpx` and `Assign`;
last the theorems about `Report` and `Charts`, for which their lists were restated
by rank.

Left, in order of what matters most to the program:

1. `Inbox` and `Tracker` composed, so that a refresh with a cancelled context
   meets recompute workers.
2. `Lifecycle`: migrations applied once and in order across crashes, and the drain
   of requests at a shutdown.
