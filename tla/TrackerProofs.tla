--------------------------- MODULE TrackerProofs ---------------------------
(***************************************************************************)
(* What Tracker keeps for every set of recordings, trips and tasks, every  *)
(* route and every bound: its type invariant, FreshIsCurrent,              *)
(* SourcesRetained, RecordsNameTheirTrip and ImportsOnlyUnseen.            *)
(*                                                                         *)
(* None of them is inductive alone.  Each is strengthened with what the    *)
(* goroutines hold between two database calls: which file and trip a task  *)
(* is busy with (Busy), what it has read of the route (Snapshots), that    *)
(* only the holder of refreshMu imports (Exclusive), and that what it      *)
(* imports has no row in processed_files (Unseen).                         *)
(***************************************************************************)
EXTENDS Tracker, TLAPS

-----------------------------------------------------------------------------
(* What every edit of the route keeps and what it raises. *)

(* Removing an element leaves a sequence of the same elements. *)
LEMMA RemoveAtType ==
  ASSUME NEW S, NEW s \in Seq(S), NEW i \in DOMAIN s
  PROVE  RemoveAt(s, i) \in Seq(S)
<1>1. i \in 1 .. Len(s)
  OBVIOUS
<1>2. SubSeq(s, 1, i - 1) \in Seq(S)
  BY <1>1
<1>3. SubSeq(s, i + 1, Len(s)) \in Seq(S)
  BY <1>1
<1> QED
  BY <1>2, <1>3 DEF RemoveAt

(* Every edit of a well-formed route leaves a well-formed route. *)
LEMMA EditKeepsType ==
  ASSUME RouteTypeOK, EditRoute
  PROVE  RouteTypeOK'
<1> USE DEF RouteTypeOK
<1>1. ASSUME NEW p \in Places, AddWaypoint(p)
      PROVE  RouteTypeOK'
  <2>1. [id |-> nextId, place |-> p] \in Waypoint
    BY DEF Waypoint
  <2> QED
    BY <1>1, <2>1 DEF AddWaypoint
<1>2. ASSUME NEW i \in DOMAIN wps, NEW p \in Places, UpdateWaypoint(i, p)
      PROVE  RouteTypeOK'
  <2>1. wps[i] \in Waypoint
    OBVIOUS
  <2>2. [wps[i] EXCEPT !.place = p] \in Waypoint
    BY <2>1 DEF Waypoint
  <2>3. wps' = [wps EXCEPT ![i] = [wps[i] EXCEPT !.place = p]]
    BY <1>2 DEF UpdateWaypoint
  <2> QED
    BY <1>2, <2>2, <2>3 DEF UpdateWaypoint
<1>3. ASSUME NEW i \in DOMAIN wps, DeleteWaypoint(i)
      PROVE  RouteTypeOK'
  BY <1>3, RemoveAtType DEF DeleteWaypoint
<1>4. ASSUME NEW i \in DOMAIN wps, NEW delta \in {-1, 1}, MoveWaypoint(i, delta)
      PROVE  RouteTypeOK'
  <2>1. i + delta \in DOMAIN wps
    BY <1>4 DEF MoveWaypoint
  <2>2. wps[i] \in Waypoint /\ wps[i + delta] \in Waypoint
    BY <2>1
  <2> QED
    BY <1>4, <2>1, <2>2 DEF MoveWaypoint
<1>5. ASSUME NEW places \in Backups, ReplaceRoute(places)
      PROVE  RouteTypeOK'
  <2>1. places \in Seq(Places)
    BY BackupsAssumption
  <2>2. ASSUME NEW i \in DOMAIN places
        PROVE  [id |-> nextId + i - 1, place |-> places[i]] \in Waypoint
    BY <2>1 DEF Waypoint
  <2>3. DOMAIN places = 1 .. Len(places) /\ Len(places) \in Nat
    BY <2>1
  <2>4. wps' \in [1 .. Len(places) -> Waypoint]
    BY <1>5, <2>2, <2>3 DEF ReplaceRoute
  <2>5. wps' \in Seq(Waypoint)
    BY <2>3, <2>4
  <2> QED
    BY <1>5, <2>3, <2>5 DEF ReplaceRoute
<1> QED
  BY <1>1, <1>2, <1>3, <1>4, <1>5 DEF EditRoute

(* Creating the empty route keeps it well formed. *)
LEMMA CreateKeepsType ==
  ASSUME RouteTypeOK, CreateRoute
  PROVE  RouteTypeOK'
BY DEF RouteTypeOK, CreateRoute

(***************************************************************************)
(* Every committed edit raises the version (bumpVersion is the last        *)
(* statement of each transaction).                                         *)
(***************************************************************************)
LEMMA EditRaisesVersion ==
  ASSUME RouteTypeOK, EditRoute
  PROVE  version' \in Nat /\ version' > version
<1>1. version' = version + 1 \/ (version = 0 /\ version' = 2)
  BY Zenon DEF EditRoute, AddWaypoint, UpdateWaypoint, DeleteWaypoint,
               MoveWaypoint, ReplaceRoute
<1> QED
  BY <1>1 DEF RouteTypeOK

(* The abstract route is well formed whatever edits are committed. *)
THEOREM RouteTyped == RouteSpec => []RouteTypeOK
<1>1. RouteInit => RouteTypeOK
  BY DEF RouteInit, RouteTypeOK
<1>2. RouteTypeOK /\ [RouteNext]_routeVars => RouteTypeOK'
  <2> SUFFICES ASSUME RouteTypeOK, [RouteNext]_routeVars PROVE RouteTypeOK'
    OBVIOUS
  <2>1. CASE CreateRoute
    BY <2>1, CreateKeepsType
  <2>2. CASE EditRoute
    BY <2>2, EditKeepsType
  <2>3. CASE UNCHANGED routeVars
    BY <2>3 DEF routeVars, RouteTypeOK
  <2> QED
    BY <2>1, <2>2, <2>3 DEF RouteNext
<1> QED
  BY <1>1, <1>2, PTL DEF RouteSpec

-----------------------------------------------------------------------------
(* The importer *)

(* Steps at which a task has a file, has a file it imports, and has read   *)
(* the waypoints of the route.                                             *)
FileSteps == {"forget", "load", "measure", "save", "mark", "write"}
ImportSteps == {"load", "measure", "save", "mark"}
SnapshotSteps == {"save", "stale", "each", "write"}

(* A task at a step that names a file or a trip has one.                   *)
BusyAt(k) ==
  /\ k.pc \in FileSteps => k.file \in Files
  /\ k.pc = "write" => k.trip \in TripIds
  /\ (k.pc = "mark" /\ k.status = "ok") => k.trip \in TripIds
  /\ (k.pc = "mark" /\ k.status # "ok") => k.trip = NoTrip

Busy == \A t \in Tasks : BusyAt(task[t])

Typed == TypeOK /\ Busy

(* The version a task has read is never ahead, and the waypoints it has    *)
(* read with the current version are the current ones.                     *)
ReadAt(k) ==
  /\ k.version <= version
  /\ (k.pc \in SnapshotSteps /\ k.version = version) => k.wps = wps

Snapshots == \A t \in Tasks : ReadAt(task[t])

(* No stored trip is ahead of the route or of the running build.           *)
NoneAhead ==
  \A u \in DOMAIN trips : trips[u].version <= version /\ trips[u].algo <= algo

FreshInv == Typed /\ Snapshots /\ NoneAhead /\ FreshIsCurrent

(* Only the holder of refreshMu is at a step of the import loop.           *)
Exclusive == \A t \in Tasks : task[t].pc \in RefreshSteps => refreshMu = t

(* What is left to import, and what is being imported, has not been seen.  *)
Unseen ==
  \A t \in Tasks :
    /\ task[t].pc \in RefreshSteps => task[t].queue \cap DOMAIN processed = {}
    /\ task[t].pc \in ImportSteps =>
         task[t].file \notin DOMAIN processed /\ task[t].file \notin task[t].queue

ImportInv == Typed /\ Exclusive /\ Unseen

(* A trip keeps the file it was created from, whoever rewrites it.         *)
Sourced == \A u \in DOMAIN trips : source[u] = trips[u].file

(* The trip a task has at hand was created from the file it has at hand,   *)
(* and what it derives from has been retained.                             *)
HeldAt(k) ==
  /\ (k.pc = "write" \/ (k.pc = "mark" /\ k.status = "ok")) => source[k.trip] = k.file
  /\ k.pc \in ImportSteps \cup {"write"} => k.file \in blobs

Held == \A t \in Tasks : HeldAt(task[t])

RecordInv == Typed /\ Sourced /\ Held /\ SourcesRetained /\ RecordsNameTheirTrip

-----------------------------------------------------------------------------
(* Type correctness *)

(* A goroutine that has returned holds nothing. *)
LEMMA IdleType == Idle \in Task /\ BusyAt(Idle) /\ Idle.pc = "idle"
  <1>1. <<>> \in Seq(Waypoint)
    OBVIOUS
  <1> QED
    BY <1>1, TrackerAssumptions DEF Idle, Task, Statuses, BusyAt, FileSteps

(* A task that becomes a well-formed task leaves all of them well formed. *)
LEMMA BecomeTyped ==
  ASSUME Typed, NEW t \in Tasks, NEW k \in Task, BusyAt(k), Become(t, k)
  PROVE  task' \in [Tasks -> Task] /\ Busy'
BY DEF Typed, TypeOK, Busy, Become, BusyAt

(* A goroutine may begin, or go on, at a step that needs no file or trip. *)
LEMMA FreshTask ==
  ASSUME NEW pc \in {"lock", "list", "template"}
  PROVE  /\ [Idle EXCEPT !.pc = pc] \in Task
         /\ BusyAt([Idle EXCEPT !.pc = pc])
  <1>1. <<>> \in Seq(Waypoint)
    OBVIOUS
  <1> QED
    BY <1>1, TrackerAssumptions
       DEF Idle, Task, Statuses, BusyAt, FileSteps, RefreshSteps, ReprocessSteps

(* Recording the outcome of an import keeps the tasks well formed. *)
LEMMA OutcomeTyped ==
  ASSUME Typed, NEW t \in Tasks, task[t].file \in Files, NEW s \in Statuses,
         NEW u \in TripIds \cup {NoTrip}, s = "ok" => u \in TripIds,
         s # "ok" => u = NoTrip, Outcome(t, s, u)
  PROVE  task' \in [Tasks -> Task] /\ Busy'
  <1> DEFINE k == [task[t] EXCEPT !.pc = "mark", !.status = s, !.trip = u, !.wps = <<>>]
  <1>1. task[t] \in Task /\ <<>> \in Seq(Waypoint)
    BY DEF Typed, TypeOK
  <1>2. k \in Task
    BY <1>1 DEF Task, RefreshSteps
  <1>3. BusyAt(k)
    BY <1>1 DEF BusyAt, Task
  <1> QED
    BY <1>2, <1>3, BecomeTyped DEF Outcome

(* What is measured with what a task has read is a trip. *)
LEMMA MeasuredType ==
  ASSUME Typed, NEW t \in Tasks, NEW f \in Files
  PROVE  Measured(t, f) \in Trip
  <1>1. task[t] \in Task /\ algo \in Algos /\ anchor \in Anchors
    BY DEF Typed, TypeOK
  <1>2. task[t].wps \in Seq(Waypoint)
    BY <1>1 DEF Task
  <1>3. ASSUME NEW i \in DOMAIN task[t].wps
        PROVE  task[t].wps[i].id \in Nat
    <2>1. task[t].wps[i] \in Waypoint
      BY <1>2
    <2> QED
      BY <2>1 DEF Waypoint
  <1>4. Crossed(algo, f, task[t].wps) \subseteq Nat
    BY <1>3 DEF Crossed
  <1> QED
    BY <1>1, <1>2, <1>4 DEF Measured, Trip, Task

(* Deleting a trip leaves both tables well formed. *)
LEMMA DeleteTripType ==
  ASSUME TypeOK, NEW u, DeleteTrip(u)
  PROVE  /\ DOMAIN trips' \subseteq TripIds
         /\ \A x \in DOMAIN trips' : trips'[x] \in Trip
         /\ DOMAIN processed' \subseteq Files
         /\ \A f \in DOMAIN processed' : processed'[f] \in ProcessedFile
  <1>1. DOMAIN processed' = DOMAIN processed
    BY DEF DeleteTrip
  <1>2. ASSUME NEW f \in DOMAIN processed
        PROVE  processed'[f] \in ProcessedFile
    BY DEF DeleteTrip, TypeOK, ProcessedFile
  <1> QED
    BY <1>1, <1>2 DEF DeleteTrip, Without, TypeOK

(* The initial state is well formed. *)
LEMMA InitTyped == Init => Typed
  <1> SUFFICES ASSUME Init PROVE Typed
    OBVIOUS
  <1>1. RouteTypeOK
    BY DEF Init, RouteInit, RouteTypeOK
  <1>2. task \in [Tasks -> Task] /\ Busy
    BY IdleType DEF Init, Busy
  <1>3. algo \in Algos
    BY TrackerAssumptions DEF Init
  <1> QED
    BY <1>1, <1>2, <1>3 DEF Init, Typed, TypeOK

(* Every step of a goroutine keeps the state well formed. *)
LEMMA TaskStepTyped ==
  ASSUME Typed, NEW t \in Tasks, TaskStep(t)
  PROVE  Typed'
<1> USE DEF Typed, TypeOK, routeVars, build, dbVars, RouteTypeOK
<1>0. task[t] \in Task /\ BusyAt(task[t])
  BY DEF Busy
<1>1. CASE Forget(t)
  <2>1. [task[t] EXCEPT !.pc = "lock"] \in Task /\ BusyAt([task[t] EXCEPT !.pc = "lock"])
    BY <1>0 DEF Task, BusyAt, FileSteps
  <2>2. task' \in [Tasks -> Task] /\ Busy'
    BY <1>1, <2>1, BecomeTyped DEF Forget, Goto
  <2> QED
    BY <1>1, <2>2 DEF Forget, Without
<1>2. CASE TryLock(t)
  <2>1. task' \in [Tasks -> Task] /\ Busy'
    BY <1>2, FreshTask, IdleType, BecomeTyped DEF TryLock, Return
  <2>2. refreshMu' \in Tasks \cup {NoTask}
    BY <1>2 DEF TryLock, Return
  <2> QED
    BY <1>2, <2>1, <2>2 DEF TryLock
<1>3. CASE ListNewFiles(t)
  <2> DEFINE k == [task[t] EXCEPT !.pc = "next", !.queue = inbox \ DOMAIN processed]
  <2>1. k \in Task /\ BusyAt(k)
    BY <1>0 DEF Task, BusyAt, FileSteps, RefreshSteps
  <2>2. task' \in [Tasks -> Task] /\ Busy'
    BY <1>3, <2>1, BecomeTyped DEF ListNewFiles
  <2> QED
    BY <1>3, <2>2 DEF ListNewFiles
<1>4. CASE NextFile(t)
  <2>1. CASE task[t].queue = {} /\ Goto(t, "template") /\ UNCHANGED blobs
    <3> DEFINE k == [task[t] EXCEPT !.pc = "template"]
    <3>1. k \in Task /\ BusyAt(k)
      BY <1>0 DEF Task, BusyAt, FileSteps, ReprocessSteps
    <3>2. task' \in [Tasks -> Task] /\ Busy'
      BY <2>1, <3>1, BecomeTyped DEF Goto
    <3> QED
      BY <1>4, <2>1, <3>2 DEF NextFile
  <2>2. ASSUME NEW f \in task[t].queue, blobs' = blobs \cup {f},
               Become(t, [task[t] EXCEPT !.pc = "load", !.file = f, !.queue = @ \ {f}])
        PROVE  Typed'
    <3> DEFINE k == [task[t] EXCEPT !.pc = "load", !.file = f, !.queue = @ \ {f}]
    <3>1. f \in Files
      BY <1>0 DEF Task
    <3>2. k \in Task /\ BusyAt(k)
      BY <1>0, <3>1 DEF Task, BusyAt, FileSteps, RefreshSteps
    <3>3. task' \in [Tasks -> Task] /\ Busy'
      BY <2>2, <3>2, BecomeTyped
    <3> QED
      BY <1>4, <2>2, <3>1, <3>3 DEF NextFile
  <2> QED
    BY <1>4, <2>1, <2>2 DEF NextFile
<1>5. CASE LoadRoute(t)
  <2> DEFINE k == [task[t] EXCEPT !.pc = "measure", !.version = version]
  <2>1. task[t].file \in Files
    BY <1>0, <1>5 DEF LoadRoute, BusyAt, FileSteps
  <2>2. k \in Task /\ BusyAt(k)
    BY <1>0, <2>1 DEF Task, BusyAt, FileSteps, RefreshSteps
  <2>3. task' \in [Tasks -> Task] /\ Busy'
    BY <1>5, <2>1, <2>2, BecomeTyped, OutcomeTyped DEF LoadRoute, Statuses
  <2> QED
    BY <1>5, <2>3 DEF LoadRoute
<1>6. CASE MeasureFile(t)
  <2> DEFINE k == [task[t] EXCEPT !.pc = "save", !.wps = wps]
  <2>1. task[t].file \in Files
    BY <1>0, <1>6 DEF MeasureFile, BusyAt, FileSteps
  <2>2. k \in Task /\ BusyAt(k)
    BY <1>0, <2>1 DEF Task, BusyAt, FileSteps, RefreshSteps
  <2>3. task' \in [Tasks -> Task] /\ Busy'
    BY <1>6, <2>1, <2>2, BecomeTyped, OutcomeTyped DEF MeasureFile, Statuses
  <2> QED
    BY <1>6, <2>3 DEF MeasureFile
<1>7. CASE SaveNewTrip(t)
  <2>1. task[t].file \in Files
    BY <1>0, <1>7 DEF SaveNewTrip, BusyAt, FileSteps
  <2>2. task' \in [Tasks -> Task] /\ Busy'
    BY <1>7, <2>1, OutcomeTyped DEF SaveNewTrip, Statuses
  <2>3. Measured(t, task[t].file) \in Trip
    BY <2>1, MeasuredType
  <2> QED
    BY <1>7, <2>1, <2>2, <2>3 DEF SaveNewTrip, Upsert
<1>8. CASE MarkProcessed(t)
  <2> DEFINE k == [Idle EXCEPT !.pc = "next", !.queue = task[t].queue]
             row == [status |-> task[t].status, trip |-> task[t].trip]
  <2>1. task[t].file \in Files
    BY <1>0, <1>8 DEF MarkProcessed, BusyAt, FileSteps
  <2>2. row \in ProcessedFile
    BY <1>0 DEF Task, ProcessedFile
  <2>3. k \in Task /\ BusyAt(k)
    BY <1>0, IdleType DEF Task, BusyAt, FileSteps, RefreshSteps
  <2>4. task' \in [Tasks -> Task] /\ Busy'
    BY <1>8, <2>3, BecomeTyped DEF MarkProcessed
  <2> QED
    BY <1>8, <2>1, <2>2, <2>4 DEF MarkProcessed, Upsert
<1>9. CASE ReadVersion(t)
  <2> DEFINE k == [task[t] EXCEPT !.pc = "waypoints", !.version = version]
  <2>1. k \in Task /\ BusyAt(k)
    BY <1>0 DEF Task, BusyAt, FileSteps, ReprocessSteps
  <2>2. task' \in [Tasks -> Task] /\ Busy' /\ refreshMu' \in Tasks \cup {NoTask}
    BY <1>9, <2>1, IdleType, BecomeTyped DEF ReadVersion, Return
  <2> QED
    BY <1>9, <2>2 DEF ReadVersion
<1>10. CASE ReadWaypoints(t)
  <2> DEFINE k == [task[t] EXCEPT !.pc = "stale", !.wps = wps]
             j == [task[t] EXCEPT !.pc = "each", !.wps = wps,
                                  !.stale = {task[t].trip}, !.trip = NoTrip]
  <2>1. k \in Task /\ BusyAt(k)
    BY <1>0 DEF Task, BusyAt, FileSteps, ReprocessSteps
  <2>2. task[t].trip # NoTrip => j \in Task /\ BusyAt(j)
    BY <1>0 DEF Task, BusyAt, FileSteps, ReprocessSteps
  <2>3. task' \in [Tasks -> Task] /\ Busy'
    BY <1>10, <2>1, <2>2, BecomeTyped DEF ReadWaypoints
  <2> QED
    BY <1>10, <2>3 DEF ReadWaypoints
<1>11. CASE ListStaleTrips(t)
  <2> DEFINE S == {u \in DOMAIN trips : Stale(u, task[t].version)}
             k == [task[t] EXCEPT !.pc = "each", !.stale = S]
  <2>1. S \subseteq TripIds
    OBVIOUS
  <2> HIDE DEF S
  <2>2. k \in Task /\ BusyAt(k)
    BY <1>0, <2>1 DEF Task, BusyAt, FileSteps, ReprocessSteps
  <2>3. Become(t, k)
    BY <1>11 DEF ListStaleTrips, S
  <2>4. task' \in [Tasks -> Task] /\ Busy'
    BY <2>2, <2>3, BecomeTyped
  <2> QED
    BY <1>11, <2>4 DEF ListStaleTrips
<1>12. CASE NextTrip(t)
  <2>1. CASE task[t].stale = {} /\ Return(t)
    <3>1. task' \in [Tasks -> Task] /\ Busy' /\ refreshMu' \in Tasks \cup {NoTask}
      BY <2>1, IdleType, BecomeTyped DEF Return
    <3> QED
      BY <1>12, <3>1 DEF NextTrip
  <2>2. ASSUME NEW u \in task[t].stale, UNCHANGED refreshMu,
               u \in DOMAIN trips, trips[u].file \in blobs,
               Become(t, [task[t] EXCEPT !.pc = "write", !.stale = @ \ {u},
                                         !.trip = u, !.file = trips[u].file])
        PROVE  Typed'
    <3> DEFINE k == [task[t] EXCEPT !.pc = "write", !.stale = @ \ {u},
                                    !.trip = u, !.file = trips[u].file]
    <3>1. trips[u].file \in Files /\ u \in TripIds
      BY <2>2 DEF Trip
    <3>2. k \in Task /\ BusyAt(k)
      BY <1>0, <3>1 DEF Task, BusyAt, FileSteps, ReprocessSteps
    <3>3. task' \in [Tasks -> Task] /\ Busy'
      BY <2>2, <3>2, BecomeTyped
    <3> QED
      BY <1>12, <2>2, <3>3 DEF NextTrip
  <2>3. ASSUME NEW u \in task[t].stale, UNCHANGED refreshMu,
               Become(t, [task[t] EXCEPT !.stale = @ \ {u}])
        PROVE  Typed'
    <3> DEFINE k == [task[t] EXCEPT !.stale = @ \ {u}]
    <3>1. k \in Task /\ BusyAt(k)
      BY <1>0 DEF Task, BusyAt
    <3>2. task' \in [Tasks -> Task] /\ Busy'
      BY <2>3, <3>1, BecomeTyped
    <3> QED
      BY <1>12, <2>3, <3>2 DEF NextTrip
  <2> QED
    BY <1>12, <2>1, <2>2, <2>3 DEF NextTrip
<1>13. CASE WriteTrip(t)
  <2> DEFINE k == [task[t] EXCEPT !.pc = "each", !.trip = NoTrip, !.file = NoFile]
  <2>1. task[t].file \in Files /\ task[t].trip \in TripIds
    BY <1>0, <1>13 DEF WriteTrip, BusyAt, FileSteps
  <2>2. k \in Task /\ BusyAt(k)
    BY <1>0 DEF Task, BusyAt, FileSteps, ReprocessSteps
  <2>3. task' \in [Tasks -> Task] /\ Busy'
    BY <1>13, <2>2, BecomeTyped DEF WriteTrip
  <2>4. Measured(t, task[t].file) \in Trip
    BY <2>1, MeasuredType
  <2>5. /\ DOMAIN trips' \subseteq TripIds
        /\ \A x \in DOMAIN trips' : trips'[x] \in Trip
        /\ DOMAIN processed' \subseteq Files
        /\ \A f \in DOMAIN processed' : processed'[f] \in ProcessedFile
    <3>1. CASE DeleteTrip(task[t].trip)
      BY <3>1, DeleteTripType
    <3>2. CASE ~ DeleteTrip(task[t].trip)
      BY <1>13, <2>1, <2>4, <3>2 DEF WriteTrip, Upsert
    <3> QED
      BY <3>1, <3>2
  <2> QED
    BY <1>13, <2>3, <2>5 DEF WriteTrip
<1> QED
  BY <1>1, <1>2, <1>3, <1>4, <1>5, <1>6, <1>7, <1>8, <1>9, <1>10, <1>11, <1>12, <1>13
     DEF TaskStep

(* The cascade of a route edit only shrinks the crossings of trips. *)
LEMMA CascadeType ==
  ASSUME TypeOK, CascadeWaypoints
  PROVE  DOMAIN trips' = DOMAIN trips /\ \A u \in DOMAIN trips' : trips'[u] \in Trip
BY ZenonT(60) DEF CascadeWaypoints, TypeOK, Trip

(* A request that starts a goroutine starts it well formed. *)
LEMMA StartTyped ==
  ASSUME Typed, NEW t \in Tasks, NEW k \in Task, BusyAt(k), Start(t, k)
  PROVE  task' \in [Tasks -> Task] /\ Busy'
BY BecomeTyped DEF Start

(* Counting an operation keeps the counters natural numbers. *)
LEMMA CountType ==
  ASSUME TypeOK, NEW o \in Ops, Count(o)
  PROVE  ops' \in [Ops -> Nat]
BY DEF Count, TypeOK

(* After a restart every task is idle but the startup recompute. *)
LEMMA RestartTyped ==
  ASSUME Typed, Restart
  PROVE  task' \in [Tasks -> Task] /\ Busy' /\ refreshMu' \in Tasks \cup {NoTask}
BY FreshTask, IdleType DEF Restart, Busy, BusyAt

(* Every request and every event outside the tasks keeps the state well formed. *)
LEMMA RequestTyped ==
  ASSUME Typed,
         \/ \E t \in Tasks : \/ Panic(t) \/ Edit(t) \/ EditNothing(t) \/ StartRefresh(t)
                             \/ StartRetry(t) \/ StartReprocessTrip(t)
         \/ Arrive \/ CreateEmptyRoute \/ RestoreCutOff \/ UserDeletesTrip \/ Crash
  PROVE  Typed'
<1> USE DEF Typed, TypeOK, routeVars, build, dbVars
<1>1. ASSUME NEW t \in Tasks, Panic(t) PROVE Typed'
  BY <1>1, RestartTyped DEF Panic, Restart, RouteTypeOK
<1>2. ASSUME NEW t \in Tasks, Edit(t) PROVE Typed'
  <2>1. RouteTypeOK'
    BY <1>2, EditKeepsType DEF Edit
  <2>2. DOMAIN trips' = DOMAIN trips /\ \A u \in DOMAIN trips' : trips'[u] \in Trip
    BY <1>2, CascadeType DEF Edit
  <2>3. task' \in [Tasks -> Task] /\ Busy'
    BY <1>2, FreshTask, StartTyped DEF Edit
  <2>4. ops' \in [Ops -> Nat]
    BY <1>2, CountType DEF Edit, Ops
  <2> QED
    BY <1>2, <2>1, <2>2, <2>3, <2>4 DEF Edit
<1>3. ASSUME NEW t \in Tasks, EditNothing(t) PROVE Typed'
  <2>1. task' \in [Tasks -> Task] /\ Busy'
    BY <1>3, FreshTask, StartTyped DEF EditNothing
  <2>2. ops' \in [Ops -> Nat]
    BY <1>3, CountType DEF EditNothing, Ops
  <2> QED
    BY <1>3, <2>1, <2>2 DEF EditNothing, RouteTypeOK
<1>4. ASSUME NEW t \in Tasks, StartRefresh(t) PROVE Typed'
  <2>1. task' \in [Tasks -> Task] /\ Busy'
    BY <1>4, FreshTask, StartTyped DEF StartRefresh
  <2> QED
    BY <1>4, <2>1 DEF StartRefresh, RouteTypeOK
<1>5. ASSUME NEW t \in Tasks, StartRetry(t) PROVE Typed'
  <2>1. PICK f \in DOMAIN processed : Start(t, [Idle EXCEPT !.pc = "forget", !.file = f])
    BY <1>5 DEF StartRetry
  <2> DEFINE k == [Idle EXCEPT !.pc = "forget", !.file = f]
  <2>2. k \in Task /\ BusyAt(k)
    BY IdleType DEF Idle, Task, BusyAt, FileSteps
  <2>3. task' \in [Tasks -> Task] /\ Busy'
    BY <2>1, <2>2, StartTyped
  <2>4. ops' \in [Ops -> Nat]
    BY <1>5, CountType DEF StartRetry, Ops
  <2> QED
    BY <1>5, <2>3, <2>4 DEF StartRetry, RouteTypeOK
<1>6. ASSUME NEW t \in Tasks, StartReprocessTrip(t) PROVE Typed'
  <2>1. PICK u \in DOMAIN trips : Start(t, [Idle EXCEPT !.pc = "template", !.trip = u])
    BY <1>6 DEF StartReprocessTrip
  <2> DEFINE k == [Idle EXCEPT !.pc = "template", !.trip = u]
  <2>2. k \in Task /\ BusyAt(k)
    BY IdleType DEF Idle, Task, BusyAt, FileSteps, ReprocessSteps
  <2>3. task' \in [Tasks -> Task] /\ Busy'
    BY <2>1, <2>2, StartTyped
  <2>4. ops' \in [Ops -> Nat]
    BY <1>6, CountType DEF StartReprocessTrip, Ops
  <2> QED
    BY <1>6, <2>3, <2>4 DEF StartReprocessTrip, RouteTypeOK
<1>7. CASE Arrive
  BY <1>7 DEF Arrive, RouteTypeOK, Busy
<1>8. CASE CreateEmptyRoute
  BY <1>8, CreateKeepsType DEF CreateEmptyRoute, Busy
<1>9. CASE UserDeletesTrip
  <2>1. PICK u \in DOMAIN trips : DeleteTrip(u) /\ deleted' = deleted \cup {u}
    BY <1>9 DEF UserDeletesTrip
  <2>2. ops' \in [Ops -> Nat]
    BY <1>9, CountType DEF UserDeletesTrip, Ops
  <2> QED
    BY <1>9, <2>1, <2>2, DeleteTripType DEF UserDeletesTrip, RouteTypeOK, Busy
<1>10. CASE Crash
  <2>1. ops' \in [Ops -> Nat]
    BY <1>10, CountType DEF Crash, Ops
  <2>2. algo' \in Algos
    BY <1>10 DEF Crash
  <2> QED
    BY <1>10, <2>1, <2>2, RestartTyped DEF Crash, Restart, RouteTypeOK
<1>11. CASE RestoreCutOff
  <2>1. RouteTypeOK'
    BY <1>11, EditKeepsType DEF RestoreCutOff, EditRoute
  <2>2. DOMAIN trips' = DOMAIN trips /\ \A u \in DOMAIN trips' : trips'[u] \in Trip
    BY <1>11, CascadeType DEF RestoreCutOff
  <2>3. ops' \in [Ops -> Nat]
    BY <1>11, CountType DEF RestoreCutOff, Ops
  <2> QED
    BY <1>11, <2>1, <2>2, <2>3 DEF RestoreCutOff, Busy
<1> QED
  BY <1>1, <1>2, <1>3, <1>4, <1>5, <1>6, <1>7, <1>8, <1>9, <1>10, <1>11

(* One step of the specification keeps the state well formed. *)
LEMMA TypedStep ==
  ASSUME Typed, [Next]_vars
  PROVE  Typed'
<1>1. CASE \E t \in Tasks : TaskStep(t)
  BY <1>1, TaskStepTyped
<1>2. CASE ~ \E t \in Tasks : TaskStep(t)
  <2>1. CASE Next
    BY <1>2, <2>1, RequestTyped DEF Next
  <2>2. CASE UNCHANGED vars
    BY <2>2 DEF vars, routeVars, build, dbVars, Typed, TypeOK, RouteTypeOK, Busy
  <2> QED
    BY <2>1, <2>2
<1> QED
  BY <1>1, <1>2

(* Type correctness for every instance, restarts and panics included. *)
THEOREM TypeCorrect == Spec => []TypeOK
<1>1. Typed /\ [Next]_vars => Typed'
  BY TypedStep
<1>2. Typed => TypeOK
  BY DEF Typed
<1> QED
  BY InitTyped, <1>1, <1>2, PTL DEF Spec

-----------------------------------------------------------------------------
(* Fresh trips hold current measurements *)

(* The numbers the argument compares. *)
LEMMA Numbers ==
  ASSUME Typed
  PROVE  /\ version \in Nat /\ algo \in Nat
         /\ \A t \in Tasks : task[t] \in Task /\ task[t].version \in Nat
         /\ \A u \in DOMAIN trips : trips[u].version \in Nat /\ trips[u].algo \in Nat
BY TrackerAssumptions DEF Typed, TypeOK, RouteTypeOK, Task, Trip

(* A task that reads nothing ahead of the route leaves the snapshots sound. *)
LEMMA BecomeRead ==
  ASSUME Typed, Snapshots, NEW t \in Tasks, NEW k, Become(t, k), ReadAt(k),
         UNCHANGED <<version, wps>>
  PROVE  Snapshots'
BY DEF Typed, TypeOK, Snapshots, ReadAt, Become

(* A goroutine that begins has read nothing yet. *)
LEMMA NothingRead ==
  ASSUME Typed, NEW k, k.version = 0, k.pc \notin SnapshotSteps
  PROVE  ReadAt(k)
BY Numbers DEF ReadAt

(* What a step of a goroutine does to the snapshots. *)
LEMMA TaskStepSnapshots ==
  ASSUME Typed, Snapshots, NEW t \in Tasks, TaskStep(t)
  PROVE  Snapshots' /\ UNCHANGED <<version, wps, algo>>
<1> USE DEF routeVars, build, dbVars, SnapshotSteps
<1>0. UNCHANGED <<version, wps, algo>>
  BY DEF TaskStep, Forget, TryLock, ListNewFiles, NextFile, LoadRoute, MeasureFile,
         SaveNewTrip, MarkProcessed, ReadVersion, ReadWaypoints, ListStaleTrips,
         NextTrip, WriteTrip
<1>1. task[t] \in Task /\ ReadAt(task[t]) /\ version \in Nat
  BY Numbers DEF Snapshots
<1>2. ReadAt(Idle) /\ \A pc \in {"lock", "list", "template"} : ReadAt([Idle EXCEPT !.pc = pc])
  BY NothingRead DEF Idle
<1>3. ASSUME Return(t) PROVE Snapshots'
  BY <1>0, <1>2, <1>3, BecomeRead DEF Return
<1>4. ASSUME NEW s, NEW u, Outcome(t, s, u) PROVE Snapshots'
  <2> DEFINE k == [task[t] EXCEPT !.pc = "mark", !.status = s, !.trip = u, !.wps = <<>>]
  <2>1. ReadAt(k)
    BY <1>1 DEF ReadAt, Task
  <2> QED
    BY <1>0, <1>4, <2>1, BecomeRead DEF Outcome
<1>5. ASSUME NEW pc \in {"lock", "template"}, Goto(t, pc) PROVE Snapshots'
  <2>1. ReadAt([task[t] EXCEPT !.pc = pc])
    BY <1>1 DEF ReadAt, Task
  <2> QED
    BY <1>0, <1>5, <2>1, BecomeRead DEF Goto
<1>6. CASE Forget(t)
  BY <1>5, <1>6 DEF Forget
<1>7. CASE TryLock(t)
  BY <1>0, <1>2, <1>3, <1>7, BecomeRead DEF TryLock
<1>8. CASE ListNewFiles(t)
  <2> DEFINE k == [task[t] EXCEPT !.pc = "next", !.queue = inbox \ DOMAIN processed]
  <2>1. ReadAt(k)
    BY <1>1 DEF ReadAt, Task
  <2> QED
    BY <1>0, <1>8, <2>1, BecomeRead DEF ListNewFiles
<1>9. CASE NextFile(t)
  <2>1. ASSUME NEW f PROVE ReadAt([task[t] EXCEPT !.pc = "load", !.file = f, !.queue = @ \ {f}])
    BY <1>1 DEF ReadAt, Task
  <2> QED
    BY <1>0, <1>5, <1>9, <2>1, BecomeRead DEF NextFile
<1>10. CASE LoadRoute(t)
  <2>1. ReadAt([task[t] EXCEPT !.pc = "measure", !.version = version])
    BY <1>1 DEF ReadAt, Task
  <2> QED
    BY <1>0, <1>4, <1>10, <2>1, BecomeRead DEF LoadRoute
<1>11. CASE MeasureFile(t)
  <2>1. ReadAt([task[t] EXCEPT !.pc = "save", !.wps = wps])
    BY <1>1 DEF ReadAt, Task
  <2> QED
    BY <1>0, <1>4, <1>11, <2>1, BecomeRead DEF MeasureFile
<1>12. CASE SaveNewTrip(t)
  BY <1>4, <1>12 DEF SaveNewTrip
<1>13. CASE MarkProcessed(t)
  <2>1. ReadAt([Idle EXCEPT !.pc = "next", !.queue = task[t].queue])
    BY NothingRead DEF Idle
  <2> QED
    BY <1>0, <1>13, <2>1, BecomeRead DEF MarkProcessed
<1>14. CASE ReadVersion(t)
  <2>1. ReadAt([task[t] EXCEPT !.pc = "waypoints", !.version = version])
    BY <1>1 DEF ReadAt, Task
  <2> QED
    BY <1>0, <1>3, <1>14, <2>1, BecomeRead DEF ReadVersion
<1>15. CASE ReadWaypoints(t)
  <2>1. /\ ReadAt([task[t] EXCEPT !.pc = "stale", !.wps = wps])
        /\ ReadAt([task[t] EXCEPT !.pc = "each", !.wps = wps,
                                  !.stale = {task[t].trip}, !.trip = NoTrip])
    BY <1>1 DEF ReadAt, Task
  <2> QED
    BY <1>0, <1>15, <2>1, BecomeRead DEF ReadWaypoints
<1>16. CASE ListStaleTrips(t)
  <2>1. ASSUME NEW S PROVE ReadAt([task[t] EXCEPT !.pc = "each", !.stale = S])
    BY <1>1, <1>16 DEF ReadAt, Task, ListStaleTrips
  <2> QED
    BY <1>0, <1>16, <2>1, BecomeRead DEF ListStaleTrips
<1>17. CASE NextTrip(t)
  <2>1. ASSUME NEW u, NEW f
        PROVE  /\ ReadAt([task[t] EXCEPT !.pc = "write", !.stale = @ \ {u}, !.trip = u, !.file = f])
               /\ ReadAt([task[t] EXCEPT !.stale = @ \ {u}])
    BY <1>1, <1>17 DEF ReadAt, Task, NextTrip
  <2> QED
    BY <1>0, <1>3, <1>17, <2>1, BecomeRead DEF NextTrip
<1>18. CASE WriteTrip(t)
  <2>1. ReadAt([task[t] EXCEPT !.pc = "each", !.trip = NoTrip, !.file = NoFile])
    BY <1>1, <1>18 DEF ReadAt, Task, WriteTrip
  <2> QED
    BY <1>0, <1>18, <2>1, BecomeRead DEF WriteTrip
<1> QED
  BY <1>0, <1>6, <1>7, <1>8, <1>9, <1>10, <1>11, <1>12, <1>13, <1>14, <1>15, <1>16, <1>17,
     <1>18 DEF TaskStep

(* Two facts about one row of the trips table. *)
FreshRow(trip) ==
  /\ trip.version <= version
  /\ trip.algo <= algo
  /\ (trip.version = version /\ trip.algo = algo) =>
       trip.on = wps /\ trip.crossings = Crossed(algo, trip.file, wps)

LEMMA FreshRows == (NoneAhead /\ FreshIsCurrent) <=> \A u \in DOMAIN trips : FreshRow(trips[u])
BY DEF NoneAhead, FreshIsCurrent, FreshRow

(* A trip measured from a sound snapshot is fresh only if it is current. *)
LEMMA MeasuredFresh ==
  ASSUME Typed, Snapshots, NEW t \in Tasks, task[t].pc \in SnapshotSteps, NEW f
  PROVE  FreshRow(Measured(t, f))
BY Numbers DEF Snapshots, ReadAt, FreshRow, Measured

(* What a step of a goroutine does to the stored trips. *)
LEMMA TaskStepFresh ==
  ASSUME FreshInv, NEW t \in Tasks, TaskStep(t)
  PROVE  NoneAhead' /\ FreshIsCurrent'
<1>1. UNCHANGED <<version, wps, algo>>
  BY TaskStepSnapshots DEF FreshInv
<1>2. \A u \in DOMAIN trips : FreshRow(trips[u])
  BY FreshRows DEF FreshInv
<1>3. \A u \in DOMAIN trips' : FreshRow(trips'[u])
  <2>1. CASE UNCHANGED trips
    BY <1>2, <2>1
  <2>2. ASSUME NEW u, NEW f, task[t].pc \in SnapshotSteps,
               trips' = Upsert(trips, u, Measured(t, f))
        PROVE  \A x \in DOMAIN trips' : FreshRow(trips'[x])
    BY <1>2, <2>2, MeasuredFresh DEF FreshInv, Upsert
  <2>3. CASE SaveNewTrip(t)
    BY <2>1, <2>2, <2>3 DEF SaveNewTrip, SnapshotSteps
  <2>4. CASE WriteTrip(t)
    <3>1. CASE DeleteTrip(task[t].trip)
      BY <1>2, <3>1 DEF DeleteTrip, Without
    <3>2. CASE ~ DeleteTrip(task[t].trip)
      BY <2>1, <2>2, <2>4, <3>2 DEF WriteTrip, SnapshotSteps
    <3> QED
      BY <3>1, <3>2
  <2>5. CASE ~ SaveNewTrip(t) /\ ~ WriteTrip(t)
    BY <2>1, <2>5
       DEF TaskStep, Forget, TryLock, ListNewFiles, NextFile, LoadRoute, MeasureFile,
           MarkProcessed, ReadVersion, ReadWaypoints, ListStaleTrips, NextTrip, build, dbVars
  <2> QED
    BY <2>3, <2>4, <2>5
<1> QED
  BY <1>1, <1>3 DEF NoneAhead, FreshIsCurrent, FreshRow

(* A committed edit puts every snapshot and every trip behind the route. *)
LEMMA EditFresh ==
  ASSUME FreshInv, EditRoute, CascadeWaypoints, UNCHANGED algo,
         \A s \in Tasks : task'[s] = task[s] \/ task'[s].version = 0
  PROVE  Snapshots' /\ NoneAhead' /\ FreshIsCurrent'
<1>1. version' \in Nat /\ version' > version /\ algo' = algo
  BY EditRaisesVersion DEF FreshInv, Typed, TypeOK
<1>2. ASSUME NEW s \in Tasks
      PROVE  task'[s].version < version' /\ task'[s].version <= version'
  BY <1>1, Numbers DEF FreshInv, Snapshots, ReadAt
<1>3. ASSUME NEW u \in DOMAIN trips'
      PROVE  trips'[u].version < version' /\ trips'[u].version <= version'
             /\ trips'[u].algo <= algo'
  <2>1. u \in DOMAIN trips /\ trips'[u].version = trips[u].version
        /\ trips'[u].algo = trips[u].algo
    BY DEF FreshInv, Typed, TypeOK, Trip, CascadeWaypoints
  <2> QED
    BY <1>1, <2>1, Numbers DEF FreshInv, NoneAhead
<1>4. version' \in Nat /\ \A s \in Tasks : task'[s].version # version'
  BY <1>1, <1>2
<1>5. \A u \in DOMAIN trips' : trips'[u].version # version'
  BY <1>1, <1>3
<1> QED
  BY <1>2, <1>3, <1>4, <1>5 DEF Snapshots, ReadAt, NoneAhead, FreshIsCurrent

(* Creating the empty route raises the version and reads nothing. *)
LEMMA CreateFresh ==
  ASSUME FreshInv, CreateEmptyRoute
  PROVE  Snapshots' /\ NoneAhead' /\ FreshIsCurrent'
<1>1. version = 0 /\ version' = 1 /\ UNCHANGED <<wps, algo, trips, task>>
  BY DEF CreateEmptyRoute, CreateRoute, build, dbVars
<1> QED
  BY <1>1, Numbers DEF FreshInv, Snapshots, ReadAt, NoneAhead, FreshIsCurrent

(* A restart drops every snapshot; a newer build makes every trip stale. *)
LEMMA RestartFresh ==
  ASSUME FreshInv, Restart, algo' \in Nat, algo' >= algo
  PROVE  Snapshots' /\ NoneAhead' /\ FreshIsCurrent'
<1>1. UNCHANGED <<version, wps, trips>>
  BY DEF Restart, routeVars, build, dbVars
<1>2. \A s \in Tasks : task'[s].version = 0 /\ task'[s].pc \notin SnapshotSteps
  BY DEF Restart, Idle, SnapshotSteps
<1>3. Snapshots'
  BY <1>1, <1>2, Numbers DEF FreshInv, Snapshots, ReadAt
<1>4. NoneAhead'
  BY <1>1, Numbers DEF FreshInv, NoneAhead
<1>5. FreshIsCurrent'
  <2>1. CASE algo' = algo
    BY <1>1, <2>1 DEF FreshInv, FreshIsCurrent
  <2>2. CASE algo' > algo
    <3>1. \A u \in DOMAIN trips' : trips'[u].algo # algo'
      BY <1>1, <2>2, Numbers DEF FreshInv, NoneAhead
    <3> QED
      BY <3>1 DEF FreshIsCurrent
  <2> QED
    BY <2>1, <2>2, Numbers DEF FreshInv
<1> QED
  BY <1>3, <1>4, <1>5

(* A request that only starts a goroutine leaves trips and route alone. *)
LEMMA StartFresh ==
  ASSUME FreshInv, NEW t \in Tasks, NEW k, k.version = 0, k.pc \notin SnapshotSteps,
         Start(t, k), UNCHANGED <<version, wps, algo, trips>>
  PROVE  Snapshots' /\ NoneAhead' /\ FreshIsCurrent'
<1>1. Snapshots'
  BY NothingRead, BecomeRead DEF FreshInv, Start
<1> QED
  BY <1>1 DEF FreshInv, NoneAhead, FreshIsCurrent

(* Every step keeps the invariant behind FreshIsCurrent. *)
LEMMA FreshStep ==
  ASSUME FreshInv, [Next]_vars
  PROVE  FreshInv'
<1> USE DEF routeVars, build, dbVars, Idle, SnapshotSteps
<1>0. Typed' /\ Typed
  BY TypedStep DEF FreshInv
<1> SUFFICES Snapshots' /\ NoneAhead' /\ FreshIsCurrent'
  BY <1>0 DEF FreshInv
<1>1. ASSUME NEW t \in Tasks, TaskStep(t) PROVE Snapshots' /\ NoneAhead' /\ FreshIsCurrent'
  BY <1>1, TaskStepSnapshots, TaskStepFresh DEF FreshInv
<1>2. ASSUME NEW t \in Tasks, Panic(t) PROVE Snapshots' /\ NoneAhead' /\ FreshIsCurrent'
  BY <1>0, <1>2, RestartFresh, Numbers DEF Panic
<1>3. ASSUME NEW t \in Tasks, Edit(t) PROVE Snapshots' /\ NoneAhead' /\ FreshIsCurrent'
  <2>1. \A s \in Tasks : task'[s] = task[s] \/ task'[s].version = 0
    BY <1>3 DEF FreshInv, Typed, TypeOK, Edit, Start, Become
  <2> QED
    BY <1>3, <2>1, EditFresh DEF Edit
<1>4. ASSUME NEW t \in Tasks, EditNothing(t)
      PROVE  Snapshots' /\ NoneAhead' /\ FreshIsCurrent'
  BY <1>4, StartFresh DEF EditNothing
<1>5. ASSUME NEW t \in Tasks, StartRefresh(t)
      PROVE  Snapshots' /\ NoneAhead' /\ FreshIsCurrent'
  BY <1>5, StartFresh DEF StartRefresh
<1>6. ASSUME NEW t \in Tasks, StartRetry(t)
      PROVE  Snapshots' /\ NoneAhead' /\ FreshIsCurrent'
  BY <1>6, StartFresh DEF StartRetry
<1>7. ASSUME NEW t \in Tasks, StartReprocessTrip(t)
      PROVE  Snapshots' /\ NoneAhead' /\ FreshIsCurrent'
  BY <1>7, StartFresh DEF StartReprocessTrip
<1>8. CASE Arrive \/ UNCHANGED vars
  BY <1>8 DEF Arrive, vars, FreshInv, Snapshots, ReadAt, NoneAhead, FreshIsCurrent
<1>9. CASE CreateEmptyRoute
  BY <1>9, CreateFresh
<1>10. CASE UserDeletesTrip
  <2>1. \A u \in DOMAIN trips' : u \in DOMAIN trips /\ trips'[u] = trips[u]
    BY <1>10 DEF UserDeletesTrip, DeleteTrip, Without
  <2>2. UNCHANGED <<version, wps, algo, task>>
    BY <1>10 DEF UserDeletesTrip
  <2> QED
    BY <2>1, <2>2 DEF FreshInv, Snapshots, ReadAt, NoneAhead, FreshIsCurrent
<1>11. CASE Crash
  BY <1>0, <1>11, RestartFresh, TrackerAssumptions DEF Crash
<1>12. CASE RestoreCutOff
  BY <1>12, EditFresh DEF RestoreCutOff, EditRoute
<1> QED
  BY <1>1, <1>2, <1>3, <1>4, <1>5, <1>6, <1>7, <1>8, <1>9, <1>10, <1>11, <1>12 DEF Next

(***************************************************************************)
(* A trip stored with the current version and algorithm holds current      *)
(* measurements: comparing versions, as StaleTripIDs does, misses nothing. *)
(***************************************************************************)
THEOREM FreshTripsAreCurrent == Spec => []FreshIsCurrent
<1>1. Init => FreshInv
  BY InitTyped
     DEF Init, RouteInit, FreshInv, Snapshots, ReadAt, Idle, SnapshotSteps, NoneAhead,
         FreshIsCurrent
<1>2. FreshInv /\ [Next]_vars => FreshInv'
  BY FreshStep
<1>3. FreshInv => FreshIsCurrent
  BY DEF FreshInv
<1> QED
  BY <1>1, <1>2, <1>3, PTL DEF Spec

-----------------------------------------------------------------------------
(* Only unseen files are imported *)

(* A task at a step of the import loop holds the lock and has unseen files. *)
ImportsAt(t, k) ==
  /\ k.pc \in RefreshSteps => refreshMu = t /\ k.queue \cap DOMAIN processed = {}
  /\ k.pc \in ImportSteps => k.file \notin DOMAIN processed /\ k.file \notin k.queue

LEMMA ImportsAtAll == (Exclusive /\ Unseen) <=> \A t \in Tasks : ImportsAt(t, task[t])
BY DEF Exclusive, Unseen, ImportsAt, ImportSteps, RefreshSteps

(***************************************************************************)
(* A step of one task leaves the others' imports alone as long as it does  *)
(* not take the lock from them and only the lock's holder records a file.  *)
(***************************************************************************)
LEMMA ImportFrame ==
  ASSUME ImportInv, NEW t \in Tasks, NEW k, Become(t, k), ImportsAt(t, k)',
         refreshMu' = refreshMu \/ refreshMu = NoTask \/ refreshMu = t,
         DOMAIN processed' \subseteq DOMAIN processed \/ task[t].pc \in RefreshSteps
  PROVE  Exclusive' /\ Unseen'
<1>1. \A s \in Tasks : ImportsAt(s, task[s])
  BY ImportsAtAll DEF ImportInv
<1>2. task'[t] = k /\ \A s \in Tasks \ {t} : task'[s] = task[s]
  BY DEF ImportInv, Typed, TypeOK, Become
<1>3. ASSUME NEW s \in Tasks \ {t}
      PROVE  ImportsAt(s, task[s])'
  <2>1. CASE task[s].pc \notin RefreshSteps
    BY <1>2, <2>1 DEF ImportsAt, ImportSteps, RefreshSteps
  <2>2. CASE task[s].pc \in RefreshSteps
    <3>1. refreshMu = s /\ refreshMu # NoTask /\ refreshMu # t
      BY <1>1, <2>2, TrackerAssumptions DEF ImportsAt
    <3>2. task[t].pc \notin RefreshSteps
      BY <1>1, <3>1 DEF ImportsAt
    <3>3. refreshMu' = s /\ DOMAIN processed' \subseteq DOMAIN processed
      BY <3>1, <3>2
    <3> QED
      BY <1>1, <1>2, <3>3 DEF ImportsAt
  <2> QED
    BY <2>1, <2>2
<1>4. \A s \in Tasks : ImportsAt(s, task[s])'
  BY <1>2, <1>3
<1> QED
  BY <1>4 DEF Exclusive, Unseen, ImportsAt, ImportSteps, RefreshSteps

(* Every step of a goroutine keeps imports exclusive and unseen. *)
LEMMA TaskStepImports ==
  ASSUME ImportInv, NEW t \in Tasks, TaskStep(t)
  PROVE  Exclusive' /\ Unseen'
<1> USE DEF build, dbVars, ImportsAt, RefreshSteps, ImportSteps
<1>0. task[t] \in Task /\ ImportsAt(t, task[t])
  BY ImportsAtAll DEF ImportInv, Typed, TypeOK
<1>1. ASSUME Return(t), UNCHANGED processed PROVE Exclusive' /\ Unseen'
  BY <1>1, ImportFrame DEF Return, Idle
<1>2. ASSUME NEW s, NEW u, Outcome(t, s, u), task[t].pc \in ImportSteps,
             UNCHANGED <<processed, refreshMu>>
      PROVE  Exclusive' /\ Unseen'
  <2> DEFINE k == [task[t] EXCEPT !.pc = "mark", !.status = s, !.trip = u, !.wps = <<>>]
  <2>1. k.pc = "mark" /\ k.queue = task[t].queue /\ k.file = task[t].file
    BY <1>0 DEF Task
  <2> QED
    BY <1>0, <1>2, <2>1, ImportFrame DEF Outcome
<1>3. ASSUME NEW k, Become(t, k), UNCHANGED <<processed, refreshMu>>,
             k.pc \in ReprocessSteps
      PROVE  Exclusive' /\ Unseen'
  BY <1>3, ImportFrame DEF ReprocessSteps
<1>4. ASSUME NEW k, Become(t, k), UNCHANGED <<processed, refreshMu>>,
             task[t].pc \in ImportSteps, k.pc \in ImportSteps,
             k.queue = task[t].queue, k.file = task[t].file
      PROVE  Exclusive' /\ Unseen'
  BY <1>0, <1>4, ImportFrame
<1>5. CASE Forget(t)
  <2>1. [task[t] EXCEPT !.pc = "lock"].pc = "lock"
    BY <1>0 DEF Task
  <2> QED
    BY <1>5, <2>1, ImportFrame DEF Forget, Goto, Without
<1>6. CASE TryLock(t)
  <2>1. CASE refreshMu = NoTask
    <3> DEFINE k == [Idle EXCEPT !.pc = "list"]
    <3>1. k.pc = "list" /\ k.queue = {}
      BY DEF Idle
    <3> QED
      BY <1>6, <2>1, <3>1, ImportFrame DEF TryLock
  <2>2. CASE refreshMu # NoTask
    BY <1>1, <1>6, <2>2 DEF TryLock
  <2> QED
    BY <2>1, <2>2
<1>7. CASE ListNewFiles(t)
  <2> DEFINE k == [task[t] EXCEPT !.pc = "next", !.queue = inbox \ DOMAIN processed]
  <2>1. k.pc = "next" /\ k.queue \cap DOMAIN processed = {}
    BY <1>0 DEF Task
  <2> QED
    BY <1>0, <1>7, <2>1, ImportFrame DEF ListNewFiles
<1>8. CASE NextFile(t)
  <2>1. CASE task[t].queue = {} /\ Goto(t, "template")
    BY <1>0, <1>3, <1>8, <2>1 DEF NextFile, Goto, Task, ReprocessSteps
  <2>2. ASSUME NEW f \in task[t].queue,
               Become(t, [task[t] EXCEPT !.pc = "load", !.file = f, !.queue = @ \ {f}])
        PROVE  Exclusive' /\ Unseen'
    <3> DEFINE k == [task[t] EXCEPT !.pc = "load", !.file = f, !.queue = @ \ {f}]
    <3>1. k.pc = "load" /\ k.file = f /\ k.queue = task[t].queue \ {f}
      BY <1>0 DEF Task
    <3> QED
      BY <1>0, <1>8, <2>2, <3>1, ImportFrame DEF NextFile
  <2> QED
    BY <1>8, <2>1, <2>2 DEF NextFile
<1>9. CASE LoadRoute(t)
  BY <1>0, <1>2, <1>4, <1>9 DEF LoadRoute, Task
<1>10. CASE MeasureFile(t)
  BY <1>0, <1>2, <1>4, <1>10 DEF MeasureFile, Task
<1>11. CASE SaveNewTrip(t)
  BY <1>2, <1>11 DEF SaveNewTrip
<1>12. CASE MarkProcessed(t)
  <2> DEFINE k == [Idle EXCEPT !.pc = "next", !.queue = task[t].queue]
  <2>1. k.pc = "next" /\ k.queue = task[t].queue
    BY DEF Idle
  <2>2. DOMAIN processed' \subseteq DOMAIN processed \cup {task[t].file}
    BY <1>12 DEF MarkProcessed, Upsert
  <2> QED
    BY <1>0, <1>12, <2>1, <2>2, ImportFrame DEF MarkProcessed
<1>13. CASE ReadVersion(t)
  BY <1>0, <1>1, <1>3, <1>13 DEF ReadVersion, Task, ReprocessSteps
<1>14. CASE ReadWaypoints(t)
  BY <1>0, <1>3, <1>14 DEF ReadWaypoints, Task, ReprocessSteps
<1>15. CASE ListStaleTrips(t)
  BY <1>0, <1>3, <1>15 DEF ListStaleTrips, Task, ReprocessSteps
<1>16. CASE NextTrip(t)
  BY <1>0, <1>1, <1>3, <1>16 DEF NextTrip, Task, ReprocessSteps
<1>17. CASE WriteTrip(t)
  <2> DEFINE k == [task[t] EXCEPT !.pc = "each", !.trip = NoTrip, !.file = NoFile]
  <2>1. k.pc = "each"
    BY <1>0 DEF Task
  <2>2. DOMAIN processed' = DOMAIN processed
    BY <1>17 DEF WriteTrip, DeleteTrip
  <2> QED
    BY <1>17, <2>1, <2>2, ImportFrame DEF WriteTrip
<1> QED
  BY <1>5, <1>6, <1>7, <1>8, <1>9, <1>10, <1>11, <1>12, <1>13, <1>14, <1>15, <1>16, <1>17
     DEF TaskStep

(* Every step keeps the invariant behind ImportsOnlyUnseen. *)
LEMMA ImportStep ==
  ASSUME ImportInv, [Next]_vars
  PROVE  ImportInv'
<1> USE DEF build, dbVars, Idle, RefreshSteps, ImportSteps
<1>0. Typed'
  BY TypedStep DEF ImportInv
<1> SUFFICES Exclusive' /\ Unseen'
  BY <1>0 DEF ImportInv
<1>1. ASSUME NEW t \in Tasks, NEW k, Start(t, k), k.pc \notin RefreshSteps,
             UNCHANGED <<processed, refreshMu>>
      PROVE  Exclusive' /\ Unseen'
  BY <1>1, ImportFrame DEF Start, ImportsAt
<1>2. ASSUME Restart PROVE Exclusive' /\ Unseen'
  BY <1>2 DEF Restart, Exclusive, Unseen
<1>3. ASSUME UNCHANGED <<task, refreshMu>>, DOMAIN processed' \subseteq DOMAIN processed
      PROVE  Exclusive' /\ Unseen'
  BY <1>3 DEF ImportInv, Exclusive, Unseen
<1>4. CASE \E t \in Tasks : TaskStep(t)
  BY <1>4, TaskStepImports
<1>5. ASSUME NEW t \in Tasks, Panic(t) \/ Edit(t) \/ EditNothing(t) \/ StartRefresh(t)
                              \/ StartRetry(t) \/ StartReprocessTrip(t)
      PROVE  Exclusive' /\ Unseen'
  BY <1>1, <1>2, <1>5
     DEF Panic, Edit, EditNothing, StartRefresh, StartRetry, StartReprocessTrip
<1>6. CASE Arrive \/ CreateEmptyRoute \/ RestoreCutOff \/ UserDeletesTrip \/ UNCHANGED vars
  BY <1>3, <1>6 DEF Arrive, CreateEmptyRoute, RestoreCutOff, UserDeletesTrip, DeleteTrip, vars
<1>7. CASE Crash
  BY <1>2, <1>7 DEF Crash
<1> QED
  BY <1>4, <1>5, <1>6, <1>7 DEF Next

(***************************************************************************)
(* No interleaving of refreshes, retries, edits, deletions and restarts    *)
(* creates a trip from a file recorded as seen.                            *)
(***************************************************************************)
THEOREM OnlyUnseenAreImported == Spec => ImportsOnlyUnseen
<1> DEFINE New == \A u \in TripIds :
       (source[u] = NoFile /\ source'[u] # NoFile) => source'[u] \notin DOMAIN processed
<1>1. Init => ImportInv
  BY InitTyped DEF Init, ImportInv, Exclusive, Unseen, Idle, RefreshSteps, ImportSteps
<1>2. ImportInv /\ [Next]_vars => ImportInv'
  BY ImportStep
<1>3. ImportInv /\ [Next]_vars => [New]_vars
  <2> SUFFICES ASSUME ImportInv, Next PROVE New
    OBVIOUS
  <2>1. ASSUME NEW t \in Tasks, SaveNewTrip(t) PROVE New
    <3>1. task[t].file \notin DOMAIN processed
      BY <2>1 DEF SaveNewTrip, ImportInv, Unseen, ImportSteps
    <3> QED
      BY <2>1, <3>1 DEF SaveNewTrip, ImportInv, Typed, TypeOK
  <2>2. CASE UNCHANGED source
    BY <2>2
  <2>3. ASSUME NEW t \in Tasks, TaskStep(t) PROVE New
    BY <2>1, <2>2, <2>3
       DEF TaskStep, Forget, TryLock, ListNewFiles, NextFile, LoadRoute, MeasureFile,
           MarkProcessed, ReadVersion, ReadWaypoints, ListStaleTrips, NextTrip, WriteTrip,
           build, dbVars
  <2>4. CASE ~ \E t \in Tasks : TaskStep(t)
    BY <2>2, <2>4
       DEF Next, Panic, Restart, Edit, EditNothing, StartRefresh, StartRetry,
           StartReprocessTrip, Arrive, CreateEmptyRoute, RestoreCutOff, UserDeletesTrip,
           Crash, build, dbVars
  <2> QED
    BY <2>3, <2>4
<1> QED
  BY <1>1, <1>2, <1>3, PTL DEF Spec, ImportsOnlyUnseen

-----------------------------------------------------------------------------
(* Records and retained files agree with the trips *)

(* What is retained and where trips came from only ever grows. *)
Grows ==
  /\ blobs \subseteq blobs'
  /\ \A u \in TripIds : source[u] # NoFile => source'[u] = source[u]

(* A task that goes on with a trip and a file that belong together leaves  *)
(* the others with theirs.                                                 *)
LEMMA HeldFrame ==
  ASSUME RecordInv, Grows, NEW t \in Tasks, NEW k, Become(t, k), HeldAt(k)'
  PROVE  Held'
<1>1. task'[t] = k /\ \A s \in Tasks \ {t} : task'[s] = task[s]
  BY DEF RecordInv, Typed, TypeOK, Become
<1>2. ASSUME NEW s \in Tasks \ {t}
      PROVE  HeldAt(task[s])'
  <2>1. HeldAt(task[s]) /\ BusyAt(task[s])
    BY DEF RecordInv, Held, Typed, Busy
  <2> QED
    BY <1>1, <2>1, TrackerAssumptions DEF HeldAt, BusyAt, FileSteps, ImportSteps, Grows
<1> QED
  BY <1>1, <1>2 DEF Held

(* The part of RecordInv that is about the tables alone. *)
Tables == Sourced /\ SourcesRetained /\ RecordsNameTheirTrip

(* Steps of a goroutine that leave both tables alone. *)
Quiet(t) ==
  \/ TryLock(t) \/ ListNewFiles(t) \/ NextFile(t) \/ LoadRoute(t) \/ MeasureFile(t)
  \/ ReadVersion(t) \/ ReadWaypoints(t) \/ ListStaleTrips(t) \/ NextTrip(t)

LEMMA QuietRecords ==
  ASSUME RecordInv, NEW t \in Tasks, Quiet(t)
  PROVE  Held' /\ Tables'
<1> USE DEF build, dbVars, HeldAt, ImportSteps
<1>0. task[t] \in Task /\ BusyAt(task[t]) /\ HeldAt(task[t])
  BY DEF RecordInv, Held, Typed, TypeOK, Busy
<1>1. UNCHANGED <<trips, processed, source>> /\ Grows
  BY DEF Quiet, Grows, TryLock, ListNewFiles, NextFile, LoadRoute, MeasureFile,
         ReadVersion, ReadWaypoints, ListStaleTrips, NextTrip
<1>2. Tables'
  BY <1>1 DEF RecordInv, Tables, Sourced, SourcesRetained, RecordsNameTheirTrip, Grows
<1> SUFFICES Held'
  BY <1>2
<1>3. ASSUME NEW k, Become(t, k), k.pc \notin ImportSteps \cup {"write"}
      PROVE  Held'
  BY <1>1, <1>3, HeldFrame
<1>4. ASSUME NEW k, Become(t, k), task[t].pc \in ImportSteps, k.pc \in ImportSteps,
             k.file = task[t].file, ~ (k.pc = "mark" /\ k.status = "ok")
      PROVE  Held'
  BY <1>0, <1>1, <1>4, HeldFrame DEF Grows
<1>5. ASSUME Return(t) PROVE Held'
  BY <1>3, <1>5 DEF Return, Idle
<1>6. ASSUME NEW s \in {"error", "ignored"}, Outcome(t, s, NoTrip), task[t].pc \in ImportSteps
      PROVE  Held'
  BY <1>0, <1>4, <1>6 DEF Outcome, Task
<1>7. CASE TryLock(t)
  BY <1>3, <1>5, <1>7 DEF TryLock, Idle
<1>8. CASE ListNewFiles(t)
  BY <1>0, <1>3, <1>8 DEF ListNewFiles, Task
<1>9. CASE NextFile(t)
  <2>1. CASE Goto(t, "template")
    <3>1. [task[t] EXCEPT !.pc = "template"].pc = "template"
      BY <1>0 DEF Task
    <3> QED
      BY <1>3, <2>1, <3>1 DEF Goto
  <2>2. ASSUME NEW f \in task[t].queue, blobs' = blobs \cup {f},
               Become(t, [task[t] EXCEPT !.pc = "load", !.file = f, !.queue = @ \ {f}])
        PROVE  Held'
    <3> DEFINE k == [task[t] EXCEPT !.pc = "load", !.file = f, !.queue = @ \ {f}]
    <3>1. k.pc = "load" /\ k.file = f
      BY <1>0 DEF Task
    <3>2. Become(t, k)
      BY <2>2
    <3> HIDE DEF k
    <3> QED
      BY <1>1, <2>2, <3>1, <3>2, HeldFrame
  <2> QED
    BY <1>9, <2>1, <2>2 DEF NextFile
<1>10. CASE LoadRoute(t)
  BY <1>0, <1>4, <1>6, <1>10 DEF LoadRoute, Task
<1>11. CASE MeasureFile(t)
  BY <1>0, <1>4, <1>6, <1>11 DEF MeasureFile, Task
<1>12. CASE ReadVersion(t)
  BY <1>0, <1>3, <1>5, <1>12 DEF ReadVersion, Task
<1>13. CASE ReadWaypoints(t)
  BY <1>0, <1>3, <1>13 DEF ReadWaypoints, Task
<1>14. CASE ListStaleTrips(t)
  BY <1>0, <1>3, <1>14 DEF ListStaleTrips, Task
<1>15. CASE NextTrip(t)
  <2>1. CASE Return(t)
    BY <1>5, <2>1
  <2>2. ASSUME NEW u \in DOMAIN trips, trips[u].file \in blobs,
               Become(t, [task[t] EXCEPT !.pc = "write", !.stale = @ \ {u},
                                         !.trip = u, !.file = trips[u].file])
        PROVE  Held'
    <3> DEFINE k == [task[t] EXCEPT !.pc = "write", !.stale = @ \ {u},
                                    !.trip = u, !.file = trips[u].file]
    <3>1. k.pc = "write" /\ k.file = trips[u].file /\ k.trip = u
      BY <1>0 DEF Task
    <3>2. source[u] = trips[u].file
      BY DEF RecordInv, Sourced
    <3>3. Become(t, k)
      BY <2>2
    <3> HIDE DEF k
    <3> QED
      BY <1>1, <2>2, <3>1, <3>2, <3>3, HeldFrame DEF Grows
  <2>3. ASSUME NEW u, Become(t, [task[t] EXCEPT !.stale = @ \ {u}]) PROVE Held'
    <3>1. [task[t] EXCEPT !.stale = @ \ {u}].pc = "each"
      BY <1>0, <1>15 DEF NextTrip, Task
    <3> QED
      BY <1>3, <2>3, <3>1
  <2> QED
    BY <1>15, <2>1, <2>2, <2>3 DEF NextTrip
<1> QED
  BY <1>7, <1>8, <1>9, <1>10, <1>11, <1>12, <1>13, <1>14, <1>15 DEF Quiet

(* Deleting a trip takes its name out of the records. *)
LEMMA DeleteTripRecords ==
  ASSUME RecordInv, NEW u, DeleteTrip(u), UNCHANGED <<source, blobs>>
  PROVE  Tables'
<1>1. \A x \in DOMAIN trips' : x \in DOMAIN trips /\ trips'[x] = trips[x]
  BY DEF DeleteTrip, Without
<1>2. Sourced' /\ SourcesRetained'
  BY <1>1 DEF RecordInv, Sourced, SourcesRetained
<1>3. ASSUME NEW f \in DOMAIN processed', processed'[f].trip # NoTrip
      PROVE  processed'[f].trip \in DOMAIN trips' /\ trips'[processed'[f].trip].file = f
  <2>1. f \in DOMAIN processed /\ processed[f] \in ProcessedFile
    BY DEF DeleteTrip, RecordInv, Typed, TypeOK
  <2>2. processed'[f].trip = processed[f].trip /\ processed[f].trip # u
    BY <1>3, <2>1 DEF DeleteTrip, ProcessedFile
  <2> QED
    BY <1>3, <2>1, <2>2 DEF DeleteTrip, Without, RecordInv, RecordsNameTheirTrip
<1> QED
  BY <1>2, <1>3 DEF Tables, RecordsNameTheirTrip

(* Saving a trip under the file it came from keeps the tables in agreement. *)
LEMMA UpsertRecords ==
  ASSUME RecordInv, Grows, NEW u \in TripIds, NEW m, trips' = Upsert(trips, u, m),
         UNCHANGED processed, source'[u] = m.file, m.file \in blobs,
         u \in DOMAIN trips => trips[u].file = m.file
  PROVE  Tables'
<1>1. \A x \in DOMAIN trips : source[x] = trips[x].file /\ trips[x].file \in Files
  BY DEF RecordInv, Sourced, Typed, TypeOK, Trip
<1>2. \A x \in DOMAIN trips : source'[x] = trips[x].file
  BY <1>1, TrackerAssumptions DEF Grows, RecordInv, Typed, TypeOK
<1>3. \A x \in DOMAIN trips : x \in DOMAIN trips' /\ trips'[x].file = trips[x].file
  BY DEF Upsert
<1>4. Sourced' /\ SourcesRetained'
  BY <1>2 DEF Upsert, Grows, RecordInv, Sourced, SourcesRetained
<1>5. RecordsNameTheirTrip'
  BY <1>3 DEF RecordInv, RecordsNameTheirTrip
<1> QED
  BY <1>4, <1>5 DEF Tables

(* Every step of a goroutine keeps records, files and trips in agreement. *)
LEMMA TaskStepRecords ==
  ASSUME RecordInv, NEW t \in Tasks, TaskStep(t)
  PROVE  Held' /\ Tables'
<1> USE DEF ImportSteps
<1>0. task[t] \in Task /\ BusyAt(task[t]) /\ HeldAt(task[t])
  BY DEF RecordInv, Held, Typed, TypeOK, Busy
<1>1. CASE Quiet(t)
  BY <1>1, QuietRecords
<1>2. CASE Forget(t)
  <2> DEFINE k == [task[t] EXCEPT !.pc = "lock"]
  <2>1. k.pc = "lock"
    BY <1>0 DEF Task
  <2>2. Become(t, k)
    BY <1>2 DEF Forget, Goto
  <2>3. UNCHANGED <<trips, source, blobs>> /\ Grows
    BY <1>2 DEF Forget, Grows
  <2>4. Tables'
    BY <1>2, <2>3
       DEF Forget, Without, RecordInv, Tables, Sourced, SourcesRetained, RecordsNameTheirTrip
  <2> HIDE DEF k
  <2> QED
    BY <2>1, <2>2, <2>3, <2>4, HeldFrame DEF HeldAt
<1>3. CASE SaveNewTrip(t)
  <2> DEFINE f == task[t].file
             m == Measured(t, f)
  <2>1. f \in blobs /\ f \in Files /\ m.file = f
    BY <1>0, <1>3 DEF SaveNewTrip, HeldAt, BusyAt, FileSteps, Measured
  <2>2. UNCHANGED <<processed, blobs>>
    BY <1>3 DEF SaveNewTrip
  <2>3. ASSUME NEW u \in TripIds, source[u] = NoFile, trips' = Upsert(trips, u, m),
               source' = [source EXCEPT ![u] = f], Outcome(t, "ok", u)
        PROVE  Held' /\ Tables'
    <3> DEFINE k == [task[t] EXCEPT !.pc = "mark", !.status = "ok", !.trip = u, !.wps = <<>>]
    <3>1. k.pc = "mark" /\ k.trip = u /\ k.file = f
      BY <1>0 DEF Task
    <3>2. Become(t, k)
      BY <2>3 DEF Outcome
    <3>3. source'[u] = f /\ Grows
      BY <2>2, <2>3 DEF Grows, RecordInv, Typed, TypeOK
    <3>4. u \notin DOMAIN trips
      BY <2>3, TrackerAssumptions DEF RecordInv, Sourced, Typed, TypeOK, Trip
    <3>5. Tables'
      BY <2>1, <2>2, <2>3, <3>3, <3>4, UpsertRecords
    <3> HIDE DEF k
    <3>6. Held'
      BY <2>1, <2>2, <3>1, <3>2, <3>3, HeldFrame DEF HeldAt
    <3> QED
      BY <3>5, <3>6
  <2>4. ASSUME Outcome(t, "error", NoTrip), UNCHANGED <<trips, source>>
        PROVE  Held' /\ Tables'
    <3> DEFINE k == [task[t] EXCEPT !.pc = "mark", !.status = "error", !.trip = NoTrip,
                                    !.wps = <<>>]
    <3>1. k.pc = "mark" /\ k.status = "error" /\ k.file = f
      BY <1>0 DEF Task
    <3>2. Become(t, k)
      BY <2>4 DEF Outcome
    <3>3. Grows
      BY <2>2, <2>4 DEF Grows
    <3>4. Tables'
      BY <2>2, <2>4 DEF RecordInv, Tables, Sourced, SourcesRetained, RecordsNameTheirTrip
    <3> HIDE DEF k
    <3> QED
      BY <2>1, <2>2, <3>1, <3>2, <3>3, <3>4, HeldFrame DEF HeldAt
  <2> QED
    BY <1>3, <2>3, <2>4 DEF SaveNewTrip
<1>4. CASE MarkProcessed(t)
  <2> DEFINE k == [Idle EXCEPT !.pc = "next", !.queue = task[t].queue]
             row == [status |-> task[t].status, trip |-> task[t].trip]
  <2>1. k.pc = "next"
    BY DEF Idle
  <2>2. Become(t, k) /\ UNCHANGED <<trips, source, blobs>> /\ Grows
    BY <1>4 DEF MarkProcessed, Grows
  <2>3. ASSUME row.trip # NoTrip, row.status = "ok" => row.trip \in DOMAIN trips
        PROVE  row.trip \in DOMAIN trips /\ trips[row.trip].file = task[t].file
    <3>1. task[t].status = "ok"
      BY <1>0, <1>4, <2>3 DEF MarkProcessed, BusyAt
    <3> QED
      BY <1>0, <1>4, <2>3, <3>1 DEF MarkProcessed, HeldAt, RecordInv, Sourced
  <2>4. Tables'
    BY <1>4, <2>2, <2>3
       DEF MarkProcessed, Upsert, RecordInv, Tables, Sourced, SourcesRetained,
           RecordsNameTheirTrip
  <2> HIDE DEF k
  <2> QED
    BY <2>1, <2>2, <2>4, HeldFrame DEF HeldAt
<1>5. CASE WriteTrip(t)
  <2> DEFINE k == [task[t] EXCEPT !.pc = "each", !.trip = NoTrip, !.file = NoFile]
             u == task[t].trip
             m == Measured(t, task[t].file)
  <2>1. k.pc = "each"
    BY <1>0 DEF Task
  <2>2. Become(t, k) /\ UNCHANGED <<source, blobs>> /\ Grows
    BY <1>5 DEF WriteTrip, Grows
  <2>3. u \in TripIds /\ source[u] = m.file /\ m.file \in blobs
    BY <1>0, <1>5 DEF WriteTrip, HeldAt, BusyAt, Measured
  <2>4. u \in DOMAIN trips => trips[u].file = m.file
    BY <2>3 DEF RecordInv, Sourced
  <2>5. Tables'
    <3>1. CASE DeleteTrip(u)
      BY <2>2, <3>1, DeleteTripRecords
    <3>2. CASE trips' = Upsert(trips, u, m) /\ UNCHANGED processed
      BY <2>2, <2>3, <2>4, <3>2, UpsertRecords
    <3>3. CASE UNCHANGED <<trips, processed>>
      BY <2>2, <3>3 DEF RecordInv, Tables, Sourced, SourcesRetained, RecordsNameTheirTrip
    <3> QED
      BY <1>5, <3>1, <3>2, <3>3 DEF WriteTrip
  <2> HIDE DEF k
  <2> QED
    BY <2>1, <2>2, <2>5, HeldFrame DEF HeldAt
<1> QED
  BY <1>1, <1>2, <1>3, <1>4, <1>5 DEF TaskStep, Quiet

(* Every step keeps records, files and trips in agreement. *)
LEMMA RecordStep ==
  ASSUME RecordInv, [Next]_vars
  PROVE  RecordInv'
<1> USE DEF build, dbVars, Idle
<1>0. Typed'
  BY TypedStep DEF RecordInv
<1> SUFFICES Held' /\ Tables'
  BY <1>0 DEF RecordInv, Tables
<1>1. ASSUME UNCHANGED <<trips, processed, source, blobs>>
      PROVE  Tables'
  BY <1>1 DEF RecordInv, Tables, Sourced, SourcesRetained, RecordsNameTheirTrip
<1>2. ASSUME UNCHANGED <<source, blobs>>, NEW t \in Tasks, NEW k, Start(t, k),
             k.pc \notin ImportSteps \cup {"write"}
      PROVE  Held'
  BY <1>2, HeldFrame DEF Start, HeldAt, Grows, ImportSteps
<1>3. ASSUME Restart PROVE Held' /\ Tables'
  BY <1>1, <1>3 DEF Restart, Held, HeldAt, ImportSteps
<1>4. ASSUME UNCHANGED <<source, blobs, task>>
      PROVE  Held'
  BY <1>4 DEF RecordInv, Held, HeldAt
<1>5. CASE \E t \in Tasks : TaskStep(t)
  BY <1>5, TaskStepRecords
<1>6. ASSUME NEW t \in Tasks, EditNothing(t) \/ StartRefresh(t) \/ StartRetry(t)
                              \/ StartReprocessTrip(t)
      PROVE  Held' /\ Tables'
  <2>1. Tables'
    BY <1>1, <1>6 DEF EditNothing, StartRefresh, StartRetry, StartReprocessTrip
  <2>2. Held'
    BY <1>2, <1>6
       DEF EditNothing, StartRefresh, StartRetry, StartReprocessTrip, ImportSteps
  <2> QED
    BY <2>1, <2>2
<1>7. ASSUME CascadeWaypoints, UNCHANGED <<processed, source, blobs>> PROVE Tables'
  <2>1. /\ DOMAIN trips' = DOMAIN trips
        /\ \A u \in DOMAIN trips : trips'[u].file = trips[u].file
    BY <1>7 DEF CascadeWaypoints, RecordInv, Typed, TypeOK, Trip
  <2> QED
    BY <1>7, <2>1
       DEF RecordInv, Tables, Sourced, SourcesRetained, RecordsNameTheirTrip
<1>8. CASE UserDeletesTrip
  BY <1>4, <1>8, DeleteTripRecords DEF UserDeletesTrip
<1>9. CASE Arrive \/ CreateEmptyRoute \/ UNCHANGED vars
  BY <1>1, <1>4, <1>9 DEF Arrive, CreateEmptyRoute, vars
<1>10. ASSUME NEW t \in Tasks, Panic(t) PROVE Held' /\ Tables'
  BY <1>3, <1>10 DEF Panic
<1>11. CASE Crash
  BY <1>3, <1>11 DEF Crash
<1>12. ASSUME NEW t \in Tasks, Edit(t) PROVE Held' /\ Tables'
  BY <1>2, <1>7, <1>12 DEF Edit, ImportSteps
<1>13. CASE RestoreCutOff
  BY <1>4, <1>7, <1>13 DEF RestoreCutOff
<1> QED
  BY <1>5, <1>6, <1>8, <1>9, <1>10, <1>11, <1>12, <1>13 DEF Next

(* Nothing is stored, seen or under way before the first step. *)
LEMMA InitRecords == Init => RecordInv
BY InitTyped
   DEF Init, RecordInv, Sourced, Held, HeldAt, ImportSteps, Idle, SourcesRetained,
       RecordsNameTheirTrip

(***************************************************************************)
(* The recording behind every stored trip is retained, however imports,    *)
(* recomputes, deletions and crashes interleave.                           *)
(***************************************************************************)
THEOREM SourcesAreRetained == Spec => []SourcesRetained
<1>1. RecordInv => SourcesRetained
  BY DEF RecordInv
<1> QED
  BY <1>1, InitRecords, RecordStep, PTL DEF Spec

(***************************************************************************)
(* A row of processed_files never names a trip that is gone, nor one that  *)
(* was measured from another file.                                         *)
(***************************************************************************)
THEOREM RecordsNameStoredTrips == Spec => []RecordsNameTheirTrip
<1>1. RecordInv => RecordsNameTheirTrip
  BY DEF RecordInv
<1> QED
  BY <1>1, InitRecords, RecordStep, PTL DEF Spec
=============================================================================
