------------------------------ MODULE Tracker ------------------------------
(***************************************************************************)
(* Importing recordings and keeping every stored trip measured against the *)
(* current route: internal/service (Refresh, Ingest, Reprocess, Retry),    *)
(* the trip and file tables of internal/storage, and the goroutines        *)
(* internal/web and cmd/tracker start to run them.                         *)
(*                                                                         *)
(* A task is a goroutine.  Nothing is held across its database calls       *)
(* except refreshMu, which only Refresh takes, so tasks, requests and      *)
(* restarts interleave between any two of them.  One database call or      *)
(* transaction is one step; ActiveTemplate is two, because it reads the    *)
(* template row and its waypoints in separate queries.                     *)
(*                                                                         *)
(* Recordings are data: Reach says which places a recording passes under   *)
(* each version of the matching algorithm, and measuring it is finding     *)
(* those of the route's waypoints.  Files are numbered in the order of     *)
(* their names, which are the instants the recordings began.               *)
(***************************************************************************)
EXTENDS Route, FiniteSets

CONSTANTS
  Files,       \* recordings, as the numbers their names sort by
  Unreadable,  \* those gpx.Parse rejects
  Trackless,   \* those it accepts although no fix survives filtering
  Algos,       \* values matcher.AlgoVersion takes, one per build
  Anchors,     \* what ANCHOR may be set to: the instant that bounds a stretch
  Reach,       \* Reach[a][f]: the places recording f passes under algorithm a
  TripIds,     \* identities trips can get
  Tasks,       \* goroutines that can run at once
  Limit,       \* how often each bounded operation happens
  NoFile, NoTrip, NoTask

Ops == {"edit", "retry", "recompute", "delete", "crash"}

ASSUME TrackerAssumptions ==
  /\ Files \subseteq Nat
  /\ Unreadable \subseteq Files
  /\ Trackless \subseteq Files
  /\ 1 \in Algos /\ Algos \subseteq Nat
  /\ Anchors # {}
  /\ Reach \in [Algos -> [Files -> SUBSET Places]]
  /\ Limit \in [Ops -> Nat]
  /\ NoFile \notin Files
  /\ NoTrip \notin TripIds
  /\ NoTask \notin Tasks

VARIABLES
  algo,       \* matcher.AlgoVersion of the running build
  anchor,     \* the ANCHOR the running process was started with
  inbox,      \* recordings in the inbox directory
  blobs,      \* recordings retained under their content hash
  trips,      \* the trips table: id -> the route and algorithm measured with
  processed,  \* processed_files: file -> [status, trip]
  refreshMu,  \* the task that holds Service.refreshMu, or NoTask
  task,       \* per goroutine: where it is and what it has read
  source,     \* history: the file each trip was first created from
  deleted,    \* history: the trips the user has deleted
  ops         \* how often each bounded operation has happened

build == <<algo, anchor>>
dbVars == <<trips, processed, source>>
vars == <<routeVars, build, inbox, blobs, dbVars, refreshMu, task, deleted, ops>>

Statuses == {"ok", "ignored", "error"}

(***************************************************************************)
(* on is the list of waypoints a trip was measured against; crossings are  *)
(* the waypoints its rows in the crossings table name; anchor is the one   *)
(* the times of its segments were taken at, which no column records.       *)
(***************************************************************************)
Trip == [file : Files, version : Nat, algo : Algos, anchor : Anchors,
         on : Seq(Waypoint), crossings : SUBSET Nat]

ProcessedFile == [status : Statuses, trip : TripIds \cup {NoTrip}]

RefreshSteps == {"list", "next", "load", "measure", "save", "mark"}
ReprocessSteps == {"template", "waypoints", "stale", "each", "write"}

Idle == [pc |-> "idle", version |-> 0, wps |-> <<>>, queue |-> {}, stale |-> {},
         file |-> NoFile, trip |-> NoTrip, status |-> "ok"]

Task == [pc : {"idle", "forget", "lock"} \cup RefreshSteps \cup ReprocessSteps,
         version : Nat, wps : Seq(Waypoint), queue : SUBSET Files,
         stale : SUBSET TripIds, file : Files \cup {NoFile},
         trip : TripIds \cup {NoTrip}, status : Statuses]

TypeOK ==
  /\ RouteTypeOK
  /\ algo \in Algos
  /\ anchor \in Anchors
  /\ inbox \subseteq Files
  /\ blobs \subseteq Files
  /\ DOMAIN trips \subseteq TripIds
  /\ \A u \in DOMAIN trips : trips[u] \in Trip
  /\ DOMAIN processed \subseteq Files
  /\ \A f \in DOMAIN processed : processed[f] \in ProcessedFile
  /\ refreshMu \in Tasks \cup {NoTask}
  /\ task \in [Tasks -> Task]
  /\ source \in [TripIds -> Files \cup {NoFile}]
  /\ deleted \subseteq TripIds
  /\ ops \in [Ops -> Nat]

Init ==
  /\ RouteInit
  /\ algo = 1
  /\ anchor \in Anchors
  /\ inbox = {}
  /\ blobs = {}
  /\ trips = <<>>
  /\ processed = <<>>
  /\ refreshMu = NoTask
  /\ task = [t \in Tasks |-> Idle]
  /\ source = [u \in TripIds |-> NoFile]
  /\ deleted = {}
  /\ ops = [o \in Ops |-> 0]

-----------------------------------------------------------------------------
(* Tables and measuring *)

(* INSERT ... ON CONFLICT DO UPDATE. *)
Upsert(table, key, row) ==
  [k \in DOMAIN table \cup {key} |-> IF k = key THEN row ELSE table[k]]

Without(table, key) == [k \in DOMAIN table \ {key} |-> table[k]]

(* The waypoints of a route a recording is matched to. *)
Crossed(a, f, w) == {w[i].id : i \in {j \in DOMAIN w : w[j].place \in Reach[a][f]}}

(* Fewer than two, and no stretch can be measured: StatusUnmatched. *)
Unmatched(a, f, w) == \A x, y \in Crossed(a, f, w) : x = y

(* Fault: a trip is stamped with the version there is when it is written. *)
StampedLate(t, f) ==
  [file |-> f, version |-> version, algo |-> algo, anchor |-> anchor,
   on |-> task[t].wps, crossings |-> Crossed(algo, f, task[t].wps)]

Measured(t, f) ==
  [file |-> f, version |-> task[t].version, algo |-> algo, anchor |-> anchor,
   on |-> task[t].wps, crossings |-> Crossed(algo, f, task[t].wps)]

(* crossings.waypoint_id REFERENCES waypoints(id). *)
CrossingsAccepted(trip) == trip.crossings \subseteq IdsOf(wps)

(* crossings.waypoint_id ... ON DELETE CASCADE. *)
CascadeWaypoints ==
  trips' = [u \in DOMAIN trips |->
              [trips[u] EXCEPT !.crossings = @ \cap IdsOf(wps')]]

(* Fault: the record of the file goes on naming the trip. *)
DeleteTripOnly(u) ==
  /\ trips' = Without(trips, u)
  /\ UNCHANGED processed

(* DELETE FROM trips; processed_files.trip_id ... ON DELETE SET NULL. *)
DeleteTrip(u) ==
  /\ trips' = Without(trips, u)
  /\ processed' = [f \in DOMAIN processed |->
       IF processed[f].trip = u THEN [processed[f] EXCEPT !.trip = NoTrip]
       ELSE processed[f]]

(* StaleTripIDs. *)
Stale(u, v) == trips[u].version # v \/ trips[u].algo # algo

Count(op) ==
  /\ ops[op] < Limit[op]
  /\ ops' = [ops EXCEPT ![op] = @ + 1]

-----------------------------------------------------------------------------
(* Tasks *)

Become(t, next) == task' = [task EXCEPT ![t] = next]

Start(t, first) == task[t] = Idle /\ Become(t, first)

Goto(t, pc) == Become(t, [task[t] EXCEPT !.pc = pc])

(* The goroutine returns; a Refresh gives its lock back. *)
Return(t) ==
  /\ Become(t, Idle)
  /\ refreshMu' = IF refreshMu = t THEN NoTask ELSE refreshMu

(* Retry: Forget, and then an ordinary Refresh. *)
Forget(t) ==
  /\ task[t].pc = "forget"
  /\ processed' = Without(processed, task[t].file)
  /\ Goto(t, "lock")
  /\ UNCHANGED <<routeVars, build, inbox, blobs, trips, source, refreshMu, deleted, ops>>

(* Fault: a second Refresh goes ahead. *)
LockRegardless(t) ==
  /\ task[t].pc = "lock"
  /\ refreshMu' = t
  /\ Become(t, [Idle EXCEPT !.pc = "list"])
  /\ UNCHANGED <<routeVars, build, inbox, blobs, dbVars, deleted, ops>>

(* refreshMu.TryLock; a second Refresh gives up at once. *)
TryLock(t) ==
  /\ task[t].pc = "lock"
  /\ IF refreshMu = NoTask
     THEN /\ refreshMu' = t
          /\ Become(t, [Idle EXCEPT !.pc = "list"])
     ELSE Return(t)
  /\ UNCHANGED <<routeVars, build, inbox, blobs, dbVars, deleted, ops>>

(* newFiles, once the cloud folder has been pulled. *)
ListNewFiles(t) ==
  /\ task[t].pc = "list"
  /\ Become(t, [task[t] EXCEPT !.pc = "next", !.queue = inbox \ DOMAIN processed])
  /\ UNCHANGED <<routeVars, build, inbox, blobs, dbVars, refreshMu, deleted, ops>>

(* Faults: the bytes are not retained, the newest file comes first, and    *)
(* the refresh ends without a recompute.                                   *)
ImportUnretained(t) ==
  /\ task[t].pc = "next"
  /\ \/ task[t].queue = {} /\ Goto(t, "template")
     \/ \E f \in task[t].queue :
          /\ \A g \in task[t].queue : f <= g
          /\ Become(t, [task[t] EXCEPT !.pc = "load", !.file = f, !.queue = @ \ {f}])
  /\ UNCHANGED <<routeVars, build, inbox, blobs, dbVars, refreshMu, deleted, ops>>

NewestFirst(t) ==
  /\ task[t].pc = "next"
  /\ \/ task[t].queue = {} /\ Goto(t, "template") /\ UNCHANGED blobs
     \/ \E f \in task[t].queue :
          /\ \A g \in task[t].queue : f >= g
          /\ blobs' = blobs \cup {f}
          /\ Become(t, [task[t] EXCEPT !.pc = "load", !.file = f, !.queue = @ \ {f}])
  /\ UNCHANGED <<routeVars, build, inbox, dbVars, refreshMu, deleted, ops>>

ImportOnly(t) ==
  /\ task[t].pc = "next"
  /\ \/ task[t].queue = {} /\ Return(t) /\ UNCHANGED blobs
     \/ \E f \in task[t].queue :
          /\ \A g \in task[t].queue : f <= g
          /\ blobs' = blobs \cup {f}
          /\ Become(t, [task[t] EXCEPT !.pc = "load", !.file = f, !.queue = @ \ {f}])
          /\ UNCHANGED refreshMu
  /\ UNCHANGED <<routeVars, build, inbox, dbVars, deleted, ops>>

(***************************************************************************)
(* The head of the import loop.  The oldest file left is read and its      *)
(* bytes retained before anything is derived from them; after the last one *)
(* the same pass recomputes whatever is stale.                             *)
(***************************************************************************)
NextFile(t) ==
  /\ task[t].pc = "next"
  /\ \/ /\ task[t].queue = {}
        /\ Goto(t, "template")
        /\ UNCHANGED blobs
     \/ \E f \in task[t].queue :
          /\ \A g \in task[t].queue : f <= g
          /\ blobs' = blobs \cup {f}
          /\ Become(t, [task[t] EXCEPT !.pc = "load", !.file = f, !.queue = @ \ {f}])
  /\ UNCHANGED <<routeVars, build, inbox, dbVars, refreshMu, deleted, ops>>

Outcome(t, status, u) ==
  Become(t, [task[t] EXCEPT !.pc = "mark", !.status = status, !.trip = u, !.wps = <<>>])

(* Ingest: the first query of ActiveTemplate; no route at all is an error. *)
LoadRoute(t) ==
  /\ task[t].pc = "load"
  /\ IF version = 0
     THEN Outcome(t, "error", NoTrip)
     ELSE Become(t, [task[t] EXCEPT !.pc = "measure", !.version = version])
  /\ UNCHANGED <<routeVars, build, inbox, blobs, dbVars, refreshMu, deleted, ops>>

(* Ingest: the second query, then parsing and measuring. *)
MeasureFile(t) ==
  /\ task[t].pc = "measure"
  /\ task[t].file \notin Trackless
  /\ IF task[t].file \in Unreadable
     THEN Outcome(t, "error", NoTrip)
     ELSE IF Unmatched(algo, task[t].file, wps)
          THEN Outcome(t, "ignored", NoTrip)
          ELSE Become(t, [task[t] EXCEPT !.pc = "save", !.wps = wps])
  /\ UNCHANGED <<routeVars, build, inbox, blobs, dbVars, refreshMu, deleted, ops>>

(* Ingest: SaveTrip under a new identity. *)
SaveNewTrip(t) ==
  /\ task[t].pc = "save"
  /\ LET f == task[t].file
         trip == Measured(t, f)
     IN  \/ /\ CrossingsAccepted(trip)
            /\ \E u \in TripIds :
                 /\ source[u] = NoFile
                 /\ trips' = Upsert(trips, u, trip)
                 /\ source' = [source EXCEPT ![u] = f]
                 /\ Outcome(t, "ok", u)
         \/ /\ ~ CrossingsAccepted(trip)
            /\ Outcome(t, "error", NoTrip)
            /\ UNCHANGED <<trips, source>>
  /\ UNCHANGED <<routeVars, build, inbox, blobs, processed, refreshMu, deleted, ops>>

(* MarkProcessed, refused when it names a trip that is gone.  It is only   *)
(* logged when refused, and the loop goes on either way.                   *)
MarkProcessed(t) ==
  /\ task[t].pc = "mark"
  /\ LET refers == task[t].status = "ok" /\ task[t].trip \notin DOMAIN trips
         row == [status |-> task[t].status, trip |-> task[t].trip]
     IN  processed' = IF refers THEN processed ELSE Upsert(processed, task[t].file, row)
  /\ Become(t, [Idle EXCEPT !.pc = "next", !.queue = task[t].queue])
  /\ UNCHANGED <<routeVars, build, inbox, blobs, trips, source, refreshMu, deleted, ops>>

(* Reprocess and ReprocessTrip: the first query of ActiveTemplate. *)
ReadVersion(t) ==
  /\ task[t].pc = "template"
  /\ IF version = 0
     THEN Return(t)
     ELSE /\ Become(t, [task[t] EXCEPT !.pc = "waypoints", !.version = version])
          /\ UNCHANGED refreshMu
  /\ UNCHANGED <<routeVars, build, inbox, blobs, dbVars, deleted, ops>>

(* The second query.  A task asked for one trip recomputes just that one.  *)
ReadWaypoints(t) ==
  /\ task[t].pc = "waypoints"
  /\ IF task[t].trip = NoTrip
     THEN Become(t, [task[t] EXCEPT !.pc = "stale", !.wps = wps])
     ELSE Become(t, [task[t] EXCEPT !.pc = "each", !.wps = wps,
                                    !.stale = {task[t].trip}, !.trip = NoTrip])
  /\ UNCHANGED <<routeVars, build, inbox, blobs, dbVars, refreshMu, deleted, ops>>

ListStaleTrips(t) ==
  /\ task[t].pc = "stale"
  /\ LET stale == {u \in DOMAIN trips : Stale(u, task[t].version)}
     IN  Become(t, [task[t] EXCEPT !.pc = "each", !.stale = stale])
  /\ UNCHANGED <<routeVars, build, inbox, blobs, dbVars, refreshMu, deleted, ops>>

(* Fault: the trip that is measured again is not given its own identity. *)
NamelessTrip(t) ==
  /\ task[t].pc = "each"
  /\ \/ task[t].stale = {} /\ Return(t)
     \/ \E u \in task[t].stale :
          /\ u \in DOMAIN trips
          /\ Become(t, [task[t] EXCEPT !.pc = "write", !.stale = @ \ {u}, !.file = trips[u].file])
          /\ UNCHANGED refreshMu
  /\ UNCHANGED <<routeVars, build, inbox, blobs, dbVars, deleted, ops>>

(***************************************************************************)
(* reprocessTrip up to its write: load the trip and its retained file and  *)
(* measure it, oldest first.  A trip that has gone is logged and skipped.  *)
(***************************************************************************)
NextTrip(t) ==
  /\ task[t].pc = "each"
  /\ \/ /\ task[t].stale = {}
        /\ Return(t)
     \/ \E u \in task[t].stale :
          /\ \A x \in task[t].stale : source[u] <= source[x]
          /\ IF u \in DOMAIN trips /\ trips[u].file \in blobs
             THEN Become(t, [task[t] EXCEPT !.pc = "write", !.stale = @ \ {u},
                                            !.trip = u, !.file = trips[u].file])
             ELSE Become(t, [task[t] EXCEPT !.stale = @ \ {u}])
          /\ UNCHANGED refreshMu
  /\ UNCHANGED <<routeVars, build, inbox, blobs, dbVars, deleted, ops>>

(***************************************************************************)
(* The write of reprocessTrip: a trip that no longer follows the route is  *)
(* deleted, any other is saved under its own identity - which inserts it   *)
(* again if it was deleted since it was loaded.                            *)
(***************************************************************************)
WriteTrip(t) ==
  /\ task[t].pc = "write"
  /\ LET u == task[t].trip
         trip == Measured(t, task[t].file)
     IN  IF Unmatched(algo, task[t].file, task[t].wps)
         THEN DeleteTrip(u)
         ELSE /\ trips' = IF CrossingsAccepted(trip) THEN Upsert(trips, u, trip) ELSE trips
              /\ UNCHANGED processed
  /\ Become(t, [task[t] EXCEPT !.pc = "each", !.trip = NoTrip, !.file = NoFile])
  /\ UNCHANGED <<routeVars, build, inbox, blobs, source, refreshMu, deleted, ops>>

TaskStep(t) ==
  \/ Forget(t) \/ TryLock(t) \/ ListNewFiles(t) \/ NextFile(t)
  \/ LoadRoute(t) \/ MeasureFile(t) \/ SaveNewTrip(t) \/ MarkProcessed(t)
  \/ ReadVersion(t) \/ ReadWaypoints(t) \/ ListStaleTrips(t)
  \/ NextTrip(t) \/ WriteTrip(t)

-----------------------------------------------------------------------------
(* Requests and the environment *)

(* A recording is synced into the inbox, or pulled from the cloud folder. *)
Arrive ==
  /\ \E f \in Files \ inbox : inbox' = inbox \cup {f}
  /\ UNCHANGED <<routeVars, build, blobs, dbVars, refreshMu, task, deleted, ops>>

(* EnsureActiveTemplate on its own: a request whose form is then refused.  *)
CreateEmptyRoute ==
  /\ CreateRoute
  /\ UNCHANGED <<build, inbox, blobs, dbVars, refreshMu, task, deleted, ops>>

(* An edit commits and its handler starts a Reprocess: afterRouteChange. *)
Edit(t) ==
  /\ Count("edit")
  /\ EditRoute
  /\ CascadeWaypoints
  /\ Start(t, [Idle EXCEPT !.pc = "template"])
  /\ UNCHANGED <<build, inbox, blobs, processed, source, refreshMu, deleted>>

(* ReplaceRoute reads the route again once it has committed, under the     *)
(* context of the request: a client that has left gets an error instead,   *)
(* and importRoute returns without starting the Reprocess.                 *)
RestoreCutOff ==
  /\ Count("edit")
  /\ \E places \in Backups : ReplaceRoute(places)
  /\ CascadeWaypoints
  /\ UNCHANGED <<build, inbox, blobs, processed, source, refreshMu, task, deleted>>

(* A move past either end commits nothing, and still starts a Reprocess. *)
EditNothing(t) ==
  /\ Count("edit")
  /\ wps # <<>>
  /\ Start(t, [Idle EXCEPT !.pc = "template"])
  /\ UNCHANGED <<routeVars, build, inbox, blobs, dbVars, refreshMu, deleted>>

StartRefresh(t) ==
  /\ Start(t, [Idle EXCEPT !.pc = "lock"])
  /\ UNCHANGED <<routeVars, build, inbox, blobs, dbVars, refreshMu, deleted, ops>>

(* Reconsider a file.  The page offers it for one that produced no trip,   *)
(* but retryFile takes any name: one that has a trip is forgotten as well. *)
(* A name with no record leaves nothing to forget and is a StartRefresh.   *)
StartRetry(t) ==
  /\ Count("retry")
  /\ \E f \in DOMAIN processed : Start(t, [Idle EXCEPT !.pc = "forget", !.file = f])
  /\ UNCHANGED <<routeVars, build, inbox, blobs, dbVars, refreshMu, deleted>>

(* The recompute button of a trip's page. *)
StartReprocessTrip(t) ==
  /\ Count("recompute")
  /\ \E u \in DOMAIN trips : Start(t, [Idle EXCEPT !.pc = "template", !.trip = u])
  /\ UNCHANGED <<routeVars, build, inbox, blobs, dbVars, refreshMu, deleted>>

(* The delete button of a trip's page. *)
UserDeletesTrip ==
  /\ Count("delete")
  /\ \E u \in DOMAIN trips :
       /\ DeleteTrip(u)
       /\ deleted' = deleted \cup {u}
  /\ UNCHANGED <<routeVars, build, inbox, blobs, source, refreshMu, task>>

(***************************************************************************)
(* The process ends, wherever its goroutines are, and is started again.    *)
(* Only the database and the directories survive; startup runs a Reprocess *)
(* and may be a newer build or one given another ANCHOR.                   *)
(***************************************************************************)
Restart ==
  /\ refreshMu' = NoTask
  /\ \E t \in Tasks :
       task' = [s \in Tasks |-> IF s = t THEN [Idle EXCEPT !.pc = "template"] ELSE Idle]
  /\ UNCHANGED <<routeVars, inbox, blobs, dbVars, deleted>>

Crash ==
  /\ Count("crash")
  /\ Restart
  /\ \E a \in Algos : a >= algo /\ algo' = a
  /\ anchor' \in Anchors

(* measure indexes the first point of a track that has none: the goroutine *)
(* panics, which ends the process.                                         *)
Panic(t) ==
  /\ task[t].pc = "measure"
  /\ task[t].file \in Trackless
  /\ Restart
  /\ UNCHANGED <<build, ops>>

Next ==
  \/ \E t \in Tasks : \/ TaskStep(t) \/ Panic(t)
                      \/ Edit(t) \/ EditNothing(t) \/ StartRefresh(t)
                      \/ StartRetry(t) \/ StartReprocessTrip(t)
  \/ Arrive
  \/ CreateEmptyRoute
  \/ RestoreCutOff
  \/ UserDeletesTrip
  \/ Crash

Spec == Init /\ [][Next]_vars

(***************************************************************************)
(* Goroutines are scheduled and database calls return, so a task that can  *)
(* take a step eventually does.  Nothing makes a person press Refresh, so  *)
(* that is a separate assumption.                                          *)
(***************************************************************************)
TasksRun == \A t \in Tasks : WF_vars(TaskStep(t) \/ Panic(t))

RefreshIsPressed == SF_vars(\E t \in Tasks : StartRefresh(t))

FairSpec == Spec /\ TasksRun

RefreshedSpec == FairSpec /\ RefreshIsPressed

-----------------------------------------------------------------------------
(* What the code keeps *)

(***************************************************************************)
(* A trip that carries the current route version and algorithm version     *)
(* holds what measuring its recording against the current waypoints gives. *)
(* This is what lets StaleTripIDs derive the work from version numbers     *)
(* alone, although ActiveTemplate reads the version and the waypoints in   *)
(* two queries and edits commit in between.                                *)
(***************************************************************************)
FreshIsCurrent ==
  \A u \in DOMAIN trips :
    (trips[u].version = version /\ trips[u].algo = algo) =>
      /\ trips[u].on = wps
      /\ trips[u].crossings = Crossed(algo, trips[u].file, wps)

(***************************************************************************)
(* The recording behind every stored trip has been retained, wherever the  *)
(* process was interrupted: the history can always be recomputed.          *)
(***************************************************************************)
SourcesRetained == \A u \in DOMAIN trips : trips[u].file \in blobs

(***************************************************************************)
(* A processed_files row that names a trip names one that is stored and    *)
(* was measured from that very file.                                       *)
(***************************************************************************)
RecordsNameTheirTrip ==
  \A f \in DOMAIN processed : processed[f].trip # NoTrip =>
    /\ processed[f].trip \in DOMAIN trips
    /\ trips[processed[f].trip].file = f

(***************************************************************************)
(* A new trip is only ever created from a file with no processed_files     *)
(* row: refreshMu keeps two refreshes from importing the same listing,     *)
(* however requests, retries and restarts interleave.                      *)
(***************************************************************************)
ImportsOnlyUnseen ==
  [][\A u \in TripIds :
       (source[u] = NoFile /\ source'[u] # NoFile) => source'[u] \notin DOMAIN processed]_vars

(***************************************************************************)
(* Once the edits stop, and as long as Refresh is pressed again and again, *)
(* no stored trip stays behind the route or the algorithm.                 *)
(***************************************************************************)
NoneStale == \A u \in DOMAIN trips : ~ Stale(u, version)

RefreshingConverges == <>[]NoneStale

(***************************************************************************)
(* Imports go oldest first and a failure is recorded too, so a recording   *)
(* older than every trackless one is eventually recorded as seen, although *)
(* each refresh that reaches a trackless one ends the process.             *)
(***************************************************************************)
OlderFilesRecorded ==
  \A f \in Files :
    (\A g \in Trackless : f < g) => (f \in inbox ~> f \in DOMAIN processed)

-----------------------------------------------------------------------------
(* What the documentation says and the code does not keep *)

AllIdle == \A t \in Tasks : task[t] = Idle

(***************************************************************************)
(* "Any waypoint edit raises the route version, and every stored trip is   *)
(* recomputed": when no work is left, no trip is stale.                    *)
(***************************************************************************)
RecomputedAtRest == AllIdle => NoneStale

(***************************************************************************)
(* "Bringing everything up to date on startup means the figures on screen  *)
(* always reflect the current definitions", and switching the ANCHOR "is   *)
(* just a recompute": when no work is left, every trip is timed by it.     *)
(***************************************************************************)
TimedByTheAnchor == AllIdle => \A u \in DOMAIN trips : trips[u].anchor = anchor

(* "A file is imported exactly once": no file has two trips. *)
OneTripPerFile ==
  \A u, x \in DOMAIN trips : trips[u].file = trips[x].file => u = x

(* "A deleted trip is not re-imported on the next refresh." *)
DeletedStaysDeleted == \A u \in deleted : u \notin DOMAIN trips

(***************************************************************************)
(* The skipped list offers every file "that produced no trip" for another  *)
(* look: a file recorded as seen that has no trip, and none the user       *)
(* deleted, is in the list.                                                *)
(***************************************************************************)
TriplessFilesListed ==
  \A f \in DOMAIN processed :
    \/ processed[f].status # "ok"
    \/ \E u \in DOMAIN trips : trips[u].file = f
    \/ \E u \in deleted : source[u] = f

(* "OutcomeFailed means the file could not be read." *)
FailedMeansUnreadable ==
  \A f \in DOMAIN processed : processed[f].status = "error" => f \in Unreadable

(***************************************************************************)
(* ingestFile "imports one file and records the outcome, including         *)
(* failures": a recording in the inbox is eventually recorded as seen.     *)
(***************************************************************************)
EverySeenFileRecorded == \A f \in Files : f \in inbox ~> f \in DOMAIN processed

(***************************************************************************)
(* "Retry forgets that a file was seen and imports it again": a file that  *)
(* a retry has forgotten is eventually recorded as seen again, with nobody *)
(* pressing anything else.                                                 *)
(***************************************************************************)
RetryImports ==
  \A t \in Tasks, f \in Files :
    (task[t].pc = "lock" /\ task[t].file = f) ~> f \in DOMAIN processed
=============================================================================
