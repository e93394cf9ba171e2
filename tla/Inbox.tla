-------------------------------- MODULE Inbox --------------------------------
(***************************************************************************)
(* How recordings get into the inbox and are taken up from there: the      *)
(* cloud folder (internal/drive/drive.go) and one refresh after another    *)
(* (refresh, newFiles and ingestFile in internal/service/service.go).      *)
(*                                                                         *)
(* Tracker lets a file arrive whole and at once.  This module has what is  *)
(* behind that: a listing by pages, downloads through a temporary file,    *)
(* a pull that stops at its first failure, recordings copied in by hand    *)
(* while a refresh reads them, a shutdown that cancels the context under a *)
(* refresh, and a process that ends at any moment.  A recording is read,   *)
(* measured, stored and recorded as seen in steps between which somebody   *)
(* may delete a waypoint it passes or the trip it was made, or ask for it  *)
(* to be forgotten.  What is stored of it is left to Tracker, and so is    *)
(* the recording that ends the process.                                    *)
(*                                                                         *)
(* The name of a recording is the instant it was begun; both the folder,   *)
(* which has other files as well, and the inbox are listed in order of     *)
(* name.                                                                   *)
(***************************************************************************)
EXTENDS Integers, FiniteSets

CONSTANTS
  NumNames,   \* files are named 1, 2, ...
  Others,     \* those in the folder that are no recordings
  HandNames,  \* those that may be copied into the inbox by hand as well
  Spoilt,     \* those that cannot be imported even whole: too large, not GPX
  PageSize,   \* names on one page of a listing
  MaxPages,   \* pages a pull is prepared to read
  MaxFails,   \* bound on the failures of the network
  MaxStops,   \* bound on the times the process ends
  MaxEdits    \* bound on what is deleted or forgotten

ASSUME InboxAssumptions ==
  /\ NumNames \in Nat /\ Others \subseteq 1 .. NumNames
  /\ HandNames \subseteq 1 .. NumNames
  /\ Spoilt \subseteq 1 .. NumNames
  /\ PageSize \in Nat \ {0}
  /\ MaxPages \in Nat \ {0}
  /\ MaxFails \in Nat /\ MaxStops \in Nat /\ MaxEdits \in Nat

Names == 1 .. NumNames
Recordings == Names \ Others

VARIABLES
  cloud,      \* the files in the folder
  stuck,      \* those that can be listed and never downloaded
  route,      \* there is a route
  inbox,      \* the files in the inbox directory: "absent", "partial", "whole"
  byHand,     \* history: files that were copied in by hand
  temps,      \* temporary files in the inbox directory
  record,     \* processed_files: "none", or how the import came out
  cancelled,  \* the context of the process is cancelled: it is shutting down
  task,       \* the refresh under way
  progress,   \* what the page shows of the latest refresh
  shown,      \* history: the recordings the latest refresh came across
  untimely,   \* history: last imported without a route, or as a waypoint was deleted
  withdrawn,  \* history: forgotten, or their trip deleted, since the refresh began
  fails, stops, edits

files == <<inbox, byHand, temps>>
history == <<untimely, withdrawn>>
vars == <<cloud, stuck, route, files, record, cancelled, task, progress, shown,
          history, fails, stops, edits>>

Idle == [pc |-> "idle"]

Outcomes == {"none", "ok", "ignored", "error"}

(* A refresh: what it has listed and still has to look at; the file in     *)
(* hand; what it read of it, and what it made of it; whether a row that it *)
(* is about to refer to has been deleted.                                  *)
Task ==
  [pc : {"list", "pull", "download", "scan", "next", "load", "save", "mark"},
   pages : 0 .. MaxPages, todo : SUBSET Names, name : Names \cup {0},
   read : {"absent", "partial", "whole"}, status : Outcomes, dangling : BOOLEAN]

Started ==
  [pc |-> "list", pages |-> 0, todo |-> {}, name |-> 0, read |-> "absent",
   status |-> "none", dangling |-> FALSE]

Progress == [running : BOOLEAN, total : Nat, done : Nat, err : BOOLEAN]

NoProgress == [running |-> FALSE, total |-> 0, done |-> 0, err |-> FALSE]

TypeOK ==
  /\ cloud \subseteq Names /\ stuck \subseteq Names
  /\ route \in BOOLEAN
  /\ inbox \in [Names -> {"absent", "partial", "whole"}]
  /\ byHand \subseteq Names
  /\ record \in [Names -> Outcomes]
  /\ cancelled \in BOOLEAN
  /\ task = Idle \/ task \in Task
  /\ progress \in Progress
  /\ progress.done <= progress.total
  /\ shown \subseteq Recordings
  /\ untimely \subseteq Names /\ withdrawn \subseteq Names
  /\ fails \in 0 .. MaxFails /\ stops \in 0 .. MaxStops /\ edits \in 0 .. MaxEdits
  /\ temps \in Nat /\ temps <= stops + 1

Init ==
  /\ cloud = {}
  /\ stuck \in {{}} \cup {{n} : n \in Recordings}
  /\ route = FALSE
  /\ inbox = [n \in Names |-> "absent"] /\ byHand = {} /\ temps = 0
  /\ record = [n \in Names |-> "none"]
  /\ cancelled = FALSE
  /\ task = Idle
  /\ progress = NoProgress /\ shown = {}
  /\ untimely = {} /\ withdrawn = {}
  /\ fails = 0 /\ stops = 0 /\ edits = 0

(* Names are taken in order. *)
First(n, names) == n \in names /\ \A m \in names : n <= m

-----------------------------------------------------------------------------
(* Recordings appear *)

(* The phone uploads one to the folder, or something else is put there. *)
Upload(n) ==
  /\ n \notin cloud
  /\ cloud' = cloud \cup {n}
  /\ UNCHANGED <<stuck, route, files, record, cancelled, task, progress, shown,
                 history, fails, stops, edits>>

(* Somebody copies one into the inbox, which takes a while. *)
BeginCopy(n) ==
  /\ n \in HandNames \ Others /\ inbox[n] = "absent"
  /\ inbox' = [inbox EXCEPT ![n] = "partial"]
  /\ byHand' = byHand \cup {n}
  /\ UNCHANGED <<cloud, stuck, route, temps, record, cancelled, task, progress, shown,
                 history, fails, stops, edits>>

EndCopy(n) ==
  /\ inbox[n] = "partial"
  /\ inbox' = [inbox EXCEPT ![n] = "whole"]
  /\ UNCHANGED <<cloud, stuck, route, byHand, temps, record, cancelled, task, progress,
                 shown, history, fails, stops, edits>>

-----------------------------------------------------------------------------
(* What its user does besides pressing the button *)

(* The route is set up.  It may be replaced later, and is never removed.   *)
CreateRoute ==
  /\ ~ route
  /\ route' = TRUE
  /\ UNCHANGED <<cloud, stuck, files, record, cancelled, task, progress, shown,
                 history, fails, stops, edits>>

InHandAt(pc) == task # Idle /\ task.pc = pc

(* A waypoint is deleted that the recording in hand was found to pass: its *)
(* crossing will refer to no row.                                          *)
DeleteWaypoint ==
  /\ edits < MaxEdits
  /\ InHandAt("save")
  /\ edits' = edits + 1
  /\ task' = [task EXCEPT !.dangling = TRUE]
  /\ untimely' = untimely \cup {task.name}
  /\ UNCHANGED <<cloud, stuck, route, files, record, cancelled, progress, shown,
                 withdrawn, fails, stops>>

(* A trip is deleted whose recording has yet to be recorded as seen.       *)
DeleteTrip ==
  /\ edits < MaxEdits
  /\ InHandAt("mark") /\ task.status = "ok"
  /\ edits' = edits + 1
  /\ task' = [task EXCEPT !.dangling = TRUE]
  /\ withdrawn' = withdrawn \cup {task.name}
  /\ UNCHANGED <<cloud, stuck, route, files, record, cancelled, progress, shown,
                 untimely, fails, stops>>

(* Retry, up to its call of Refresh: that is StartRefresh, or is turned    *)
(* away when a refresh is under way.  It runs with the context of the      *)
(* process.                                                                *)
Forget(n) ==
  /\ edits < MaxEdits
  /\ ~ cancelled /\ record[n] # "none"
  /\ edits' = edits + 1
  /\ record' = [record EXCEPT ![n] = "none"]
  /\ withdrawn' = withdrawn \cup {n}
  /\ UNCHANGED <<cloud, stuck, route, files, cancelled, task, progress, shown,
                 untimely, fails, stops>>

-----------------------------------------------------------------------------
(* The pull *)

place == <<cloud, stuck, route, byHand, cancelled, stops, edits>>
world == <<place, record, history>>

(* Refresh takes refreshMu and resets what the page shows. *)
StartRefresh ==
  /\ task = Idle
  /\ task' = Started
  /\ progress' = [NoProgress EXCEPT !.running = TRUE]
  /\ shown' = {} /\ withdrawn' = {}
  /\ UNCHANGED <<place, record, untimely, inbox, temps, fails>>

(* Fault: a pull that fails ends the refresh. *)
EndAfterPull ==
  /\ task' = Idle
  /\ progress' = [progress EXCEPT !.err = TRUE, !.running = FALSE]

(* A failed pull is reported, and what is in the inbox is still imported. *)
ImportAfterPull ==
  /\ task' = [task EXCEPT !.pc = "scan", !.pages = 0, !.todo = {}, !.name = 0]
  /\ progress' = [progress EXCEPT !.err = TRUE]

(* A request fails: always once the context is cancelled, else at times. *)
RequestFails ==
  /\ IF cancelled THEN UNCHANGED fails ELSE fails < MaxFails /\ fails' = fails + 1
  /\ ImportAfterPull

(* Fault: the token of the next page is not sent along. *)
FromTheStart(listed) == cloud

(* What is left to list. *)
Unlisted(listed) == {n \in cloud : \A k \in listed : k < n}

(* The page of at most PageSize names that come first. *)
IsPage(page, names) ==
  /\ Cardinality(page) = IF Cardinality(names) < PageSize THEN Cardinality(names) ELSE PageSize
  /\ \A n \in page, m \in names \ page : n < m

(***************************************************************************)
(* list: one page, after the names already listed.  When the folder holds  *)
(* more than the pull is prepared to read, nothing it listed is used.      *)
(***************************************************************************)
ListPage ==
  /\ task # Idle /\ task.pc = "list"
  /\ \/ /\ ~ cancelled
        /\ \E page \in SUBSET Unlisted(task.todo) :
             LET last == page = Unlisted(task.todo)
             IN  /\ IsPage(page, Unlisted(task.todo))
                 /\ shown' = shown \cup (page \ Others)
                 /\ IF ~ last /\ task.pages + 1 = MaxPages
                    THEN ImportAfterPull
                    ELSE /\ task' = [task EXCEPT !.todo = @ \cup page,
                                !.pages = IF last THEN 0 ELSE @ + 1,
                                !.pc = IF last THEN "pull" ELSE "list"]
                         /\ UNCHANGED progress
        /\ UNCHANGED fails
     \/ RequestFails /\ UNCHANGED shown
  /\ UNCHANGED <<world, inbox, temps>>

Pulling == task # Idle /\ task.pc = "pull"

(* What is no recording, or is there already, is left alone. *)
SkipPresent(n) ==
  /\ Pulling /\ ~ cancelled /\ First(n, task.todo)
  /\ n \in Others \/ inbox[n] # "absent"
  /\ task' = [task EXCEPT !.todo = @ \ {n}]
  /\ UNCHANGED <<world, inbox, temps, progress, shown, fails>>

(* Fault: a download is written under its own name. *)
WriteInPlace(n) == inbox' = [inbox EXCEPT ![n] = "partial"] /\ temps' = temps + 1

WriteAside(n) == temps' = temps + 1 /\ UNCHANGED inbox

(* download, up to the copying of the body into a temporary file. *)
BeginDownload(n) ==
  /\ Pulling /\ ~ cancelled /\ First(n, task.todo)
  /\ n \notin Others /\ inbox[n] = "absent" /\ n \notin stuck
  /\ task' = [task EXCEPT !.pc = "download", !.name = n, !.todo = @ \ {n}]
  /\ WriteAside(n)
  /\ UNCHANGED <<world, progress, shown, fails>>

(* The recording cannot be had, or the time of the pull is up. *)
DownloadRefused(n) ==
  /\ Pulling /\ First(n, task.todo)
  /\ \/ /\ ~ cancelled /\ n \in stuck /\ inbox[n] = "absent"
        /\ ImportAfterPull /\ UNCHANGED fails
     \/ RequestFails
  /\ UNCHANGED <<world, inbox, temps, shown>>

(* The body is complete and the temporary file takes its name, whether or  *)
(* not a file of that name has turned up in the meantime.                  *)
FinishDownload ==
  /\ task # Idle /\ task.pc = "download"
  /\ inbox' = [inbox EXCEPT ![task.name] = "whole"]
  /\ temps' = temps - 1
  /\ task' = [task EXCEPT !.pc = "pull", !.name = 0]
  /\ UNCHANGED <<world, progress, shown, fails>>

(* Fault: the temporary file stays. *)
Abandoned == temps

Removed == temps - 1

(* The body breaks off; the temporary file is removed. *)
DownloadBreaksOff ==
  /\ task # Idle /\ task.pc = "download"
  /\ temps' = Removed
  /\ RequestFails
  /\ UNCHANGED <<world, inbox, shown>>

PullDone ==
  /\ Pulling /\ task.todo = {}
  /\ task' = [task EXCEPT !.pc = "scan"]
  /\ UNCHANGED <<world, inbox, temps, progress, shown, fails>>

-----------------------------------------------------------------------------
(* The import *)

(* Fault: the error of the pull is forgotten. *)
FinishAnew(failed) ==
  /\ task' = Idle
  /\ progress' = [progress EXCEPT !.running = FALSE, !.err = failed]

Finish(failed) ==
  /\ task' = Idle
  /\ progress' = [progress EXCEPT !.running = FALSE, !.err = @ \/ failed]

(* newFiles: the files in the inbox without a record. *)
Scan ==
  /\ task # Idle /\ task.pc = "scan"
  /\ IF cancelled
     THEN Finish(TRUE) /\ UNCHANGED shown
     ELSE LET new == {n \in Recordings : inbox[n] # "absent" /\ record[n] = "none"}
          IN  /\ task' = [task EXCEPT !.pc = "next", !.todo = new]
              /\ progress' = [progress EXCEPT !.total = Cardinality(new)]
              /\ shown' = shown \cup new
  /\ UNCHANGED <<world, inbox, temps, fails>>

(* ingestFile reads the oldest, as it is at that moment. *)
ReadFile(n) ==
  /\ task # Idle /\ task.pc = "next" /\ First(n, task.todo) /\ ~ cancelled
  /\ task' = [task EXCEPT !.pc = "load", !.todo = @ \ {n}, !.name = n, !.read = inbox[n]]
  /\ untimely' = untimely \ {n}
  /\ UNCHANGED <<place, record, withdrawn, inbox, temps, progress, shown, fails>>

(* Ingest, up to ActiveTemplate: a failure when there is no route, or the  *)
(* context is cancelled.                                                   *)
LoadRoute ==
  /\ InHandAt("load")
  /\ task' = IF route /\ ~ cancelled THEN [task EXCEPT !.pc = "save"]
             ELSE [task EXCEPT !.pc = "mark", !.read = "absent", !.status = "error"]
  /\ untimely' = IF route THEN untimely ELSE untimely \cup {task.name}
  /\ UNCHANGED <<place, record, withdrawn, inbox, temps, progress, shown, fails>>

(* How Ingest goes on, given the route: a document that is truncated or    *)
(* spoilt is refused; one that does not follow the route is left at that;  *)
(* a trip cannot be stored once the context is cancelled, or a waypoint it *)
(* passes is gone.                                                         *)
Ingested ==
  IF task.read = "partial" \/ task.name \in Spoilt THEN {"error"}
  ELSE {"ignored", IF cancelled \/ task.dangling THEN "error" ELSE "ok"}

Save ==
  /\ InHandAt("save")
  /\ \E status \in Ingested :
       task' = [task EXCEPT !.pc = "mark", !.read = "absent", !.status = status,
                           !.dangling = FALSE]
  /\ UNCHANGED <<world, inbox, temps, progress, shown, fails>>

(* Fault: the outcome is recorded although the context is cancelled. *)
RecordedRegardless == [record EXCEPT ![task.name] = task.status]

(* MarkProcessed fails with a cancelled context, and when the trip that it *)
(* names is gone.  The failure is only logged.                             *)
Recorded ==
  IF cancelled \/ task.dangling THEN record
  ELSE [record EXCEPT ![task.name] = task.status]

MarkProcessed ==
  /\ InHandAt("mark")
  /\ record' = Recorded
  /\ progress' = [progress EXCEPT !.done = @ + 1]
  /\ task' = [task EXCEPT !.pc = "next", !.name = 0, !.status = "none", !.dangling = FALSE]
  /\ UNCHANGED <<place, history, inbox, temps, shown, fails>>

(* refresh returns: with an error when it was cancelled before the queue   *)
(* was empty.  The error of a pull stays.                                  *)
FinishRefresh ==
  /\ task # Idle /\ task.pc = "next"
  /\ task.todo = {} \/ cancelled
  /\ Finish(task.todo # {})
  /\ UNCHANGED <<world, inbox, temps, shown, fails>>

-----------------------------------------------------------------------------
(* The process *)

(* A signal cancels the context; what is running goes on for a while. *)
Shutdown ==
  /\ ~ cancelled /\ stops < MaxStops
  /\ cancelled' = TRUE
  /\ UNCHANGED <<cloud, stuck, route, files, record, task, progress, shown, history,
                 fails, stops, edits>>

(* The process ends, after a shutdown or without one, and starts again.    *)
(* A temporary file it was writing stays behind.                           *)
Restart ==
  /\ stops < MaxStops
  /\ stops' = stops + 1
  /\ cancelled' = FALSE
  /\ task' = Idle /\ progress' = NoProgress /\ shown' = {} /\ withdrawn' = {}
  /\ UNCHANGED <<cloud, stuck, route, files, record, untimely, fails, edits>>

-----------------------------------------------------------------------------

RefreshStep ==
  \/ ListPage
  \/ \E n \in Names : SkipPresent(n) \/ BeginDownload(n) \/ DownloadRefused(n) \/ ReadFile(n)
  \/ FinishDownload \/ DownloadBreaksOff \/ PullDone
  \/ Scan \/ LoadRoute \/ Save \/ MarkProcessed \/ FinishRefresh

Next ==
  \/ \E n \in Names : Upload(n) \/ BeginCopy(n) \/ EndCopy(n) \/ Forget(n)
  \/ CreateRoute \/ DeleteWaypoint \/ DeleteTrip
  \/ StartRefresh
  \/ RefreshStep
  \/ Shutdown
  \/ Restart

(* The goroutine runs, somebody presses the button again, and a process    *)
(* that has been told to stop does.                                        *)
Fairness ==
  /\ WF_vars(RefreshStep)
  /\ WF_vars(StartRefresh)
  /\ WF_vars(cancelled /\ Restart)

Spec == Init /\ [][Next]_vars

FairSpec == Spec /\ Fairness

-----------------------------------------------------------------------------
(* Properties *)

(***************************************************************************)
(* What Tracker takes for granted: a recording that is not copied in by    *)
(* hand turns up in the inbox whole, at once, and stays - however its      *)
(* download, or the process, is interrupted.                               *)
(***************************************************************************)
ArrivesWhole ==
  [][\A n \in Names \ byHand' :
       inbox'[n] # inbox[n] => inbox[n] = "absent" /\ inbox'[n] = "whole"]_vars

(***************************************************************************)
(* A recording is recorded as a failure only for what it is, for having    *)
(* been read while it was copied in by hand, or for its user's doings: no  *)
(* route yet, or a waypoint deleted as it was stored.  Neither an          *)
(* interrupted pull nor a shutdown in the middle of an import costs a      *)
(* recording its trip.                                                     *)
(***************************************************************************)
InterruptionsCostNothing ==
  \A n \in Names : record[n] = "error" => n \in byHand \cup Spoilt \cup untimely

(***************************************************************************)
(* A refresh that ends without an error has taken up all it came across:   *)
(* each recording in the folder is in the inbox and each file new in the   *)
(* inbox has a record - unless the process was told to stop, or somebody   *)
(* deleted its trip before it was recorded or had it forgotten since.      *)
(***************************************************************************)
CleanRefreshIsComplete ==
  (task = Idle /\ ~ progress.err /\ ~ cancelled) =>
    \A n \in shown : inbox[n] # "absent" /\ (record[n] # "none" \/ n \in withdrawn)

(***************************************************************************)
(* Whatever is in the inbox is recorded as seen at last, though every pull *)
(* may fail: a recording that cannot be downloaded, or a folder with too   *)
(* many, does not keep others out.                                         *)
(***************************************************************************)
InboxIsTakenUp == \A n \in Names : inbox[n] # "absent" ~> record[n] # "none"

(***************************************************************************)
(* A recording in the folder arrives at last, unless one that is listed    *)
(* before it can never be downloaded, or the folder has too many.          *)
(***************************************************************************)
RecordingsArrive ==
  \A n \in Recordings :
    n \in cloud ~> \/ inbox[n] # "absent"
                   \/ \E m \in stuck : m <= n
                   \/ Cardinality(cloud) > PageSize * MaxPages

(* "a repeated pull transfers only what is new" and existing files are     *)
(* "left alone" (drive.go): not one that was copied in during a download.  *)
ExistingAreLeftAlone ==
  [][FinishDownload => inbox[task.name] = "absent"]_vars
=============================================================================
