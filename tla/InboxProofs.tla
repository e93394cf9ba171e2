---------------------------- MODULE InboxProofs ----------------------------
(***************************************************************************)
(* For any number of recordings, pages, failures and restarts: files       *)
(* arrive whole, no interruption makes a recording count as a failure,     *)
(* temporary files are left behind only by a process that ended, and a     *)
(* refresh without an error has taken up all it came across.               *)
(***************************************************************************)
EXTENDS Inbox, FiniteSetTheorems, TLAPS

At(pcs) == task # Idle /\ task.pc \in pcs

(* A download under way owns one temporary file; a process that ended left *)
(* one behind at most.  Only so many pages are listed.                     *)
Owned ==
  /\ temps \in Int
  /\ IF At({"download"}) THEN 1 <= temps /\ temps <= stops + 1
     ELSE 0 <= temps /\ temps <= stops
  /\ At({"list"}) => task.pages < MaxPages

(* The count on the page agrees with what is left of the queue. *)
Counts ==
  /\ At({"list", "pull", "download", "scan"}) => progress.done = 0 /\ progress.total = 0
  /\ At({"next"}) => progress.done + Cardinality(task.todo) = progress.total
  /\ At({"load", "save", "mark"}) => progress.done + 1 + Cardinality(task.todo) = progress.total

(* Where the file in hand comes from, and what is known of it. *)
InHand ==
  /\ \A n \in Names : inbox[n] = "partial" => n \in byHand
  /\ At({"download", "load", "save", "mark"}) => task.name \in Names
  /\ At({"next", "load", "save", "mark"}) => \A n \in task.todo : inbox[n] # "absent"
  /\ At({"next", "load", "save", "mark"}) => \A n \in task.todo : record[n] = "none"
  /\ At({"load", "save", "mark"}) => task.name \notin task.todo
  /\ At({"load", "save"}) =>
       task.read # "absent" /\ (task.read = "partial" => task.name \in byHand)
  /\ At({"mark"}) => task.status # "none"

(* What the import of the file in hand may be blamed on. *)
Excused(n) == n \in byHand \cup Spoilt \cup untimely

Blamed ==
  /\ (task # Idle /\ task.dangling) =>
       \/ task.pc = "save" /\ task.name \in untimely
       \/ task.pc = "mark" /\ task.name \in withdrawn
  /\ At({"mark"}) => (task.status = "error" => Excused(task.name) \/ cancelled)

(* What is left to do is in the queue or in hand. *)
Left(n) == n \in task.todo \/ (task.pc \in {"download", "load", "save", "mark"} /\ n = task.name)

(* A refresh without an error so far has lost nothing it came across. *)
Followed ==
  (~ progress.err /\ ~ cancelled) =>
    /\ At({"list", "pull", "download"}) => \A n \in shown : Left(n) \/ inbox[n] # "absent"
    /\ At({"scan"}) => \A n \in shown : inbox[n] # "absent"
    /\ At({"next", "load", "save", "mark"}) =>
         \A n \in shown :
           inbox[n] # "absent" /\ (Left(n) \/ record[n] # "none" \/ n \in withdrawn)

InboxInv ==
  /\ TypeOK /\ Owned /\ Counts
  /\ InHand /\ Blamed /\ InterruptionsCostNothing
  /\ Followed /\ CleanRefreshIsComplete

LEMMA IdleIsNoTask == Idle \notin Task
BY DEF Idle, Task

LEMMA NamesAreFinite == \A S \in SUBSET Names : IsFiniteSet(S) /\ Cardinality(S) \in Nat
<1>1. IsFiniteSet(Names)
  BY FS_Interval, InboxAssumptions DEF Names
<1>2. \A S \in SUBSET Names : IsFiniteSet(S)
  BY <1>1, FS_Subset
<1> QED
  BY <1>2, FS_CardinalityType

LEMMA TakenFromQueue ==
  ASSUME NEW S \in SUBSET Names, NEW n \in S
  PROVE  Cardinality(S \ {n}) = Cardinality(S) - 1
BY NamesAreFinite, FS_RemoveElement

(* Nothing has happened when the process starts for the first time. *)
LEMMA InboxStart == Init => InboxInv
<1> SUFFICES ASSUME Init PROVE InboxInv
  OBVIOUS
<1>1. task = Idle /\ ~ At({"list"}) /\ ~ At({"download"})
  BY DEF Init, At
<1>2. progress \in Progress /\ progress.done <= progress.total /\ shown = {}
  BY DEF Init, Progress, NoProgress
<1>3. stuck \subseteq Names /\ cancelled \in BOOLEAN /\ route \in BOOLEAN
  BY Zenon DEF Init, Recordings
<1>4. /\ fails \in 0 .. MaxFails /\ stops \in 0 .. MaxStops /\ edits \in 0 .. MaxEdits
      /\ temps \in Nat /\ temps <= stops + 1
  BY InboxAssumptions DEF Init
<1>5. TypeOK
  BY <1>1, <1>2, <1>3, <1>4 DEF Init, TypeOK, Outcomes
<1> QED
  BY <1>1, <1>2, <1>5
     DEF Init, InboxInv, Owned, Counts, InHand, Blamed, Excused, InterruptionsCostNothing, Followed,
         CleanRefreshIsComplete, At

-----------------------------------------------------------------------------
(* Steps outside the refresh *)

(* A recording turns up in the folder, or is copied in. *)
LEMMA ArrivalsKeep ==
  ASSUME InboxInv, NEW n \in Names, Upload(n) \/ BeginCopy(n) \/ EndCopy(n)
  PROVE  InboxInv'
<1> USE DEF InboxInv
<1>1. UNCHANGED <<stuck, route, temps, record, cancelled, task, progress, shown, history,
                  fails, stops, edits>>
  BY DEF Upload, BeginCopy, EndCopy, files
<1>2. cloud' \subseteq Names /\ byHand' \subseteq Names /\ byHand \subseteq byHand'
  BY DEF TypeOK, Upload, BeginCopy, EndCopy, files
<1>3. inbox' \in [Names -> {"absent", "partial", "whole"}]
  BY DEF TypeOK, Upload, BeginCopy, EndCopy, files
<1>4. \A m \in Names : inbox[m] # "absent" => inbox'[m] # "absent"
  BY DEF TypeOK, Upload, BeginCopy, EndCopy, files
<1>5. \A m \in Names : inbox'[m] = "partial" => m \in byHand'
  BY DEF TypeOK, InHand, Upload, BeginCopy, EndCopy, files
<1>6. TypeOK'
  BY <1>1, <1>2, <1>3 DEF TypeOK, history
<1>7. Owned' /\ Counts'
  BY <1>1 DEF Owned, Counts, At
<1>8. task # Idle => task.todo \subseteq Names
  BY DEF TypeOK, Task
<1>9. InHand' /\ Blamed' /\ InterruptionsCostNothing'
  BY <1>1, <1>2, <1>4, <1>5, <1>8
     DEF history, InHand, Blamed, Excused, InterruptionsCostNothing, At
<1>10. Followed' /\ CleanRefreshIsComplete'
  BY <1>1, <1>4 DEF history, Followed, CleanRefreshIsComplete, At, Left, TypeOK, Recordings
<1> QED
  BY <1>6, <1>7, <1>9, <1>10

(* A shutdown excuses what it interrupts. *)
LEMMA ShutdownKeeps == ASSUME InboxInv, Shutdown PROVE InboxInv'
<1> USE DEF InboxInv, Shutdown, files, history
<1>1. TypeOK' /\ Owned' /\ Counts'
  BY DEF TypeOK, Owned, Counts, At
<1>2. InHand' /\ Blamed' /\ InterruptionsCostNothing'
  BY DEF InHand, Blamed, Excused, InterruptionsCostNothing, At
<1>3. Followed' /\ CleanRefreshIsComplete'
  BY DEF Followed, CleanRefreshIsComplete
<1> QED
  BY <1>1, <1>2, <1>3

(***************************************************************************)
(* A route is set up, a waypoint or a trip is deleted, or a recording is   *)
(* forgotten: what that spoils is put down to it.                          *)
(***************************************************************************)
LEMMA EditsKeep ==
  ASSUME InboxInv, CreateRoute \/ DeleteWaypoint \/ DeleteTrip \/ (\E n \in Names : Forget(n))
  PROVE  InboxInv'
<1> USE DEF InboxInv
<1>1. UNCHANGED <<cloud, stuck, files, cancelled, progress, shown, fails, stops>>
  BY DEF CreateRoute, DeleteWaypoint, DeleteTrip, Forget
<1>2. route' \in BOOLEAN /\ edits' \in 0 .. MaxEdits
  <2>1. route' \in BOOLEAN
    BY Zenon DEF CreateRoute, DeleteWaypoint, DeleteTrip, Forget, TypeOK
  <2> QED
    BY <2>1, InboxAssumptions DEF CreateRoute, DeleteWaypoint, DeleteTrip, Forget, TypeOK
<1>3. CASE CreateRoute
  <2>1. UNCHANGED <<task, record, untimely, withdrawn>>
    BY <1>3 DEF CreateRoute, history
  <2> QED
    BY <1>1, <1>2, <2>1
       DEF files, TypeOK, Owned, Counts, InHand, Blamed, Excused, InterruptionsCostNothing,
           Followed, CleanRefreshIsComplete, At, Left
<1>4. CASE DeleteWaypoint \/ DeleteTrip
  <2>1. /\ task # Idle /\ task \in Task /\ task.pc \in {"save", "mark"} /\ UNCHANGED record
        /\ task' = [task EXCEPT !.dangling = TRUE] /\ task.name \in Names
    BY <1>4 DEF DeleteWaypoint, DeleteTrip, InHandAt, TypeOK, InHand, At
  <2>2. /\ task' \in Task /\ task'.pc = task.pc /\ task'.todo = task.todo
        /\ task'.name = task.name /\ task'.read = task.read /\ task'.status = task.status
        /\ task'.pages = task.pages
    BY <2>1 DEF Task
  <2>3. task' # Idle
    BY <2>2, IdleIsNoTask
  <2>4. /\ untimely \subseteq untimely' /\ withdrawn \subseteq withdrawn'
        /\ untimely' \subseteq Names /\ withdrawn' \subseteq Names
        /\ task.pc = "save" => task.name \in untimely'
        /\ task.pc = "mark" => task.name \in withdrawn'
    BY <1>4, <2>1 DEF DeleteWaypoint, DeleteTrip, InHandAt, TypeOK
  <2>5. TypeOK' /\ Owned' /\ Counts'
    BY <1>1, <1>2, <2>1, <2>2, <2>3, <2>4 DEF files, TypeOK, Owned, Counts, At
  <2>6. InHand' /\ Blamed' /\ InterruptionsCostNothing'
    BY <1>1, <2>1, <2>2, <2>3, <2>4
       DEF files, InHand, Blamed, Excused, InterruptionsCostNothing, At
  <2>7. Followed' /\ CleanRefreshIsComplete'
    BY <1>1, <2>1, <2>2, <2>3, <2>4 DEF files, Followed, CleanRefreshIsComplete, At, Left
  <2> QED
    BY <2>5, <2>6, <2>7
<1>5. ASSUME NEW n \in Names, Forget(n) PROVE InboxInv'
  <2>1. /\ UNCHANGED <<task, untimely>> /\ withdrawn' = withdrawn \cup {n}
        /\ record' \in [Names -> Outcomes]
        /\ \A m \in Names : record'[m] = IF m = n THEN "none" ELSE record[m]
    BY <1>5 DEF Forget, TypeOK, Outcomes
  <2>2. TypeOK' /\ Owned' /\ Counts'
    BY <1>1, <1>2, <2>1 DEF files, TypeOK, Owned, Counts, At
  <2>3. task # Idle => task.todo \subseteq Names
    BY DEF TypeOK, Task
  <2>4. InHand' /\ Blamed' /\ InterruptionsCostNothing'
    BY <1>1, <2>1, <2>3 DEF files, InHand, Blamed, Excused, InterruptionsCostNothing, At
  <2>5. shown \subseteq Names
    BY DEF TypeOK, Recordings
  <2>6. Followed' /\ CleanRefreshIsComplete'
    BY <1>1, <2>1, <2>5 DEF files, Followed, CleanRefreshIsComplete, At, Left
  <2> QED
    BY <2>2, <2>4, <2>6
<1> QED
  BY <1>3, <1>4, <1>5

(* A restart forgets the refresh and leaves its temporary file. *)
LEMMA RestartKeeps == ASSUME InboxInv, Restart PROVE InboxInv'
<1> USE DEF InboxInv, Restart, files
<1>1. task' = Idle /\ shown' = {} /\ withdrawn' = {} /\ stops' = stops + 1 /\ temps' = temps
  OBVIOUS
<1>2. progress' \in Progress /\ progress'.done <= progress'.total
  BY DEF Progress, NoProgress
<1>3. stops' \in 0 .. MaxStops /\ temps' <= stops' /\ temps' \in Nat
  BY InboxAssumptions DEF TypeOK, Owned
<1>4. TypeOK'
  <2>1. cancelled' \in BOOLEAN
    BY Zenon
  <2>2. temps' <= stops' + 1
    BY <1>3
  <2> QED
    BY <1>1, <1>2, <1>3, <2>1, <2>2 DEF TypeOK
<1>5. Owned' /\ Counts' /\ InHand' /\ Blamed' /\ InterruptionsCostNothing'
  BY <1>1, <1>3 DEF Owned, Counts, InHand, Blamed, Excused, InterruptionsCostNothing, At
<1> QED
  BY <1>1, <1>4, <1>5 DEF Followed, CleanRefreshIsComplete, At

(* The button is pressed. *)
LEMMA StartKeeps == ASSUME InboxInv, StartRefresh PROVE InboxInv'
<1> USE DEF InboxInv
<1>0. UNCHANGED <<place, record, untimely, inbox, temps, fails>> /\ shown' = {} /\ withdrawn' = {}
  BY DEF StartRefresh
<1>1. task' \in Task /\ task' = Started /\ task' # Idle /\ task = Idle
  <2>1. 0 \in 0 .. MaxPages
    BY InboxAssumptions
  <2>2. Started \in Task
    BY <2>1 DEF Started, Task, Outcomes
  <2> QED
    BY <2>2, IdleIsNoTask DEF StartRefresh
<1>2. task'.pc = "list" /\ task'.pages = 0 /\ ~ task'.dangling
  BY <1>1 DEF Started
<1>3. progress' \in Progress /\ progress'.done = 0 /\ progress'.total = 0
  BY DEF StartRefresh, Progress, NoProgress
<1>4. TypeOK'
  <2>1. TypeOK /\ UNCHANGED <<cloud, stuck, route, byHand, cancelled, stops, edits>>
    BY <1>0 DEF world, place, history
  <2>2. progress'.done <= progress'.total
    BY <1>3
  <2> QED
    BY <1>0, <1>1, <1>3, <2>1, <2>2 DEF TypeOK
<1>5. Owned'
  BY <1>0, <1>1, <1>2, InboxAssumptions DEF Owned, At, world, place, history
<1>6. Counts' /\ InHand' /\ Blamed' /\ InterruptionsCostNothing'
  BY <1>0, <1>1, <1>2, <1>3
     DEF Counts, InHand, Blamed, Excused, InterruptionsCostNothing, At, world, place, history
<1> QED
  BY <1>0, <1>1, <1>2, <1>4, <1>5, <1>6 DEF Followed, CleanRefreshIsComplete, At

-----------------------------------------------------------------------------
(* Steps of the refresh *)

(* A pull that fails is owned up to, and the import begins. *)
LEMMA FailedPullKeeps ==
  ASSUME InboxInv, At({"list", "pull", "download"}), ImportAfterPull,
         UNCHANGED <<world, inbox>>, shown' \subseteq Recordings, fails' \in 0 .. MaxFails,
         temps' \in Int, 0 <= temps', temps' <= stops
  PROVE  InboxInv'
<1> USE DEF InboxInv, world, place, history
<1>1. task \in Task /\ progress \in Progress
  BY DEF TypeOK, At
<1>2. /\ task' \in Task /\ task' # Idle /\ task'.pc = "scan" /\ task'.todo = {}
      /\ task'.dangling = task.dangling
  <2>1. 0 \in 0 .. MaxPages
    BY InboxAssumptions
  <2> QED
    BY <1>1, <2>1, IdleIsNoTask DEF ImportAfterPull, Task
<1>3. /\ progress' \in Progress /\ progress'.err = TRUE
      /\ progress'.total = progress.total /\ progress'.done = progress.done
  BY <1>1 DEF ImportAfterPull, Progress
<1>4. TypeOK'
  <2>1. temps' \in Nat /\ temps' <= stops' + 1
    BY DEF TypeOK
  <2> QED
    BY <1>2, <1>3, <2>1 DEF TypeOK
<1>5. Owned' /\ InHand' /\ Blamed' /\ InterruptionsCostNothing'
  BY <1>2 DEF Owned, InHand, Blamed, Excused, InterruptionsCostNothing, At
<1>6. Counts'
  BY <1>2, <1>3 DEF Counts, At
<1> QED
  BY <1>2, <1>3, <1>4, <1>5, <1>6 DEF Followed, CleanRefreshIsComplete, At

(* A refresh returns. *)
LEMMA ReturnKeeps ==
  ASSUME InboxInv, NEW failed \in BOOLEAN, Finish(failed), At({"scan", "next"}),
         UNCHANGED <<world, inbox, temps, shown, fails>>,
         (~ failed /\ ~ progress.err /\ ~ cancelled) =>
           \A n \in shown : inbox[n] # "absent" /\ (record[n] # "none" \/ n \in withdrawn)
  PROVE  InboxInv'
<1> USE DEF InboxInv, world, place, history
<1>1. progress \in Progress /\ task' = Idle
  BY DEF TypeOK, Finish
<1>2. (progress.err \/ failed) \in BOOLEAN
  BY Zenon
<1>3. /\ progress' \in Progress
      /\ progress'.total = progress.total /\ progress'.done = progress.done
  BY <1>1, <1>2 DEF Finish, Progress
<1>4. ~ progress'.err => ~ failed /\ ~ progress.err
  BY <1>1 DEF Finish, Progress
<1>5. TypeOK'
  BY <1>1, <1>3 DEF TypeOK
<1>6. Owned' /\ Counts' /\ InHand' /\ Blamed' /\ InterruptionsCostNothing' /\ Followed'
  BY <1>1 DEF Owned, Counts, InHand, Blamed, Excused, InterruptionsCostNothing, Followed, At
<1>7. CleanRefreshIsComplete'
  BY <1>4 DEF CleanRefreshIsComplete
<1> QED
  BY <1>5, <1>6, <1>7

(* A page is listed. *)
LEMMA ListKeeps == ASSUME InboxInv, ListPage PROVE InboxInv'
<1> USE DEF InboxInv
<1>1. At({"list"}) /\ At({"list", "pull", "download"}) /\ task \in Task /\ task.pc = "list"
  BY DEF ListPage, At, TypeOK
<1>2. temps \in Int /\ 0 <= temps /\ temps <= stops /\ task.pages < MaxPages
  BY <1>1 DEF Owned, At
<1>3. UNCHANGED <<world, inbox, temps>>
  BY DEF ListPage
<1>4. CASE RequestFails /\ UNCHANGED shown
  <2>1. fails' \in 0 .. MaxFails
    BY <1>4, InboxAssumptions DEF RequestFails, TypeOK
  <2> QED
    BY <1>1, <1>2, <1>3, <1>4, <2>1, FailedPullKeeps DEF RequestFails, TypeOK
<1>5. ASSUME NEW page \in SUBSET Unlisted(task.todo), shown' = shown \cup (page \ Others),
             UNCHANGED fails
      PROVE  page \subseteq Names /\ shown' \subseteq Recordings /\ fails' \in 0 .. MaxFails
  BY <1>5 DEF Unlisted, TypeOK, Recordings
<1>6. ASSUME NEW page \in SUBSET Unlisted(task.todo), shown' = shown \cup (page \ Others),
             UNCHANGED fails, ImportAfterPull
      PROVE  InboxInv'
  BY <1>1, <1>2, <1>3, <1>5, <1>6, FailedPullKeeps
<1>7. ASSUME NEW page \in SUBSET Unlisted(task.todo), NEW pc \in {"pull", "list"},
             pc = "list" => task.pages + 1 # MaxPages,
             NEW pages \in {0, task.pages + 1}, pc = "list" => pages = task.pages + 1,
             task' = [task EXCEPT !.todo = @ \cup page, !.pages = pages, !.pc = pc],
             shown' = shown \cup (page \ Others), UNCHANGED fails, UNCHANGED progress
      PROVE  InboxInv'
  <2>1. task.todo \subseteq Names /\ task.pages \in 0 .. MaxPages
    BY <1>1 DEF Task
  <2>2. pages \in 0 .. MaxPages
    BY <1>2, <1>7, <2>1, InboxAssumptions
  <2>3. task.todo \cup page \in SUBSET Names
    BY <1>5, <1>7, <2>1
  <2>4. task' \in Task
    BY <1>1, <1>7, <2>2, <2>3 DEF Task
  <2>5. /\ task' # Idle /\ task'.pc = pc /\ task'.todo = task.todo \cup page
        /\ task'.pages = pages /\ task'.dangling = task.dangling /\ task'.name = task.name
    BY <1>1, <1>7, <2>4, IdleIsNoTask DEF Task
  <2>6. TypeOK'
    BY <1>3, <1>5, <1>7, <2>4 DEF TypeOK, world, place, history
  <2>7. Owned'
    BY <1>2, <1>3, <1>7, <2>1, <2>5, InboxAssumptions DEF Owned, At, world, place, history
  <2>8. Counts' /\ InHand' /\ Blamed' /\ InterruptionsCostNothing'
    BY <1>1, <1>3, <1>7, <2>5
       DEF Counts, InHand, Blamed, Excused, InterruptionsCostNothing, At, world, place, history
  <2>9. Followed' /\ CleanRefreshIsComplete'
    BY <1>1, <1>3, <1>7, <2>5 DEF Followed, CleanRefreshIsComplete, At, Left, world, place, history
  <2> QED
    BY <2>6, <2>7, <2>8, <2>9
<1>8. CASE \E page \in SUBSET Unlisted(task.todo) :
             LET last == page = Unlisted(task.todo)
             IN  /\ IsPage(page, Unlisted(task.todo))
                 /\ shown' = shown \cup (page \ Others)
                 /\ IF ~ last /\ task.pages + 1 = MaxPages
                    THEN ImportAfterPull
                    ELSE /\ task' = [task EXCEPT !.todo = @ \cup page,
                                !.pages = IF last THEN 0 ELSE @ + 1,
                                !.pc = IF last THEN "pull" ELSE "list"]
                         /\ UNCHANGED progress
  <2>1. CASE UNCHANGED fails
    <3>1. PICK page \in SUBSET Unlisted(task.todo) :
            /\ shown' = shown \cup (page \ Others)
            /\ IF page # Unlisted(task.todo) /\ task.pages + 1 = MaxPages
               THEN ImportAfterPull
               ELSE /\ task' = [task EXCEPT !.todo = @ \cup page,
                                   !.pages = IF page = Unlisted(task.todo) THEN 0 ELSE @ + 1,
                                   !.pc = IF page = Unlisted(task.todo) THEN "pull" ELSE "list"]
                    /\ UNCHANGED progress
      BY <1>8, Zenon
    <3>2. CASE page # Unlisted(task.todo) /\ task.pages + 1 = MaxPages
      BY <1>6, <2>1, <3>1, <3>2
    <3>3. CASE page = Unlisted(task.todo)
      <4>1. task' = [task EXCEPT !.todo = @ \cup page, !.pages = 0, !.pc = "pull"]
        BY <3>1, <3>3
      <4> QED
        BY <1>7, <2>1, <3>1, <3>3, <4>1
    <3>4. CASE page # Unlisted(task.todo) /\ task.pages + 1 # MaxPages
      <4>1. task' = [task EXCEPT !.todo = @ \cup page, !.pages = task.pages + 1, !.pc = "list"]
        BY <3>1, <3>4
      <4> QED
        BY <1>7, <2>1, <3>1, <3>4, <4>1
    <3> QED
      BY <3>2, <3>3, <3>4
  <2>2. CASE RequestFails /\ UNCHANGED shown
    BY <1>4, <2>2
  <2> QED
    BY <2>1, <2>2 DEF ListPage
<1> QED
  BY <1>4, <1>8 DEF ListPage

(* A recording that is there already is passed over. *)
LEMMA SkipKeeps == ASSUME InboxInv, NEW n \in Names, SkipPresent(n) PROVE InboxInv'
<1> USE DEF InboxInv
<1>1. /\ UNCHANGED <<world, inbox, temps, progress, shown, fails>>
      /\ n \in shown => inbox[n] # "absent"
  BY DEF SkipPresent, TypeOK, Recordings
<1>2. task # Idle /\ task.pc = "pull" /\ task \in Task /\ task.todo \subseteq Names
  BY DEF SkipPresent, Pulling, TypeOK, Task
<1>3. /\ task' \in Task /\ task'.pc = "pull" /\ task'.todo = task.todo \ {n}
      /\ task'.dangling = task.dangling
  BY <1>2 DEF SkipPresent, Task
<1>4. task' # Idle
  BY <1>3, IdleIsNoTask
<1>5. TypeOK'
  BY <1>1, <1>3 DEF TypeOK, world, place, history
<1>6. Owned' /\ Counts' /\ InHand' /\ Blamed' /\ InterruptionsCostNothing'
  BY <1>1, <1>2, <1>3, <1>4
     DEF Owned, Counts, InHand, Blamed, Excused, InterruptionsCostNothing, At, world, place, history
<1>7. Followed' /\ CleanRefreshIsComplete'
  BY <1>1, <1>2, <1>3, <1>4 DEF Followed, CleanRefreshIsComplete, At, Left, world, place, history
<1> QED
  BY <1>5, <1>6, <1>7

(* A download begins in a temporary file. *)
LEMMA BeginKeeps == ASSUME InboxInv, NEW n \in Names, BeginDownload(n) PROVE InboxInv'
<1> USE DEF InboxInv
<1>1. UNCHANGED <<world, inbox, progress, shown, fails>> /\ temps' = temps + 1
  BY DEF BeginDownload, WriteAside
<1>2. task # Idle /\ task.pc = "pull" /\ task \in Task /\ task.todo \subseteq Names
  BY DEF BeginDownload, Pulling, TypeOK, Task
<1>3. /\ task' \in Task /\ task'.pc = "download" /\ task'.todo = task.todo \ {n}
      /\ task'.name = n /\ task'.dangling = task.dangling
  BY <1>2 DEF BeginDownload, Task
<1>4. task' # Idle
  BY <1>3, IdleIsNoTask
<1>5. Owned'
  BY <1>1, <1>2, <1>3, <1>4 DEF Owned, At, world, place, history, TypeOK
<1>6. TypeOK'
  <2>1. temps' \in Nat /\ temps' <= stops' + 1
    BY <1>1, <1>3, <1>4, <1>5 DEF Owned, At, world, place, history
  <2> QED
    BY <1>1, <1>3, <2>1 DEF TypeOK, world, place, history
<1>7. Counts' /\ InHand' /\ Blamed' /\ InterruptionsCostNothing'
  BY <1>1, <1>2, <1>3, <1>4
     DEF Counts, InHand, Blamed, Excused, InterruptionsCostNothing, At, world, place, history
<1>8. Followed' /\ CleanRefreshIsComplete'
  BY <1>1, <1>2, <1>3, <1>4 DEF Followed, CleanRefreshIsComplete, At, Left, world, place, history
<1> QED
  BY <1>5, <1>6, <1>7, <1>8

(* A download that is refused or breaks off ends the pull. *)
LEMMA NoDownloadKeeps ==
  ASSUME InboxInv, (\E n \in Names : DownloadRefused(n)) \/ DownloadBreaksOff
  PROVE  InboxInv'
<1> USE DEF InboxInv
<1>1. At({"pull", "download"}) /\ At({"list", "pull", "download"})
  BY DEF DownloadRefused, DownloadBreaksOff, Pulling, At
<1>2. ImportAfterPull /\ UNCHANGED <<world, inbox, shown>> /\ fails' \in 0 .. MaxFails
  BY InboxAssumptions DEF DownloadRefused, DownloadBreaksOff, RequestFails, TypeOK
<1>3. CASE DownloadBreaksOff
  <2>1. temps' \in Int /\ 0 <= temps' /\ temps' <= stops
    BY <1>3 DEF DownloadBreaksOff, Removed, Owned, At, TypeOK
  <2> QED
    BY <1>1, <1>2, <2>1, FailedPullKeeps DEF TypeOK
<1>4. CASE \E n \in Names : DownloadRefused(n)
  <2>1. temps' = temps /\ task.pc = "pull"
    BY <1>4 DEF DownloadRefused, Pulling
  <2>2. temps' \in Int /\ 0 <= temps' /\ temps' <= stops
    BY <2>1 DEF Owned, At
  <2> QED
    BY <1>1, <1>2, <2>2, FailedPullKeeps DEF TypeOK
<1> QED
  BY <1>3, <1>4
(* A download is complete: the temporary file takes the name. *)
LEMMA EndKeeps == ASSUME InboxInv, FinishDownload PROVE InboxInv'
<1> USE DEF InboxInv
<1>1. UNCHANGED <<world, progress, shown, fails>> /\ temps' = temps - 1
  BY DEF FinishDownload
<1>2. task # Idle /\ task.pc = "download" /\ task \in Task /\ task.name \in Names
  BY DEF FinishDownload, TypeOK, InHand, At
<1>3. /\ task' \in Task /\ task'.pc = "pull" /\ task'.todo = task.todo
      /\ task'.dangling = task.dangling
  BY <1>2 DEF FinishDownload, Task
<1>4. task' # Idle
  BY <1>3, IdleIsNoTask
<1>5. /\ inbox' \in [Names -> {"absent", "partial", "whole"}]
      /\ \A n \in Names : inbox'[n] = IF n = task.name THEN "whole" ELSE inbox[n]
  BY <1>2 DEF FinishDownload, TypeOK
<1>6. Owned'
  <2>1. temps \in Int /\ stops \in Int /\ 1 <= temps /\ temps <= stops + 1
    BY <1>2 DEF Owned, At, TypeOK
  <2>2. temps' \in Int /\ 0 <= temps' /\ temps' <= stops'
    BY <1>1, <2>1 DEF world, place, history
  <2> QED
    BY <1>3, <1>4, <2>2 DEF Owned, At
<1>7. TypeOK'
  <2>1. temps' \in Nat /\ temps' <= stops' + 1
    BY <1>1, <1>2 DEF Owned, At, world, place, history, TypeOK
  <2> QED
    BY <1>1, <1>3, <1>5, <2>1 DEF TypeOK, world, place, history
<1>8. Counts' /\ InHand' /\ Blamed' /\ InterruptionsCostNothing'
  BY <1>1, <1>2, <1>3, <1>4, <1>5
     DEF Counts, InHand, Blamed, Excused, InterruptionsCostNothing, At, world, place, history
<1>9. Followed' /\ CleanRefreshIsComplete'
  <2>1. shown \subseteq Names
    BY DEF TypeOK, Recordings
  <2> QED
    BY <1>1, <1>2, <1>3, <1>4, <1>5, <2>1
       DEF Followed, CleanRefreshIsComplete, At, Left, world, place, history
<1> QED
  BY <1>6, <1>7, <1>8, <1>9

(* Everything listed has been pulled. *)
LEMMA PulledKeeps == ASSUME InboxInv, PullDone PROVE InboxInv'
<1> USE DEF InboxInv
<1>1. UNCHANGED <<world, inbox, temps, progress, shown, fails>>
  BY DEF PullDone
<1>2. task # Idle /\ task.pc = "pull" /\ task \in Task /\ task.todo = {}
  BY DEF PullDone, Pulling, TypeOK
<1>3. task' \in Task /\ task'.pc = "scan" /\ task'.todo = {} /\ task'.dangling = task.dangling
  BY <1>2 DEF PullDone, Task
<1>4. task' # Idle
  BY <1>3, IdleIsNoTask
<1>5. TypeOK'
  BY <1>1, <1>3 DEF TypeOK, world, place, history
<1>6. Owned' /\ Counts' /\ InHand' /\ Blamed' /\ InterruptionsCostNothing'
  BY <1>1, <1>2, <1>3, <1>4
     DEF Owned, Counts, InHand, Blamed, Excused, InterruptionsCostNothing, At, world, place, history
<1>7. Followed' /\ CleanRefreshIsComplete'
  BY <1>1, <1>2, <1>3, <1>4 DEF Followed, CleanRefreshIsComplete, At, Left, world, place, history
<1> QED
  BY <1>5, <1>6, <1>7

(* The queue is what is in the inbox and has no record. *)
LEMMA ScanKeeps == ASSUME InboxInv, Scan PROVE InboxInv'
<1> USE DEF InboxInv
<1> DEFINE new == {n \in Recordings : inbox[n] # "absent" /\ record[n] = "none"}
<1>1. UNCHANGED <<world, inbox, temps, fails>>
  BY DEF Scan
<1>2. task # Idle /\ task.pc = "scan" /\ task \in Task
  BY DEF Scan, TypeOK
<1>3. CASE cancelled
  <2>1. Finish(TRUE) /\ UNCHANGED shown
    BY <1>3 DEF Scan
  <2> QED
    BY <1>1, <1>2, <1>3, <2>1, ReturnKeeps DEF At
<1>4. CASE ~ cancelled
  <2>1. /\ task' = [task EXCEPT !.pc = "next", !.todo = new]
        /\ progress' = [progress EXCEPT !.total = Cardinality(new)]
        /\ shown' = shown \cup new
    BY <1>4 DEF Scan
  <2>2. new \in SUBSET Recordings /\ new \in SUBSET Names /\ Cardinality(new) \in Nat
    BY NamesAreFinite DEF Recordings
  <2>3. task' \in Task /\ task'.pc = "next" /\ task'.todo = new /\ task'.dangling = task.dangling
    BY <1>2, <2>1, <2>2 DEF Task
  <2>4. task' # Idle
    BY <2>3, IdleIsNoTask
  <2>5. progress.done = 0 /\ progress \in Progress
    BY <1>2 DEF Counts, At, TypeOK
  <2>6. /\ progress' \in Progress /\ progress'.total = Cardinality(new)
        /\ progress'.done = 0 /\ progress'.err = progress.err
    BY <2>1, <2>2, <2>5 DEF Progress
  <2>7. TypeOK'
    <3>1. progress'.done <= progress'.total
      BY <2>2, <2>6
    <3>2. shown' \subseteq Recordings
      BY <2>1, <2>2 DEF TypeOK
    <3> QED
      BY <1>1, <2>3, <2>6, <3>1, <3>2 DEF TypeOK, world, place, history
  <2>8. Owned' /\ Counts'
    BY <1>1, <1>2, <2>2, <2>3, <2>4, <2>6 DEF Owned, Counts, At, world, place, history
  <2>9. InHand' /\ Blamed' /\ InterruptionsCostNothing'
    <3>1. \A n \in new : inbox[n] # "absent" /\ record[n] = "none"
      OBVIOUS
    <3>2. ~ task.dangling
      BY <1>2 DEF Blamed
    <3> HIDE DEF new
    <3>3. InHand' /\ InterruptionsCostNothing'
      BY <1>1, <2>3, <2>4, <3>1 DEF InHand, InterruptionsCostNothing, At, world, place, history
    <3>4. Blamed'
      BY <2>3, <2>4, <3>2 DEF Blamed, At
    <3> QED
      BY <3>3, <3>4
  <2>10. Followed' /\ CleanRefreshIsComplete'
    <3>1. (~ progress.err /\ ~ cancelled) => \A n \in shown : inbox[n] # "absent"
      BY <1>2 DEF Followed, At
    <3>2. shown \subseteq Recordings
      BY DEF TypeOK
    <3> QED
      BY <1>1, <2>1, <2>3, <2>4, <2>6, <3>1, <3>2
         DEF Followed, CleanRefreshIsComplete, At, Left, world, place, history
  <2> QED
    BY <2>7, <2>8, <2>9, <2>10
<1> QED
  BY <1>3, <1>4

(* The oldest file is read. *)
LEMMA ReadKeeps == ASSUME InboxInv, NEW n \in Names, ReadFile(n) PROVE InboxInv'
<1> USE DEF InboxInv
<1>1. /\ UNCHANGED <<place, record, withdrawn, inbox, temps, progress, shown, fails>>
      /\ untimely' = untimely \ {n}
  BY DEF ReadFile
<1>2. /\ task # Idle /\ task.pc = "next" /\ task \in Task /\ n \in task.todo
      /\ task.todo \in SUBSET Names /\ inbox[n] \in {"absent", "partial", "whole"}
  BY DEF ReadFile, First, TypeOK, Task
<1>3. /\ task' \in Task /\ task'.pc = "load" /\ task'.todo = task.todo \ {n}
      /\ task'.name = n /\ task'.read = inbox[n] /\ task'.dangling = task.dangling
  BY <1>2 DEF ReadFile, Task
<1>4. task' # Idle
  BY <1>3, IdleIsNoTask
<1>5. TypeOK'
  BY <1>1, <1>3 DEF TypeOK, place
<1>6. Owned'
  BY <1>1, <1>2, <1>3, <1>4 DEF Owned, At, place
<1>7. Counts'
  <2>1. Cardinality(task'.todo) = Cardinality(task.todo) - 1 /\ Cardinality(task.todo) \in Nat
    BY <1>2, <1>3, TakenFromQueue, NamesAreFinite
  <2>2. progress.done + Cardinality(task.todo) = progress.total /\ progress.done \in Nat
    BY <1>2 DEF Counts, At, TypeOK, Progress
  <2> QED
    BY <1>1, <1>3, <1>4, <2>1, <2>2 DEF Counts, At
<1>8. InHand'
  BY <1>1, <1>2, <1>3, <1>4 DEF InHand, At, place
<1>9. Blamed' /\ InterruptionsCostNothing'
  <2>1. record[n] = "none" /\ ~ task.dangling
    BY <1>2 DEF InHand, Blamed, At
  <2> QED
    BY <1>1, <1>3, <1>4, <2>1 DEF Blamed, InterruptionsCostNothing, At, place
<1>10. Followed' /\ CleanRefreshIsComplete'
  BY <1>1, <1>2, <1>3, <1>4 DEF Followed, CleanRefreshIsComplete, At, Left, place
<1> QED
  BY <1>5, <1>6, <1>7, <1>8, <1>9, <1>10

(* The route is loaded: there may be none. *)
LEMMA LoadKeeps == ASSUME InboxInv, LoadRoute PROVE InboxInv'
<1> USE DEF InboxInv
<1>1. UNCHANGED <<place, record, withdrawn, inbox, temps, progress, shown, fails>>
  BY DEF LoadRoute
<1>2. task # Idle /\ task.pc = "load" /\ task \in Task /\ task.name \in Names
  BY DEF LoadRoute, InHandAt, TypeOK, InHand, At
<1>3. /\ untimely \subseteq untimely' /\ untimely' \subseteq Names
      /\ ~ route => task.name \in untimely'
  BY <1>2 DEF LoadRoute, TypeOK
<1>4. /\ task' \in Task /\ task'.todo = task.todo
      /\ task'.name = task.name /\ task'.dangling = task.dangling
      /\ \/ task'.pc = "save" /\ task'.read = task.read
         \/ task'.pc = "mark" /\ task'.status = "error" /\ (~ route \/ cancelled)
  <2>1. CASE route /\ ~ cancelled
    <3>1. task' = [task EXCEPT !.pc = "save"]
      BY <2>1 DEF LoadRoute
    <3> QED
      BY <1>2, <3>1 DEF Task
  <2>2. CASE ~ (route /\ ~ cancelled)
    <3>1. task' = [task EXCEPT !.pc = "mark", !.read = "absent", !.status = "error"]
      BY <2>2 DEF LoadRoute
    <3> QED
      BY <1>2, <2>2, <3>1 DEF Task, Outcomes
  <2> QED
    BY <2>1, <2>2
<1>5. task' # Idle
  BY <1>4, IdleIsNoTask
<1>6. TypeOK' /\ Owned'
  BY <1>1, <1>2, <1>3, <1>4, <1>5 DEF TypeOK, Owned, At, place
<1>7. Counts' /\ InHand'
  BY <1>1, <1>2, <1>4, <1>5 DEF Counts, InHand, At, place
<1>8. Blamed' /\ InterruptionsCostNothing'
  BY <1>1, <1>2, <1>3, <1>4, <1>5 DEF Blamed, Excused, InterruptionsCostNothing, At, place
<1>9. Followed' /\ CleanRefreshIsComplete'
  BY <1>1, <1>2, <1>4, <1>5 DEF Followed, CleanRefreshIsComplete, At, Left, place
<1> QED
  BY <1>6, <1>7, <1>8, <1>9

(* What was read is made a trip, or not. *)
LEMMA SaveKeeps == ASSUME InboxInv, Save PROVE InboxInv'
<1> USE DEF InboxInv
<1>1. UNCHANGED <<world, inbox, temps, progress, shown, fails>>
  BY DEF Save
<1>2. task # Idle /\ task.pc = "save" /\ task \in Task
  BY DEF Save, InHandAt, TypeOK
<1>3. PICK status \in Ingested :
        task' = [task EXCEPT !.pc = "mark", !.read = "absent", !.status = status,
                             !.dangling = FALSE]
  BY DEF Save
<1>4. /\ status \in Outcomes \ {"none"}
      /\ status = "error" =>
           task.read = "partial" \/ task.name \in Spoilt \/ cancelled \/ task.dangling
  BY DEF Ingested, Outcomes
<1>5. /\ task' \in Task /\ task'.pc = "mark" /\ task'.todo = task.todo
      /\ task'.name = task.name /\ task'.status = status /\ task'.dangling = FALSE
  BY <1>2, <1>3, <1>4 DEF Task
<1>6. task' # Idle
  BY <1>5, IdleIsNoTask
<1>7. TypeOK' /\ Owned'
  BY <1>1, <1>2, <1>5, <1>6 DEF TypeOK, Owned, At, world, place, history
<1>8. Counts' /\ InHand'
  BY <1>1, <1>2, <1>4, <1>5, <1>6 DEF Counts, InHand, At, world, place, history
<1>9. Blamed' /\ InterruptionsCostNothing'
  <2>1. task.read = "partial" => task.name \in byHand
    BY <1>2 DEF InHand, At
  <2>2. task.dangling => task.name \in untimely
    BY <1>2 DEF Blamed
  <2> QED
    BY <1>1, <1>4, <1>5, <1>6, <2>1, <2>2
       DEF Blamed, Excused, InterruptionsCostNothing, At, world, place, history
<1>10. Followed' /\ CleanRefreshIsComplete'
  BY <1>1, <1>2, <1>5, <1>6
     DEF Followed, CleanRefreshIsComplete, At, Left, world, place, history
<1> QED
  BY <1>7, <1>8, <1>9, <1>10

(* The outcome is recorded, unless the process is shutting down or the     *)
(* trip is gone.                                                           *)
LEMMA MarkKeeps == ASSUME InboxInv, MarkProcessed PROVE InboxInv'
<1> USE DEF InboxInv
<1>1. UNCHANGED <<place, history, inbox, temps, shown, fails>>
  BY DEF MarkProcessed
<1>2. task # Idle /\ task.pc = "mark" /\ task \in Task /\ task.todo \in SUBSET Names
  BY DEF MarkProcessed, InHandAt, TypeOK, Task
<1>3. task' \in Task /\ task'.pc = "next" /\ task'.todo = task.todo /\ task'.dangling = FALSE
  BY <1>2 DEF MarkProcessed, Task, Outcomes
<1>4. task' # Idle
  BY <1>3, IdleIsNoTask
<1>5. /\ task.name \in Names \ task.todo /\ task.status \in Outcomes \ {"none"}
      /\ task.status = "error" => Excused(task.name) \/ cancelled
      /\ task.dangling => task.name \in withdrawn
  BY <1>2 DEF InHand, Blamed, At, Task
<1>6. /\ progress' \in Progress /\ progress'.done = progress.done + 1
      /\ progress'.total = progress.total /\ progress'.err = progress.err
  BY DEF MarkProcessed, TypeOK, Progress
<1>7. /\ record' \in [Names -> Outcomes]
      /\ \A n \in Names :
           record'[n] = IF ~ cancelled /\ ~ task.dangling /\ n = task.name
                        THEN task.status ELSE record[n]
  BY <1>5 DEF MarkProcessed, Recorded, TypeOK
<1>8. Counts'
  BY <1>2, <1>3, <1>4, <1>6 DEF Counts, At
<1>9. TypeOK'
  <2>1. progress.done + 1 + Cardinality(task.todo) = progress.total
    BY <1>2 DEF Counts, At
  <2>2. Cardinality(task.todo) \in Nat /\ progress \in Progress
    BY <1>2, NamesAreFinite DEF TypeOK
  <2>3. progress'.done <= progress'.total
    BY <1>6, <2>1, <2>2 DEF Progress
  <2> QED
    BY <1>1, <1>3, <1>6, <1>7, <2>3 DEF TypeOK, place, history
<1>10. Owned' /\ InHand'
  BY <1>1, <1>2, <1>3, <1>4, <1>5, <1>7 DEF Owned, InHand, At, place
<1>11. Blamed' /\ InterruptionsCostNothing'
  BY <1>1, <1>3, <1>4, <1>5, <1>7
     DEF Blamed, Excused, InterruptionsCostNothing, At, place, history
<1>12. Followed' /\ CleanRefreshIsComplete'
  <2>1. shown \subseteq Names
    BY DEF TypeOK, Recordings
  <2> QED
    BY <1>1, <1>2, <1>3, <1>4, <1>5, <1>6, <1>7, <2>1
       DEF Followed, CleanRefreshIsComplete, At, Left, place, history
<1> QED
  BY <1>8, <1>9, <1>10, <1>11, <1>12

(* The refresh ends with the queue empty, or cancelled. *)
LEMMA FinishKeeps == ASSUME InboxInv, FinishRefresh PROVE InboxInv'
<1> USE DEF InboxInv
<1>1. task # Idle /\ task.pc = "next" /\ task \in Task
  BY DEF FinishRefresh, TypeOK
<1>2. PICK failed \in BOOLEAN : Finish(failed) /\ (~ failed => task.todo = {})
  <2>1. CASE task.todo = {}
    BY <2>1, Zenon DEF FinishRefresh, Finish
  <2>2. CASE task.todo # {}
    BY <2>2, Zenon DEF FinishRefresh, Finish
  <2> QED
    BY <2>1, <2>2
<1>3. UNCHANGED <<world, inbox, temps, shown, fails>> /\ At({"scan", "next"})
  BY <1>1 DEF FinishRefresh, At
<1>4. (~ failed /\ ~ progress.err /\ ~ cancelled) =>
        \A n \in shown : inbox[n] # "absent" /\ (record[n] # "none" \/ n \in withdrawn)
  BY <1>1, <1>2 DEF Followed, At, Left
<1> QED
  BY <1>2, <1>3, <1>4, ReturnKeeps

LEMMA InboxStep == InboxInv /\ [Next]_vars => InboxInv'
<1> SUFFICES ASSUME InboxInv, [Next]_vars PROVE InboxInv'
  OBVIOUS
<1>1. CASE RefreshStep
  BY <1>1, ListKeeps, SkipKeeps, BeginKeeps, NoDownloadKeeps, ReadKeeps, EndKeeps, PulledKeeps,
     ScanKeeps, LoadKeeps, SaveKeeps, MarkKeeps, FinishKeeps DEF RefreshStep
<1>2. CASE UNCHANGED vars
  BY <1>2
     DEF vars, files, history, InboxInv, TypeOK, Owned, Counts, InHand, Blamed, Excused,
         InterruptionsCostNothing, Followed,
             CleanRefreshIsComplete, At, Left
<1> QED
  BY <1>1, <1>2, ArrivalsKeep, EditsKeep, StartKeeps, ShutdownKeeps, RestartKeeps DEF Next

-----------------------------------------------------------------------------
(* The state of folder, inbox and refresh is well formed: the counts on    *)
(* the page agree, and temporary files do not pile up.                     *)
THEOREM InboxTyped == Spec => []TypeOK
<1>1. InboxInv => TypeOK
  BY DEF InboxInv
<1> QED
  BY <1>1, InboxStart, InboxStep, PTL DEF Spec

(***************************************************************************)
(* Neither an interrupted pull nor a shutdown in the middle of an import   *)
(* makes a recording count as a failure (download, ingestFile).            *)
(***************************************************************************)
THEOREM InterruptionsCostNoTrip == Spec => []InterruptionsCostNothing
<1>1. InboxInv => InterruptionsCostNothing
  BY DEF InboxInv
<1> QED
  BY <1>1, InboxStart, InboxStep, PTL DEF Spec

(***************************************************************************)
(* A refresh that shows no error has taken up every recording it came      *)
(* across, in the folder or in the inbox, but for those whose record or    *)
(* trip somebody deleted since (Refresh, refresh, MarkProcessed).          *)
(***************************************************************************)
THEOREM CleanRefreshesAreComplete == Spec => []CleanRefreshIsComplete
<1>1. InboxInv => CleanRefreshIsComplete
  BY DEF InboxInv
<1> QED
  BY <1>1, InboxStart, InboxStep, PTL DEF Spec

(* Only a copy by hand is ever in the inbox by halves. *)
LEMMA WholeStep ==
  ASSUME InboxInv, [Next]_vars, NEW n \in Names \ byHand', inbox'[n] # inbox[n]
  PROVE  inbox[n] = "absent" /\ inbox'[n] = "whole"
<1> USE DEF InboxInv
<1>1. CASE FinishDownload
  <2>1. byHand' = byHand /\ inbox[n] # "partial" /\ inbox[n] \in {"absent", "partial", "whole"}
    BY <1>1 DEF FinishDownload, world, place, history, InHand, TypeOK
  <2>2. inbox' = [inbox EXCEPT ![task.name] = "whole"] /\ task.name \in Names
    BY <1>1 DEF FinishDownload, InHand, At
  <2> QED
    BY <2>1, <2>2 DEF TypeOK
<1>2. CASE \E m \in Names : BeginCopy(m) \/ EndCopy(m)
  <2>1. PICK m \in Names : BeginCopy(m) \/ EndCopy(m)
    BY <1>2
  <2>2. m \in byHand'
    BY <2>1 DEF BeginCopy, EndCopy, InHand
  <2> QED
    BY <2>1, <2>2 DEF BeginCopy, EndCopy, TypeOK
<1>3. CASE UNCHANGED inbox
  BY <1>3
<1> QED
  BY <1>1, <1>2, <1>3
     DEF Next, RefreshStep, Upload, StartRefresh, ListPage, SkipPresent, BeginDownload, WriteAside,
         DownloadRefused, DownloadBreaksOff, PullDone, Scan, ReadFile, LoadRoute, Save,
         MarkProcessed, CreateRoute, DeleteWaypoint, DeleteTrip, Forget,
         FinishRefresh, Shutdown, Restart, files, vars

(***************************************************************************)
(* A recording that is not copied in by hand appears in the inbox whole    *)
(* and at once, and is never overwritten by halves (download).             *)
(***************************************************************************)
THEOREM RecordingsArriveWhole == Spec => ArrivesWhole
<1>1. InboxInv /\ [Next]_vars =>
        [\A n \in Names \ byHand' :
           inbox'[n] # inbox[n] => inbox[n] = "absent" /\ inbox'[n] = "whole"]_vars
  BY WholeStep
<1> QED
  BY <1>1, InboxStart, InboxStep, PTL DEF Spec, ArrivesWhole
=============================================================================
