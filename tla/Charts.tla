------------------------------- MODULE Charts -------------------------------
(***************************************************************************)
(* The charts of the statistics page (static/stats-charts.js), drawn from  *)
(* the report embedded in it, next to the durations its tables print       *)
(* (formatDuration in internal/web/render.go).                             *)
(*                                                                         *)
(* The instants are in the order they passed; the wall clock of the zone   *)
(* reported in mostly follows them, and goes back when summer time ends.   *)
(***************************************************************************)
EXTENDS Report

CONSTANTS
  Lengths,   \* the durations a drive may take
  Walls,     \* the wall clocks: the local time of each instant
  Null       \* a gap in a line

(* A waypoint may be entered where the one before it was left, so that a   *)
(* stretch takes no time.                                                  *)
ASSUME ChartsAssumptions ==
  /\ Lengths \subseteq Nat /\ None \notin Lengths
  /\ \A wall \in Walls, t \in Instants : wall[t] \in Int
  /\ Null \notin Int

VARIABLES
  measured,   \* the segments table
  wall,       \* the zone reported in
  report,     \* the page: what is embedded in it
  weeks,      \* the labels of the weekly chart, and its lines
  trips       \* the lines of the chart of trips

vars == <<measured, wall, report, weeks, trips>>

Nothing == <<>>

Init ==
  /\ measured \in [Drives -> Lengths \cup {None}]
  /\ wall \in Walls
  /\ report = Nothing /\ weeks = Nothing /\ trips = Nothing

-----------------------------------------------------------------------------
(* Durations, as they are drawn and as they are printed *)

(* minutes: hundredths of a minute, rounded, of a number of n-ths of a     *)
(* tenth of a second.                                                      *)
Minutes(tenths, n) == (tenths + 3 * n) \div (6 * n)

(* Fault: the minutes are rounded as the seconds are. *)
TooltipUp(y) == [m |-> (y + 50) \div 100, s |-> ((y % 100) * 6 + 5) \div 10]

(* The label of a tick at v n-ths of a minute: floor, then round. *)
AxisLabel(v, n) == [m |-> v \div n, s |-> (120 * (v % n) + n) \div (2 * n)]

(* The label of a tooltip, from the point as it was drawn. *)
Tooltip(y) == AxisLabel(y, 100)

(* formatDuration *)
Printed(tenths) == [m |-> ((tenths + 5) \div 10) \div 60, s |-> ((tenths + 5) \div 10) % 60]

InSeconds(t) == 60 * t.m + t.s

-----------------------------------------------------------------------------
(* What a request and the page it returns do *)

ShowStats ==
  /\ report = Nothing
  /\ report' = Stats(measured, wall)
  /\ UNCHANGED <<measured, wall, weeks, trips>>

(* Fault: a week is looked up whatever stretch it is of. *)
WeekOfAny(point, seq, week) == point.week = week

WeekOfSame(point, seq, week) == point.seq = seq /\ point.week = week

(* A line has a value for each week: the last point that matches, or null. *)
WeekLine(seq, labels) ==
  [i \in DOMAIN labels |->
     LET of == {k \in DOMAIN report.weeks : WeekOfSame(report.weeks[k], seq, labels[i])}
     IN  IF of = {} THEN Null ELSE Minutes(report.weeks[Max(of)].median2, 2)]

WeeksChart ==
  LET labels == Ascending({report.weeks[k].week : k \in DOMAIN report.weeks})
  IN  [labels |-> labels,
       lines  |-> [i \in DOMAIN report.segments |-> WeekLine(report.segments[i].seq, labels)]]

(* Fault: the points are joined by how long the drives took. *)
ByLength(a, b) == a.y < b.y \/ (a.y = b.y /\ a.rank < b.rank)

(* By local time; sort is stable. *)
ByLocalTime(a, b) == a.x < b.x \/ (a.x = b.x /\ a.rank < b.rank)

TripLine(seq) ==
  LET mine  == {k \in DOMAIN report.trips : report.trips[k].seq = seq}
      point == [k \in mine |-> [x |-> report.trips[k].local,
                                y |-> Minutes(report.trips[k].duration, 1), rank |-> k]]
      order == Ranked([k \in mine |-> {l \in mine : ByLocalTime(point[l], point[k])}])
  IN  [i \in DOMAIN order |-> point[order[i]]]

TripsChart == [i \in DOMAIN report.segments |-> TripLine(report.segments[i].seq)]

(* The script draws nothing when the report has no stretch. *)
Draw ==
  /\ report # Nothing /\ report.segments # <<>>
  /\ weeks = Nothing /\ trips = Nothing
  /\ weeks' = (IF report.weeks = <<>> THEN Nothing ELSE WeeksChart)
  /\ trips' = (IF report.trips = <<>> THEN Nothing ELSE TripsChart)
  /\ UNCHANGED <<measured, wall, report>>

Next == ShowStats \/ Draw

Spec == Init /\ [][Next]_vars

-----------------------------------------------------------------------------
(* Properties *)

(***************************************************************************)
(* Among the hours of a stretch with enough measurements the fastest is    *)
(* the one the others are compared with, so none is better than 1 - as     *)
(* long as none of them takes no time at all, by its median.  Without an   *)
(* hour with enough measurements nothing is compared.                      *)
(***************************************************************************)
BelievableBaseline ==
  report # Nothing =>
    \A seq \in Reported(measured) :
      LET of       == {k \in DOMAIN report.hours : report.hours[k].seq = seq}
          believed == {k \in of : ~ report.hours[k].sparse}
      IN  IF believed = {} THEN \A k \in of : report.hours[k].best2 = 0
          ELSE (\A k \in believed : report.hours[k].median2 # 0) =>
                 /\ \A k \in believed : report.hours[k].median2 >= report.hours[k].best2
                 /\ \E k \in believed : report.hours[k].median2 = report.hours[k].best2

(***************************************************************************)
(* The median lies between the quartiles, these between the extremes, and  *)
(* at most half of the measurements lie on either side of it.  Fewer than  *)
(* half are called unusual, however they are spread.                       *)
(***************************************************************************)
MediansHalve ==
  report # Nothing =>
    \A i \in DOMAIN report.segments :
      LET s == report.segments[i].summary
          unusual == {k \in DOMAIN report.trips :
                        /\ report.trips[k].seq = report.segments[i].seq
                        /\ report.trips[k].outlier}
          times == {at \in Instants :
                      <<report.segments[i].seq, at>> \in Drives
                        /\ measured[<<report.segments[i].seq, at>>] # None}
          time(at) == 2 * measured[<<report.segments[i].seq, at>>]
      IN  /\ 2 * Cardinality(unusual) < s.count
          /\ 2 * Cardinality({at \in times : time(at) < s.median2}) <= s.count
          /\ 2 * Cardinality({at \in times : time(at) > s.median2}) <= s.count
          /\ 4 * s.min <= s.p25in4 /\ s.p25in4 <= 2 * s.median2
          /\ 2 * s.median2 <= s.p75in4 /\ 10 * s.p75in4 <= 4 * s.p90in10
          /\ s.p90in10 <= 10 * s.max

(***************************************************************************)
(* A line of the weekly chart has a value in exactly the weeks its stretch *)
(* was driven, under the label of that week, and no median but its own: it *)
(* lies between the shortest and the longest drive of that week.           *)
(***************************************************************************)
WeeksAreAligned ==
  weeks # Nothing =>
    \A i \in DOMAIN report.segments, j \in DOMAIN weeks.labels :
      LET seq   == report.segments[i].seq
          drove == {at \in Instants : /\ WeekOf[at] = weeks.labels[j]
                                      /\ <<seq, at>> \in Drives
                                      /\ measured[<<seq, at>>] # None}
          took  == {Minutes(measured[<<seq, at>>], 1) : at \in drove}
          value == weeks.lines[i][j]
      IN  IF drove = {} THEN value = Null ELSE value # Null /\ Min(took) <= value /\ value <= Max(took)

Forward == \A t, u \in Instants : t < u => wall[t] < wall[u]

(***************************************************************************)
(* The line of a stretch joins its drives in the order they were driven,   *)
(* each of them once, in a zone whose clocks do not go back.               *)
(***************************************************************************)
JoinedAsDriven ==
  (trips # Nothing /\ Forward) =>
    \A i \in DOMAIN report.segments :
      LET drove == Segments(measured, report.segments[i].seq)
      IN  /\ Len(trips[i]) = Len(drove)
          /\ \A k \in DOMAIN drove : trips[i][k].y = Minutes(drove[k].duration, 1)

(***************************************************************************)
(* The tooltip of a point tells the time of a drive as the tables would,   *)
(* to within a second, and never sixty seconds.                            *)
(***************************************************************************)
TooltipNearTable ==
  trips # Nothing =>
    \A i \in DOMAIN trips : \A k \in DOMAIN trips[i] :
      LET point == trips[i][k]
          tip   == Tooltip(point.y)
          told  == Printed(report.trips[point.rank].duration)
      IN  /\ Magnitude(InSeconds(tip) - InSeconds(told)) <= 1
          /\ tip.s <= 59

(* "the charts and the tables above them can never disagree"               *)
(* (stats-charts.js): 59.5 seconds are 1m 00s in a table, 0m 59s here.     *)
TooltipIsTable ==
  trips # Nothing =>
    \A i \in DOMAIN trips : \A k \in DOMAIN trips[i] :
      Tooltip(trips[i][k].y) = Printed(report.trips[trips[i][k].rank].duration)

(* "1.0 is as good as it gets" (HourCell): not for an hour with too few    *)
(* measurements to be the baseline.                                        *)
NothingBeatsTheBest ==
  report # Nothing => \A k \in DOMAIN report.hours : report.hours[k].median2 >= report.hours[k].best2

(* formatDuration carries into the minutes; an axis whose ticks are finer  *)
(* than the points need not: 9.995 minutes are labelled 9m 60s.            *)
AxisCarries == \A v \in 0 .. 9999 : AxisLabel(v, 1000).s <= 59

(* "Unusually slow journeys" (stats.gohtml): the fast are marked as well. *)
UnusualIsSlow ==
  report # Nothing =>
    \A k \in DOMAIN report.trips : report.trips[k].outlier =>
      \E i \in DOMAIN report.segments :
        /\ report.segments[i].seq = report.trips[k].seq
        /\ 2 * report.trips[k].duration > report.segments[i].summary.median2
=============================================================================
