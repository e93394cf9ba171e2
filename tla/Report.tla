------------------------------- MODULE Report -------------------------------
(***************************************************************************)
(* The statistics page as the server computes it: which measurements are   *)
(* read (internal/storage/segments.go), how they are summarised            *)
(* (internal/stats/stats.go) and what is reported of each stretch          *)
(* (internal/service/stats.go).                                            *)
(*                                                                         *)
(* Durations are whole tenths of a second.  What the code computes as a    *)
(* fraction is kept as a multiple of it: a median is given in halves, a    *)
(* deviation from it in quarters.  Means, distances and speeds, which only *)
(* decorate the tables, are left out.                                      *)
(***************************************************************************)
EXTENDS Integers, FiniteSetsExt, SequencesExt

CONSTANTS
  Drives,      \* <<stretch, instant>>: the measurements there may be
  None,        \* not completed, or not in the dates and direction asked for
  HourOf,      \* the local hour stored with an instant
  WeekOf,      \* the calendar week of an instant in the zone reported in
  MinSamples   \* minSamplesForPattern

ASSUME ReportAssumptions ==
  /\ IsFiniteSet(Drives) /\ Drives \subseteq Int \X Int
  /\ \A drive \in Drives : HourOf[drive[2]] \in Int /\ WeekOf[drive[2]] \in Int
  /\ MinSamples \in Nat \ {0}

Stretches == {drive[1] : drive \in Drives}
Instants == {drive[2] : drive \in Drives}

(* The elements of a finite set in order, given those before each of them. *)
Ranked(before) ==
  [i \in 1 .. Cardinality(DOMAIN before) |->
     CHOOSE x \in DOMAIN before : Cardinality(before[x]) = i - 1]

Ascending(S) == Ranked([x \in S |-> {y \in S : y < x}])

(* What a list has at the places I. *)
Taking(list, I) == LET order == Ascending(I) IN [i \in DOMAIN order |-> list[order[i]]]

(* The lists f gives, end to end, its arguments in ascending order. *)
EndToEnd(f) ==
  LET places == UNION {{x} \X DOMAIN f[x] : x \in DOMAIN f}
      order == Ranked([p \in places |->
                 {q \in places : q[1] < p[1] \/ (q[1] = p[1] /\ q[2] < p[2])}])
  IN  [k \in DOMAIN order |-> f[order[k][1]][order[k][2]]]

-----------------------------------------------------------------------------
(* Summaries *)

(* Fault: the values are summarised in the order they were driven. *)
InOrderDriven(values) == values

SortedValues(values) ==
  LET order == Ranked([i \in DOMAIN values |->
                 {j \in DOMAIN values : values[j] < values[i] \/ (values[j] = values[i] /\ j < i)}])
  IN  [i \in DOMAIN order |-> values[order[i]]]

(* percentile num/den of a sorted sequence, times den. *)
Percentile(values, num, den) ==
  LET pos  == num * (Len(values) - 1)
      lo   == 1 + pos \div den
      part == pos % den
  IN  IF values = <<>> THEN 0
      ELSE den * values[lo] + (IF part = 0 THEN 0 ELSE (values[lo + 1] - values[lo]) * part)

Magnitude(n) == IF n < 0 THEN -n ELSE n

(* The median in halves, and the median absolute deviation in quarters. *)
Summarise(values) ==
  LET sorted  == SortedValues(values)
      median2 == Percentile(sorted, 1, 2)
      off2    == [i \in DOMAIN sorted |-> Magnitude(2 * sorted[i] - median2)]
  IN  [count   |-> Len(values),
       median2 |-> median2,
       min     |-> IF values = <<>> THEN 0 ELSE sorted[1],
       p25in4  |-> Percentile(sorted, 1, 4),
       p75in4  |-> Percentile(sorted, 3, 4),
       p90in10 |-> Percentile(sorted, 9, 10),
       max     |-> IF values = <<>> THEN 0 ELSE Last(sorted),
       mad4    |-> Percentile(SortedValues(off2), 1, 2)]

(* |value - median| / (1.4826 * MAD) > 3.5, in whole numbers. *)
IsOutlier(value, s) ==
  /\ s.mad4 # 0
  /\ Magnitude(2 * value - s.median2) * 2 * 10000 > 51891 * s.mad4

-----------------------------------------------------------------------------
(* The report on what was measured, a function from Drives to durations *)

(* Segments: what was measured of a stretch, by the instant it began. *)
Segments(measured, seq) ==
  LET driven == {t \in Instants : <<seq, t>> \in Drives /\ measured[<<seq, t>>] # None}
      order == Ascending(driven)
  IN  [i \in DOMAIN order |->
         [seq |-> seq, at |-> order[i], duration |-> measured[<<seq, order[i]>>]]]

Durations(group) == [i \in DOMAIN group |-> group[i].duration]

Reported(measured) == {seq \in Stretches : Segments(measured, seq) # <<>>}

Hours(group) == {HourOf[group[i].at] : i \in DOMAIN group}

InHour(group, hour) ==
  Taking(Durations(group), {i \in DOMAIN group : HourOf[group[i].at] = hour})

Weeks(group) == {WeekOf[group[i].at] : i \in DOMAIN group}

InWeek(group, week) ==
  Taking(Durations(group), {i \in DOMAIN group : WeekOf[group[i].at] = week})

(* Fault: an hour with a single measurement can be the baseline. *)
AnySample(values) == TRUE

Enough(values) == Len(values) >= MinSamples

(* The best hour that can be believed, zero when there is none.  A best of *)
(* zero is taken for none: after an hour with a median of zero the search  *)
(* begins afresh.                                                          *)
Best(group) ==
  LET enough  == {h \in Hours(group) : Enough(InHour(group, h))}
      median2 == [h \in enough |-> Summarise(InHour(group, h)).median2]
      afresh  == {h \in enough : \A k \in enough : median2[k] = 0 => k < h}
  IN  IF afresh = {} THEN 0 ELSE Min({median2[h] : h \in afresh})

(* relative_to_best is median2 / best2, or zero when best2 is. *)
HourCells(group) ==
  LET hours == Ascending(Hours(group))
  IN  [k \in DOMAIN hours |->
         LET summary == Summarise(InHour(group, hours[k]))
         IN  [seq |-> group[1].seq, hour |-> hours[k], median2 |-> summary.median2,
              best2 |-> Best(group), sparse |-> summary.count < MinSamples]]

WeekPoints(group) ==
  LET keys == Ascending(Weeks(group))
  IN  [k \in DOMAIN keys |->
         [seq |-> group[1].seq, week |-> keys[k],
          median2 |-> Summarise(InWeek(group, keys[k])).median2]]

(* local_time is the wall clock of the reporting zone, without an offset. *)
TripPoints(group, wall) ==
  LET summary == Summarise(Durations(group))
  IN  [i \in DOMAIN group |->
         [seq |-> group[i].seq, at |-> group[i].at, local |-> wall[group[i].at],
          duration |-> group[i].duration, outlier |-> IsOutlier(group[i].duration, summary)]]

Stretch(group) == [seq |-> group[1].seq, summary |-> Summarise(Durations(group))]

(* Stats *)
Stats(measured, wall) ==
  LET group == [q \in Reported(measured) |-> Segments(measured, q)]
      seqs == Ascending(DOMAIN group)
  IN  [segments |-> [i \in DOMAIN seqs |-> Stretch(group[seqs[i]])],
       hours    |-> EndToEnd([q \in DOMAIN group |-> HourCells(group[q])]),
       weeks    |-> EndToEnd([q \in DOMAIN group |-> WeekPoints(group[q])]),
       trips    |-> EndToEnd([q \in DOMAIN group |-> TripPoints(group[q], wall)])]
=============================================================================
