------------------------------- MODULE Assign -------------------------------
(***************************************************************************)
(* Which pass of a recording counts as reaching which waypoint:            *)
(* internal/matcher/assign.go, and what internal/service measures from it. *)
(*                                                                         *)
(* A pass is the stretch of a recording near one waypoint, as findPasses   *)
(* returns it.  Fix i is recorded at instant 2i, so that an odd instant is *)
(* one interpolated between two fixes.  Distances are small numbers: only  *)
(* their order and their sums decide anything.                             *)
(*                                                                         *)
(* Waypoints and passes are numbered from 1, and 0 stands for the code's   *)
(* -1.  Where the dynamic program keeps a pointer to the previous pass of  *)
(* a chain, the model keeps the chain.                                     *)
(***************************************************************************)
EXTENDS Integers, FiniteSets, SequencesExt

CONSTANTS
  NumWaypoints,
  NumFixes,
  Distances,   \* how close a pass can come to its waypoint
  MaxPasses,   \* bound on the passes of one waypoint
  Once,        \* waypoints that are passed once at most
  MaxInAll,    \* bound on the passes of all of them
  Optional,    \* waypoints that may be missed
  Anchor       \* "entry" or "closest"

ASSUME AssignAssumptions ==
  /\ NumWaypoints \in Nat \ {0}
  /\ NumFixes \in Nat \ {0, 1}
  /\ Distances \subseteq Nat
  /\ MaxPasses \in Nat
  /\ Once \subseteq 1 .. NumWaypoints
  /\ MaxInAll \in Nat
  /\ Optional \subseteq 1 .. NumWaypoints
  /\ Anchor \in {"entry", "closest"}

VARIABLES
  passes,  \* passes[w]: the passes of waypoint w, in order of time
  trip     \* what the recording was measured as, once it has been

vars == <<passes, trip>>

Waypoints == 1 .. NumWaypoints

FixAt(i) == 2 * i
LastInstant == FixAt(NumFixes - 1)

(***************************************************************************)
(* A pass is opened at a pair of fixes, index and the one after.  It is    *)
(* entered between them, or at one of them: at the first after a start or  *)
(* a break within the radius, at the second when that one lies on it.  It  *)
(* is closed at a later fix than index, at the very instant of its entry   *)
(* only when the recording ends there.  It comes closest somewhere in      *)
(* between, which matters only when that is the anchor.                    *)
(***************************************************************************)
Pass ==
  {p \in [index : 0 .. NumFixes - 2, enter : 0 .. LastInstant, exit : 0 .. LastInstant,
          closest : 0 .. LastInstant, dist : Distances] :
     /\ FixAt(p.index) <= p.enter /\ p.enter <= FixAt(p.index + 1)
     /\ p.exit % 2 = 0 /\ FixAt(p.index) < p.exit /\ p.enter <= p.exit
     /\ p.enter = p.exit => p.exit = LastInstant
     /\ p.closest \in (IF Anchor = "closest" THEN {p.enter, p.exit} ELSE {p.enter})}

(* The next pass is opened at a pair of fixes after the last was closed. *)
PassLists ==
  {list \in UNION {[1 .. n -> Pass] : n \in 0 .. MaxPasses} :
     \A j \in 1 .. Len(list) - 1 : list[j].exit <= FixAt(list[j + 1].index)}

PassesInAll(ps) == MapThenSumSet(LAMBDA w : Len(ps[w]), DOMAIN ps)

-----------------------------------------------------------------------------
(* assign *)

(* More waypoints matched, and then closer to their centres. *)
Better(a, b) ==
  \/ a.matched > b.matched
  \/ a.matched = b.matched /\ a.dist < b.dist

Lexical(x, y) == x[1] < y[1] \/ (x[1] = y[1] /\ x[2] < y[2])

(* A scan that replaces its candidate only by a better one ends with the   *)
(* first of the best.                                                      *)
FirstBest(chains) ==
  CHOOSE c \in chains : \A d \in chains :
    d = c \/ Better(c, d) \/ (~ Better(d, c) /\ Lexical(c.from, d.from))

(* pp.ExitAt.After(p.EnterAt), negated: a waypoint is reached after the    *)
(* one before it was left.                                                 *)
Follows(p, pp) == pp.exit <= p.enter

(* The earlier waypoints, each with a pass that pass j of k may follow. *)
Earlier(ps, k, j) ==
  UNION {{pk} \X {pj \in DOMAIN ps[pk] : Follows(ps[k][j], ps[pk][pj])} : pk \in 1 .. k - 1}

Alone(ps, k, j) ==
  [matched |-> 1, dist |-> ps[k][j].dist, from |-> <<0, 0>>,
   picks |-> [w \in DOMAIN ps |-> IF w = k THEN j ELSE 0]]

Extended(ps, best, k, j, s) ==
  LET before == best[s[1]][s[2]]
  IN  [matched |-> before.matched + 1, dist |-> before.dist + ps[k][j].dist,
       from |-> s, picks |-> [before.picks EXCEPT ![k] = j]]

(* Fault: a chain cannot pass over a waypoint that was missed. *)
ChainWithoutGaps(ps, best, k, j) ==
  FirstBest({Alone(ps, k, j)} \cup
            {Extended(ps, best, k, j, s) : s \in {x \in Earlier(ps, k, j) : x[1] = k - 1}})

(* best[k][j]: the best chain that ends with waypoint k taking pass j. *)
BestChain(ps, best, k, j) ==
  FirstBest({Alone(ps, k, j)} \cup {Extended(ps, best, k, j, s) : s \in Earlier(ps, k, j)})

WithNext(ps, best, k) == Append(best, [j \in DOMAIN ps[k] |-> BestChain(ps, best, k, j)])

Chains(ps) ==
  LET upTo[k \in 0 .. Len(ps)] == IF k = 0 THEN <<>> ELSE WithNext(ps, upTo[k - 1], k)
  IN  upTo[Len(ps)]

(* What is chosen if nothing was reached, or else the best of all chains. *)
None(ps) == [matched |-> 0, dist |-> 0, from |-> <<0, 0>>, picks |-> [w \in DOMAIN ps |-> 0]]

Ends(ps, best) ==
  UNION {{[best[k][j] EXCEPT !.from = <<k, j>>] : j \in DOMAIN ps[k]} : k \in DOMAIN ps}

(* The passes chosen for each waypoint, 0 where it was not reached. *)
AssignPasses(ps) ==
  LET end == FirstBest({None(ps)} \cup Ends(ps, Chains(ps)))
  IN  [matched |-> end.matched, dist |-> end.dist, picks |-> end.picks]

-----------------------------------------------------------------------------
(* Match *)

Forward(ps) == AssignPasses(ps)

Backward(ps) ==
  LET c == AssignPasses(Reverse(ps)) IN [c EXCEPT !.picks = Reverse(@)]

(* Fault: how close the passes came does not decide between directions. *)
InterpretedByCount(ps) ==
  LET forward == Forward(ps)
      reverse == Backward(ps)
  IN  IF reverse.matched > forward.matched THEN [direction |-> "reverse", choice |-> reverse]
      ELSE [direction |-> "forward", choice |-> forward]

(* The route is tried both ways; reverse has to be strictly better. *)
Interpretation(ps) ==
  LET forward == Forward(ps)
      reverse == Backward(ps)
  IN  IF Better(reverse, forward) THEN [direction |-> "reverse", choice |-> reverse]
      ELSE [direction |-> "forward", choice |-> forward]

(* a is passed before b on a route driven in direction dir. *)
Precedes(dir, a, b) == IF dir = "forward" THEN a < b ELSE b < a

Destination(dir) == IF dir = "forward" THEN NumWaypoints ELSE 1

(* The last waypoint reached before the destination, or 0. *)
MatchedBefore(picks, dir) ==
  LET reached == {w \in DOMAIN picks : picks[w] # 0 /\ w # Destination(dir)}
  IN  IF reached = {} THEN 0
      ELSE CHOOSE w \in reached : \A x \in reached : x = w \/ Precedes(dir, x, w)

(* Fault: a pass on the way there is taken for the arrival. *)
PrematureArrival(ps, picks, dir) == 1

(* takeFirstArrival: the earliest pass of the destination that follows the *)
(* waypoint before it.                                                     *)
FirstArrival(ps, picks, dir) ==
  LET dest == Destination(dir)
      prev == MatchedBefore(picks, dir)
      chosen == ps[dest][picks[dest]]
      sooner == {j \in DOMAIN ps[dest] :
                   /\ ps[dest][j].enter < chosen.enter
                   /\ prev # 0 => Follows(ps[dest][j], ps[prev][picks[prev]])}
  IN  IF sooner = {} THEN picks[dest]
      ELSE CHOOSE j \in sooner : \A x \in sooner : j <= x

(* Fault: the arrival is whichever pass the tie-break chose. *)
ArriveAsAssigned(ps, picks, dir) == picks

Arrive(ps, picks, dir) ==
  IF picks[Destination(dir)] = 0 THEN picks
  ELSE [picks EXCEPT ![Destination(dir)] = FirstArrival(ps, picks, dir)]

(* Faults: one fix too few is kept, and more than there are. *)
TrackEndShort(ps, picks, dir) ==
  LET dest == Destination(dir)
  IN  IF picks[dest] # 0 THEN ps[dest][picks[dest]].index + 1 ELSE NumFixes

(* How many leading fixes belong to the journey: up to and including the   *)
(* fix beyond the arrival, or all of them when there was none.             *)
TrackEnd(ps, picks, dir) ==
  LET dest == Destination(dir)
      end == ps[dest][picks[dest]].index + 2
  IN  IF picks[dest] # 0 /\ end < NumFixes THEN end ELSE NumFixes

CrossedAt(p) == IF Anchor = "closest" THEN p.closest ELSE p.enter

Status(picks) ==
  LET reached == {w \in DOMAIN picks : picks[w] # 0}
  IN  IF \A a, b \in reached : a = b THEN "unmatched"
      ELSE IF Waypoints \ reached \subseteq Optional THEN "matched" ELSE "partial"

(***************************************************************************)
(* BuildSegments: a stretch between neighbouring waypoints is measured     *)
(* only when both were reached, from the earlier instant to the later one. *)
(***************************************************************************)
Segment(ps, picks, i) ==
  IF picks[i] = 0 \/ picks[i + 1] = 0 THEN [complete |-> FALSE, from |-> 0, to |-> 0]
  ELSE LET a == CrossedAt(ps[i][picks[i]])
           b == CrossedAt(ps[i + 1][picks[i + 1]])
       IN  [complete |-> TRUE, from |-> IF b < a THEN b ELSE a, to |-> IF b < a THEN a ELSE b]

Segments(ps, picks) == [i \in 1 .. NumWaypoints - 1 |-> Segment(ps, picks, i)]

(* What measure stores: the journey ends at the last fix that is kept. *)
Measured(ps) ==
  LET best == Interpretation(ps)
      dir == best.direction
      picks == Arrive(ps, best.choice.picks, dir)
      end == TrackEnd(ps, picks, dir)
  IN  [direction |-> dir, picks |-> picks, status |-> Status(picks),
       segments |-> Segments(ps, picks), trackEnd |-> end, endedAt |-> FixAt(end - 1)]

NotMeasured == [direction |-> "forward", picks |-> <<>>, status |-> "unmatched",
                segments |-> <<>>, trackEnd |-> NumFixes, endedAt |-> LastInstant]

-----------------------------------------------------------------------------

Init ==
  /\ passes \in [Waypoints -> PassLists]
  /\ \A w \in Once : Len(passes[w]) <= 1
  /\ PassesInAll(passes) <= MaxInAll
  /\ trip = NotMeasured

Measure ==
  /\ trip = NotMeasured
  /\ trip' = Measured(passes)
  /\ UNCHANGED passes

Next == Measure

Spec == Init /\ [][Next]_vars

-----------------------------------------------------------------------------
(* Reference definitions *)

(* Every way of giving some waypoints one of their passes. *)
Assignments(ps) == {picks \in [DOMAIN ps -> 0 .. MaxPasses] :
                      \A w \in DOMAIN ps : picks[w] <= Len(ps[w])}

ReachedIn(picks) == {w \in DOMAIN picks : picks[w] # 0}

(* Waypoints are entered in order, each after the one before was left. *)
InOrder(ps, picks, dir) ==
  \A a, b \in ReachedIn(picks) :
    Precedes(dir, a, b) => Follows(ps[b][picks[b]], ps[a][picks[a]])

Total(f, n) ==
  LET upTo[i \in 0 .. n] == IF i = 0 THEN 0 ELSE upTo[i - 1] + f[i]
  IN  upTo[n]

DistIn(ps, picks) ==
  [w \in DOMAIN picks |-> IF picks[w] = 0 THEN 0 ELSE ps[w][picks[w]].dist]

FitOf(ps, picks) == [matched |-> Cardinality(ReachedIn(picks)),
                     dist |-> Total(DistIn(ps, picks), Len(picks))]

(* The same drive, driven the other way; which fixes its passes began at    *)
(* does not matter to the fit.                                             *)
Mirrored(ps) ==
  [w \in DOMAIN ps |->
     Reverse([j \in DOMAIN ps[w] |->
       [ps[w][j] EXCEPT !.enter = LastInstant - ps[w][j].exit,
                        !.exit = LastInstant - ps[w][j].enter,
                        !.closest = LastInstant - @]])]

-----------------------------------------------------------------------------
(* Properties *)

TypeOK ==
  /\ passes \in [Waypoints -> PassLists]
  /\ trip.direction \in {"forward", "reverse"}
  /\ trip.status \in {"matched", "partial", "unmatched"}
  /\ trip.trackEnd \in 1 .. NumFixes

(***************************************************************************)
(* The dynamic program is exact in both directions: what it picks is an    *)
(* assignment in order of travel, its counts are right, and no assignment  *)
(* in that order reaches more waypoints, or as many more closely.          *)
(***************************************************************************)
ExactIn(dir, c) ==
  /\ InOrder(passes, c.picks, dir)
  /\ FitOf(passes, c.picks) = [matched |-> c.matched, dist |-> c.dist]
  /\ \A picks \in Assignments(passes) :
       InOrder(passes, picks, dir) => ~ Better(FitOf(passes, picks), c)

AssignIsExact ==
  trip # NotMeasured =>
    ExactIn("forward", Forward(passes)) /\ ExactIn("reverse", Backward(passes))

(***************************************************************************)
(* A drive and its mirror image are recognised as opposite directions of   *)
(* the same fit, unless the two directions fit equally well and both are   *)
(* taken for forward.                                                      *)
(***************************************************************************)
MirrorFlipsDirection ==
  trip # NotMeasured =>
    LET fit == Interpretation(passes)
        mirrored == Interpretation(Mirrored(passes))
        equal(c, d) == c.matched = d.matched /\ c.dist = d.dist
    IN  /\ equal(fit.choice, mirrored.choice)
        /\ \/ fit.direction # mirrored.direction
           \/ fit.direction = "forward" /\ equal(Forward(passes), Backward(passes))

(***************************************************************************)
(* Settling on the first arrival never breaks the order of travel, nor     *)
(* cuts off a waypoint that counts: every crossing is entered within the   *)
(* part of the recording that is kept.  So measured stretches do not       *)
(* overlap: each ends no earlier than it begins, and in the direction of   *)
(* travel no later than the next begins.                                   *)
(***************************************************************************)
SegmentsDoNotOverlap ==
  \A i, j \in {k \in DOMAIN trip.segments : trip.segments[k].complete} :
    /\ trip.segments[i].from <= trip.segments[i].to
    /\ Precedes(trip.direction, i, j) => trip.segments[i].to <= trip.segments[j].from

ArrivalKeepsOrder ==
  trip # NotMeasured =>
    /\ InOrder(passes, trip.picks, trip.direction)
    /\ \A w \in ReachedIn(trip.picks) : passes[w][trip.picks[w]].enter <= trip.endedAt
    /\ SegmentsDoNotOverlap

(***************************************************************************)
(* Once the waypoint before it has been left, the recording does not reach *)
(* the destination before the pass that is taken for the arrival.          *)
(***************************************************************************)
ArrivalIsFirst ==
  trip # NotMeasured =>
    LET dest == Destination(trip.direction)
        before == ReachedIn(trip.picks) \ {dest}
    IN  trip.picks[dest] # 0 =>
          \A j \in DOMAIN passes[dest] :
            (\A w \in before : Follows(passes[dest][j], passes[w][trip.picks[w]])) =>
              passes[dest][trip.picks[dest]].enter <= passes[dest][j].enter

(***************************************************************************)
(* "Anything after it ... is excluded from every measurement": no measured *)
(* stretch ends after the journey does.                                    *)
(***************************************************************************)
MeasuredWithinJourney ==
  \A i \in DOMAIN trip.segments :
    trip.segments[i].complete => trip.segments[i].to <= trip.endedAt
=============================================================================
