------------------------------- MODULE Passes -------------------------------
(***************************************************************************)
(* Finding the passes of one recording at one waypoint: findPasses in      *)
(* internal/matcher/passes.go, one step per pair of consecutive fixes.     *)
(*                                                                         *)
(* Only how a fix and a chord lie to the two circles decides anything, so  *)
(* a fix has a small distance: at the waypoint, well within its radius,    *)
(* just within it, within the wider exit radius, or beyond both.  Fix i is *)
(* recorded at instant 4i; the instants between are where a chord can      *)
(* enter, come closest and leave.                                          *)
(***************************************************************************)
EXTENDS Integers, Sequences

CONSTANTS NumFixes

ASSUME PassesAssumptions == NumFixes \in Nat \ {0}

Radius == 2
ExitRadius == 3
Distances == 0 .. 4
Infinity == 5

FixAt(i) == 4 * i

Fixes == 0 .. NumFixes - 1

VARIABLES
  i,          \* the fix the loop has reached
  dist,       \* its distance from the waypoint
  cur,        \* the pass that is open, or NoPass
  insideFix,  \* the open pass has a fix within the radius
  longChord,  \* it cuts a substantial chord
  passes,     \* the passes kept so far, in the order they were closed
  closed,     \* the recording has ended and the last pass was closed
  unusable,   \* history: the fixes no usable chord leads on from
  parted      \* history: fixes at which the recording was away or resumed

vars == <<i, dist, cur, insideFix, longChord, passes, closed, unusable, parted>>

Pass == [enter : Nat, exit : Nat, closest : Nat, min : 0 .. Infinity - 1,
         enterIndex : Fixes, method : {"start_inside", "point_inside", "interpolated"}]

NoPass == [method |-> "none"]

Opened(at, index, method) ==
  [enter |-> at, exit |-> at, closest |-> at, min |-> Infinity,
   enterIndex |-> index, method |-> method]

TypeOK ==
  /\ i \in Fixes
  /\ dist \in Distances
  /\ cur \in Pass \cup {NoPass}
  /\ passes \in Seq(Pass)
  /\ {insideFix, longChord, closed} \subseteq BOOLEAN
  /\ unusable \subseteq Fixes
  /\ parted \subseteq Fixes

(* A recording that begins within the radius has a pass from the start. *)
Init ==
  /\ i = 0
  /\ dist \in Distances
  /\ cur = IF dist <= Radius
           THEN [Opened(0, 0, "start_inside") EXCEPT !.min = dist]
           ELSE NoPass
  /\ insideFix = (dist <= Radius)
  /\ longChord = FALSE
  /\ passes = <<>>
  /\ closed = FALSE
  /\ unusable = {}
  /\ parted = {}

-----------------------------------------------------------------------------

(***************************************************************************)
(* IntersectCircle: how the chord from a fix at distance a to one at       *)
(* distance b can come closest.  It does so at its nearer end, if that is  *)
(* inside, or in between, nearer than either end.  With both ends outside  *)
(* it cuts a substantial chord when it comes right up to the waypoint, a   *)
(* sliver when it only grazes the circle, and either in between.           *)
(***************************************************************************)
Approaches(a, b) ==
  {c \in [closest : {0, 2, 4}, min : 0 .. Radius, long : BOOLEAN] :
     /\ \/ c.closest = 0 /\ c.min = a /\ a <= b
        \/ c.closest = 4 /\ c.min = b /\ b <= a
        \/ c.closest = 2 /\ c.min < a /\ c.min < b
     /\ a > Radius /\ b > Radius =>
          (c.min = 0 => c.long) /\ (c.min = Radius => ~ c.long)}

(* It enters at its start when it starts inside and leaves at its end when *)
(* it ends inside.                                                         *)
Through(a, b) ==
  {[enter |-> IF a <= Radius THEN 0 ELSE 1, exit |-> IF b <= Radius THEN 4 ELSE 3,
    closest |-> c.closest, min |-> c.min, long |-> c.long] : c \in Approaches(a, b)}

(* It only touches the circle: on leaving it from a fix on it, on coming   *)
(* up to one, or because the two fixes coincide.                           *)
Touches(a, b) ==
  {c \in {[enter |-> at, exit |-> at, closest |-> at, min |-> IF at = 0 THEN a ELSE b,
           long |-> FALSE] : at \in {0, 4}} :
     \/ c.enter = 0 /\ a = Radius /\ b > Radius
     \/ c.enter = 4 /\ a > Radius /\ b = Radius
     \/ c.enter = 0 /\ a = b /\ a <= Radius}

Cuts(a, b) == Through(a, b) \cup Touches(a, b)

NoCut == [min |-> Infinity]

(* Fault: a line across a pause or a jump is taken for travel. *)
ChordsAnyway(a, b, usable) == Cuts(a, b) \cup {NoCut}

(***************************************************************************)
(* What the line to the next fix gives: nothing when it is not usable      *)
(* travel, because recording was paused, because too much time passed, or  *)
(* because of an implausible jump; a cut whenever either end is inside.    *)
(***************************************************************************)
Chords(a, b, usable) ==
  IF ~ usable THEN {NoCut}
  ELSE IF a <= Radius \/ b <= Radius THEN Cuts(a, b)
  ELSE Cuts(a, b) \cup {NoCut}

(* The body of the loop with a pass open: the closest approach, from the   *)
(* chord or, when it missed, from the fix it leads to.                     *)
Extended(pass, chord, b) ==
  IF chord # NoCut
  THEN LET left == [pass EXCEPT !.exit = FixAt(i) + chord.exit]
       IN  IF chord.min < pass.min
           THEN [left EXCEPT !.min = chord.min, !.closest = FixAt(i) + chord.closest]
           ELSE left
  ELSE IF b < pass.min THEN [pass EXCEPT !.min = b, !.closest = FixAt(i + 1)]
  ELSE pass

(* Fault: the pass keeps the instant its last chord left the circle. *)
KeptAsLeft(pass, inside, long, at) ==
  IF inside \/ long THEN Append(passes, pass) ELSE passes

(* closePass: a pass without a fix inside needs a substantial chord. *)
Kept(pass, inside, long, at) ==
  IF inside \/ long THEN Append(passes, [pass EXCEPT !.exit = at]) ELSE passes

(* Faults: no hysteresis, and a pass goes on over a pause. *)
PartsAtRadius(b, resumed) == b > Radius \/ resumed
PartsByDistance(b, resumed) == b > ExitRadius

(* Leaving the wider radius, or a break in the recording, ends a pass. *)
Parts(b, resumed) == b > ExitRadius \/ resumed

NextFix ==
  /\ i < NumFixes - 1
  /\ \E b \in Distances, resumed \in BOOLEAN, usable \in BOOLEAN :
       /\ resumed => ~ usable
       /\ \E chord \in Chords(dist, b, usable) :
            LET opens == cur = NoPass /\ chord # NoCut
                ends == dist <= Radius \/ b <= Radius
                pass == IF opens
                        THEN Opened(FixAt(i) + chord.enter, i,
                                    IF ends THEN "point_inside" ELSE "interpolated")
                        ELSE cur
                extended == Extended(pass, chord, b)
                inside == insideFix \/ ends
                long == longChord \/ (chord # NoCut /\ chord.long)
            IN  IF pass = NoPass
                THEN UNCHANGED <<cur, insideFix, longChord, passes>>
                ELSE IF Parts(b, resumed)
                     THEN /\ passes' = Kept(extended, inside, long, FixAt(i + 1))
                          /\ cur' = NoPass
                          /\ insideFix' = FALSE
                          /\ longChord' = FALSE
                     ELSE /\ cur' = extended
                          /\ insideFix' = inside
                          /\ longChord' = long
                          /\ UNCHANGED passes
       /\ dist' = b
       /\ unusable' = IF usable THEN unusable ELSE unusable \cup {i}
       /\ parted' = IF b > ExitRadius \/ resumed THEN parted \cup {i + 1} ELSE parted
  /\ i' = i + 1
  /\ UNCHANGED closed

(* A pass still open when the recording ends is closed at its last fix. *)
CloseLast ==
  /\ i = NumFixes - 1
  /\ ~ closed
  /\ passes' = IF cur = NoPass THEN passes ELSE Kept(cur, insideFix, longChord, FixAt(i))
  /\ cur' = NoPass
  /\ insideFix' = FALSE
  /\ longChord' = FALSE
  /\ closed' = TRUE
  /\ UNCHANGED <<i, dist, unusable, parted>>

Next == NextFix \/ CloseLast

Spec == Init /\ [][Next]_vars

-----------------------------------------------------------------------------
(* Properties *)

(***************************************************************************)
(* What the choice among passes relies on: each pass is entered, comes     *)
(* closest and is left in that order, and the next one is entered after.   *)
(***************************************************************************)
PassesChronological ==
  /\ \A j \in DOMAIN passes :
       passes[j].enter <= passes[j].closest /\ passes[j].closest <= passes[j].exit
  /\ \A j \in 1 .. Len(passes) - 1 : passes[j].exit <= passes[j + 1].enter

(***************************************************************************)
(* Boundary jitter is one pass: two passes of a waypoint are separated by  *)
(* a fix beyond the exit radius or a break in the recording.               *)
(***************************************************************************)
JitterIsOnePass ==
  \A j \in 1 .. Len(passes) - 1 :
    \E f \in parted : passes[j].enter < FixAt(f) /\ FixAt(f) <= passes[j + 1].enter

(***************************************************************************)
(* No crossing is invented where the recording shows no travel: neither    *)
(* the entry nor the closest approach of a pass lies between two fixes     *)
(* with no usable chord from one to the other.                             *)
(***************************************************************************)
NothingInvented ==
  \A j \in DOMAIN passes, f \in unusable :
    \A at \in {passes[j].enter, passes[j].closest} :
      ~ (FixAt(f) < at /\ at < FixAt(f + 1))

(***************************************************************************)
(* A recorder that was paused does not stretch a pass: no pass reaches     *)
(* past the fix at which recording resumed or the waypoint was left.       *)
(***************************************************************************)
PassesEndWhereParted ==
  \A j \in DOMAIN passes, f \in parted :
    passes[j].enter < FixAt(f) => passes[j].exit <= FixAt(f)
=============================================================================
