----------------------------- MODULE PassesProofs -----------------------------
(***************************************************************************)
(* What findPasses guarantees for recordings of any length: passes are in  *)
(* order and parted by a departure, none reaches past one, and none is     *)
(* entered or comes closest where the recording shows no travel.           *)
(***************************************************************************)
EXTENDS Passes, TLAPS

-----------------------------------------------------------------------------
(* Chords *)

Cut ==
  [enter : {0, 1, 4}, exit : {0, 3, 4}, closest : {0, 2, 4}, min : 0 .. Radius, long : BOOLEAN]

LEMMA ChordIsLongOrNot ==
  ASSUME NEW a, NEW b, NEW usable \in BOOLEAN, NEW chord \in Chords(a, b, usable)
  PROVE  (chord # NoCut /\ chord.long) \in BOOLEAN
OBVIOUS

(* A chord that cuts the circle enters it before it comes closest, and     *)
(* there is none where the recording shows no travel.  It enters no sooner *)
(* than at its end only when that end is inside.                           *)
LEMMA ChordShape ==
  ASSUME NEW a \in Distances, NEW b \in Distances, NEW usable \in BOOLEAN,
         NEW chord \in Chords(a, b, usable)
  PROVE  \/ chord = NoCut
         \/ /\ usable /\ chord # NoCut /\ chord \in Cut /\ chord.enter <= chord.closest
            /\ chord.enter = 4 => b <= Radius
<1>1. CASE chord \in Through(a, b) /\ usable
  <2>1. PICK c \in Approaches(a, b) :
          chord = [enter |-> IF a <= Radius THEN 0 ELSE 1, exit |-> IF b <= Radius THEN 4 ELSE 3,
                   closest |-> c.closest, min |-> c.min, long |-> c.long]
    BY <1>1 DEF Through
  <2>2. /\ c \in [closest : {0, 2, 4}, min : 0 .. Radius, long : BOOLEAN]
        /\ c.closest = 0 => a <= Radius
    BY DEF Approaches, Radius
  <2>3. chord \in Cut /\ chord.enter # 4
    BY <2>1, <2>2 DEF Cut
  <2>4. chord.enter <= chord.closest
    BY <2>1, <2>2
  <2>5. chord.min # Infinity /\ NoCut.min = Infinity
    BY <2>3 DEF Cut, Radius, Infinity, NoCut
  <2> QED
    BY <1>1, <2>3, <2>4, <2>5
<1>2. CASE chord = NoCut
  BY <1>2
<1>3. CASE chord \in Touches(a, b) /\ usable
  <2>1. PICK at \in {0, 4} :
          chord = [enter |-> at, exit |-> at, closest |-> at,
                   min |-> IF at = 0 THEN a ELSE b, long |-> FALSE]
    BY <1>3 DEF Touches
  <2>2. (at = 0 => a <= Radius) /\ (at = 4 => b <= Radius)
    BY <1>3, <2>1 DEF Touches, Radius
  <2>3. chord.min \in 0 .. Radius
    BY <2>1, <2>2 DEF Distances, Radius
  <2>4. chord \in Cut /\ chord.enter <= chord.closest /\ (chord.enter = 4 => b <= Radius)
    BY <2>1, <2>2, <2>3 DEF Cut
  <2>5. chord.min # Infinity /\ NoCut.min = Infinity
    BY <2>3 DEF Radius, Infinity, NoCut
  <2> QED
    BY <1>3, <2>4, <2>5
<1> QED
  BY <1>1, <1>2, <1>3 DEF Chords, Cuts

-----------------------------------------------------------------------------
(* The invariant *)

(* Not between two fixes with no travel from one to the other. *)
Travelled(at, gaps) == \A f \in gaps : ~ (FixAt(f) < at /\ at < FixAt(f + 1))

Typed ==
  /\ TypeOK
  /\ \A f \in unusable : f < i
  /\ \A f \in parted : f <= i
  /\ closed => i = NumFixes - 1

(* A pass that was kept, as of an instant ... *)
KeptAt(pass, now, gaps, partings) ==
  /\ pass.enter <= pass.closest /\ pass.closest <= pass.exit /\ pass.exit <= now
  /\ Travelled(pass.enter, gaps) /\ Travelled(pass.closest, gaps)
  /\ \A f \in partings : pass.enter < FixAt(f) => pass.exit <= FixAt(f)

(* ... and one that a departure or a break ended. *)
EndedBy(pass, partings) ==
  \E f \in partings : pass.enter < FixAt(f) /\ FixAt(f) = pass.exit

KeptPasses ==
  \A j \in DOMAIN passes :
    /\ KeptAt(passes[j], FixAt(i), unusable, parted)
    /\ (~ closed \/ j < Len(passes)) => EndedBy(passes[j], parted)

(* They follow one another. *)
InTurn == \A j \in 1 .. Len(passes) - 1 : passes[j].exit <= passes[j + 1].enter

(* A pass that is open was entered after all of them and has not been left. *)
OpenAt(pass, now, gaps) ==
  /\ pass.enter <= pass.closest /\ pass.closest <= now
  /\ \A j \in DOMAIN passes : passes[j].exit <= pass.enter
  /\ Travelled(pass.enter, gaps) /\ Travelled(pass.closest, gaps)
  /\ \A f \in parted : FixAt(f) <= pass.enter

OpenPass == cur # NoPass => ~ closed /\ OpenAt(cur, FixAt(i), unusable)

PassesInv == Typed /\ KeptPasses /\ InTurn /\ OpenPass

LEMMA PassesStart == Init => PassesInv
<1> SUFFICES ASSUME Init PROVE PassesInv
  OBVIOUS
<1>1. i = 0 /\ 0 \in Fixes /\ FixAt(i) = 0
  BY PassesAssumptions DEF Init, Fixes, FixAt
<1>2. /\ passes = << >> /\ unusable = {} /\ parted = {} /\ closed = FALSE /\ longChord = FALSE
      /\ dist \in Distances /\ insideFix \in BOOLEAN
  BY DEF Init
<1>3. (cur \in Pass /\ cur.enter = 0 /\ cur.closest = 0) \/ cur = NoPass
  <2>1. ASSUME dist <= Radius
        PROVE  cur \in Pass /\ cur.enter = 0 /\ cur.closest = 0
    <3>1. cur = [enter |-> 0, exit |-> 0, closest |-> 0, min |-> dist, enterIndex |-> 0,
                 method |-> "start_inside"]
      BY <2>1 DEF Init, Opened
    <3>2. dist \in 0 .. Infinity - 1
      BY <1>2 DEF Distances, Infinity
    <3> QED
      BY <1>1, <3>1, <3>2 DEF Pass
  <2> QED
    BY <2>1 DEF Init
<1>4. passes \in Seq(Pass) /\ DOMAIN passes = {} /\ Len(passes) = 0
  BY <1>2
<1>5. Typed
  BY <1>1, <1>2, <1>3, <1>4 DEF Typed, TypeOK
<1>6. KeptPasses /\ InTurn
  BY <1>4 DEF KeptPasses, InTurn
<1>7. OpenPass
  BY <1>1, <1>2, <1>3, <1>4 DEF OpenPass, OpenAt, Travelled
<1> QED
  BY <1>5, <1>6, <1>7 DEF PassesInv

-----------------------------------------------------------------------------
(* One pair of fixes *)

(* What is behind a fix is untouched by what becomes of the stretch after it. *)
LEMMA StillTravelled ==
  ASSUME i \in Nat, NEW at \in Nat, at <= FixAt(i), Travelled(at, unusable)
  PROVE  Travelled(at, unusable \cup {i})
BY DEF Travelled, FixAt

LEMMA AheadTravelled ==
  ASSUME i \in Nat, unusable \subseteq Nat, \A f \in unusable : f < i,
         NEW at \in Nat, FixAt(i) <= at
  PROVE  Travelled(at, unusable)
BY DEF Travelled, FixAt

(* An instant at the end of the stretch is not within it. *)
LEMMA EndTravelled ==
  ASSUME i \in Nat, unusable \subseteq Nat, \A f \in unusable : f < i
  PROVE  Travelled(FixAt(i + 1), unusable \cup {i})
BY DEF Travelled, FixAt

LEMMA TypesGive ==
  ASSUME Typed
  PROVE  /\ i \in Nat /\ i \in Fixes /\ dist \in Distances
         /\ unusable \subseteq Nat /\ parted \subseteq Nat
         /\ \A f \in unusable : f < i
         /\ \A f \in parted : f <= i
         /\ FixAt(i) \in Nat /\ FixAt(i + 1) \in Nat /\ FixAt(i + 1) = FixAt(i) + 4
         /\ cur \in Pass \cup {NoPass} /\ passes \in Seq(Pass)
         /\ \A j \in DOMAIN passes : passes[j] \in Pass
<1>1. /\ i \in Fixes /\ dist \in Distances /\ unusable \subseteq Fixes /\ parted \subseteq Fixes
      /\ \A f \in unusable : f < i
      /\ \A f \in parted : f <= i
      /\ cur \in Pass \cup {NoPass} /\ passes \in Seq(Pass)
      /\ closed \in BOOLEAN /\ (closed => i = NumFixes - 1)
  BY DEF Typed, TypeOK
<1>2. Fixes \subseteq Nat
  BY PassesAssumptions DEF Fixes
<1>3. i \in Nat
  BY <1>1, <1>2
<1>4. FixAt(i) \in Nat /\ FixAt(i + 1) \in Nat /\ FixAt(i + 1) = FixAt(i) + 4
  BY <1>3 DEF FixAt
<1>5. \A j \in DOMAIN passes : passes[j] \in Pass
  BY <1>1
<1> QED
  BY <1>1, <1>2, <1>3, <1>4, <1>5

(* What becomes of a pass that was open, in the only ways the loop changes *)
(* it.                                                                     *)
LEMMA NearerPass ==
  ASSUME NEW pass \in [enter : Nat, exit : Nat, closest : Nat, min : 0 .. Infinity,
                       enterIndex : Fixes,
                       method : {"start_inside", "point_inside", "interpolated"}],
         NEW exit \in Nat, NEW at \in Nat, NEW d \in 0 .. Infinity - 1
  PROVE  LET nearer == [[pass EXCEPT !.exit = exit] EXCEPT !.min = d, !.closest = at]
         IN  nearer \in Pass /\ nearer.enter = pass.enter /\ nearer.closest = at
BY DEF Pass

LEMMA LeftPass ==
  ASSUME NEW pass \in Pass, NEW exit \in Nat
  PROVE  LET left == [pass EXCEPT !.exit = exit]
         IN  left \in Pass /\ left.enter = pass.enter /\ left.closest = pass.closest
             /\ left.exit = exit
BY DEF Pass

(* The pass that is open, or was just opened, after the chord to the next  *)
(* fix has been taken into account.                                        *)
LEMMA ExtendedPass ==
  ASSUME Typed, OpenPass, \A j \in DOMAIN passes : passes[j].exit <= FixAt(i),
         NEW b \in Distances, NEW usable \in BOOLEAN, NEW chord \in Chords(dist, b, usable),
         NEW method \in {"point_inside", "interpolated"},
         NEW gaps, gaps = IF usable THEN unusable ELSE unusable \cup {i},
         NEW pass,
         pass = IF cur = NoPass /\ chord # NoCut THEN Opened(FixAt(i) + chord.enter, i, method)
                ELSE cur,
         pass # NoPass
  PROVE  LET e == Extended(pass, chord, b)
         IN  /\ e \in Pass /\ OpenAt(e, FixAt(i + 1), gaps)
             /\ e.enter < FixAt(i + 1) \/ (usable /\ b <= Radius)
<1> DEFINE e == Extended(pass, chord, b)
<1>1. /\ i \in Nat /\ i \in Fixes /\ dist \in Distances
      /\ unusable \subseteq Nat /\ parted \subseteq Nat
      /\ \A f \in unusable : f < i
      /\ \A f \in parted : f <= i
      /\ FixAt(i) \in Nat /\ FixAt(i + 1) \in Nat /\ FixAt(i + 1) = FixAt(i) + 4
      /\ cur \in Pass \cup {NoPass} /\ passes \in Seq(Pass)
  BY TypesGive
<1>2. \/ chord = NoCut
      \/ /\ usable /\ chord # NoCut /\ chord \in Cut /\ chord.enter <= chord.closest
         /\ chord.enter = 4 => b <= Radius
  BY <1>1, ChordShape
<1>3. CASE chord = NoCut
  <2>1. pass = cur /\ cur \in Pass /\ OpenAt(cur, FixAt(i), unusable)
    BY <1>1, <1>3 DEF OpenPass
  <2>2. e = IF b < cur.min THEN [cur EXCEPT !.min = b, !.closest = FixAt(i + 1)] ELSE cur
    BY <1>3, <2>1 DEF Extended
  <2>3. b \in 0 .. Infinity - 1
    BY DEF Distances, Infinity
  <2>4. /\ e \in Pass /\ e.enter = cur.enter
        /\ e.closest = cur.closest \/ e.closest = FixAt(i + 1)
    <3>1. CASE b < cur.min
      <4> DEFINE later == FixAt(i + 1)
      <4>1. e = [cur EXCEPT !.min = b, !.closest = later] /\ later \in Nat
        BY <1>1, <2>2, <3>1
      <4> HIDE DEF e, later
      <4>2. e \in Pass /\ e.enter = cur.enter /\ e.closest = later
        BY <2>1, <2>3, <4>1 DEF Pass
      <4> QED
        BY <4>2 DEF later
    <3>2. CASE ~ (b < cur.min)
      BY <2>1, <2>2, <3>2
    <3> QED
      BY <3>1, <3>2
  <2> HIDE DEF e
  <2>5. /\ cur.enter \in Nat /\ cur.closest \in Nat
        /\ cur.enter <= cur.closest /\ cur.closest <= FixAt(i) /\ cur.enter <= FixAt(i)
    BY <1>1, <2>1 DEF OpenAt, Pass
  <2>6. Travelled(cur.enter, gaps) /\ Travelled(cur.closest, gaps)
    BY <1>1, <2>1, <2>5, StillTravelled DEF OpenAt
  <2>7. Travelled(FixAt(i + 1), gaps)
    <3>1. Travelled(FixAt(i + 1), unusable \cup {i})
      BY <1>1, EndTravelled
    <3> QED
      BY <3>1 DEF Travelled
  <2>8. OpenAt(e, FixAt(i + 1), gaps)
    BY <1>1, <2>1, <2>4, <2>5, <2>6, <2>7 DEF OpenAt
  <2> QED
    BY <1>1, <2>4, <2>5, <2>8 DEF e
<1>4. CASE /\ usable /\ chord # NoCut /\ chord \in Cut /\ chord.enter <= chord.closest
           /\ chord.enter = 4 => b <= Radius
  <2>1. /\ chord.enter \in {0, 1, 4} /\ chord.exit \in {0, 3, 4} /\ chord.closest \in {0, 2, 4}
        /\ chord.min \in 0 .. Infinity - 1
    BY <1>4 DEF Cut, Radius, Infinity
  <2>2. /\ pass.enter \in Nat /\ pass.closest \in Nat
        /\ pass.enter <= pass.closest /\ pass.closest <= FixAt(i) + chord.closest
        /\ pass.enter < FixAt(i + 1) \/ b <= Radius
        /\ \A j \in DOMAIN passes : passes[j].exit <= pass.enter
        /\ Travelled(pass.enter, unusable) /\ Travelled(pass.closest, unusable)
        /\ \A f \in parted : FixAt(f) <= pass.enter
        /\ pass \in [enter : Nat, exit : Nat, closest : Nat, min : 0 .. Infinity,
                     enterIndex : Fixes,
                     method : {"start_inside", "point_inside", "interpolated"}]
        /\ pass \in Pass \/ pass.min = Infinity
    <3>1. CASE cur # NoPass
      <4>1. pass = cur /\ cur \in Pass /\ OpenAt(cur, FixAt(i), unusable)
        BY <1>1, <3>1 DEF OpenPass
      <4>2. pass \in [enter : Nat, exit : Nat, closest : Nat, min : 0 .. Infinity,
                      enterIndex : Fixes,
                      method : {"start_inside", "point_inside", "interpolated"}]
        BY <4>1 DEF Pass, Infinity
      <4> QED
        BY <1>1, <2>1, <4>1, <4>2, SMTT(30) DEF OpenAt
    <3>2. CASE cur = NoPass
      <4> DEFINE at == FixAt(i) + chord.enter
      <4>1. pass = [enter |-> at, exit |-> at, closest |-> at, min |-> Infinity,
                    enterIndex |-> i, method |-> method]
        BY <1>4, <3>2 DEF Opened
      <4>2. /\ at \in Nat /\ FixAt(i) <= at /\ at <= FixAt(i) + chord.closest
            /\ at < FixAt(i + 1) \/ b <= Radius
        BY <1>1, <1>4, <2>1
      <4> HIDE DEF at
      <4>3. Travelled(at, unusable)
        BY <1>1, <4>2, AheadTravelled
      <4>4. \A j \in DOMAIN passes : passes[j].exit \in Nat
        BY TypesGive DEF Pass
      <4>5. \A f \in parted : FixAt(f) <= at
        <5> SUFFICES ASSUME NEW f \in parted PROVE FixAt(f) <= at
          OBVIOUS
        <5>1. f \in Nat /\ f <= i /\ i \in Nat /\ at \in Nat /\ FixAt(i) <= at
          BY <1>1, <4>2
        <5> QED
          BY <5>1 DEF FixAt
      <4>6. Infinity \in 0 .. Infinity
        BY DEF Infinity
      <4> QED
        BY <1>1, <4>1, <4>2, <4>3, <4>4, <4>5, <4>6
    <3> QED
      BY <3>1, <3>2
  <2> DEFINE left == [pass EXCEPT !.exit = FixAt(i) + chord.exit]
             nearer == [left EXCEPT !.min = chord.min, !.closest = FixAt(i) + chord.closest]
  <2> DEFINE out == FixAt(i) + chord.exit
             at == FixAt(i) + chord.closest
  <2>3. e = IF chord.min < pass.min THEN nearer ELSE left
    BY <1>4 DEF Extended
  <2> HIDE DEF e
  <2>4. out \in Nat /\ at \in Nat
    BY <1>1, <2>1
  <2>5. /\ nearer \in Pass /\ nearer.enter = pass.enter
        /\ nearer.closest = FixAt(i) + chord.closest
    <3> HIDE DEF out, at
    <3>1. nearer = [[pass EXCEPT !.exit = out] EXCEPT !.min = chord.min, !.closest = at]
      BY DEF out, at
    <3>2. /\ pass \in [enter : Nat, exit : Nat, closest : Nat, min : 0 .. Infinity,
                       enterIndex : Fixes,
                       method : {"start_inside", "point_inside", "interpolated"}]
          /\ chord.min \in 0 .. Infinity - 1
      BY <2>1, <2>2
    <3> HIDE DEF nearer
    <3>3. nearer \in Pass /\ nearer.enter = pass.enter /\ nearer.closest = at
      BY <2>4, <3>1, <3>2, NearerPass
    <3> QED
      BY <3>3 DEF at
  <2>6. /\ pass \in Pass => left \in Pass
        /\ left.enter = pass.enter /\ left.closest = pass.closest
    <3> HIDE DEF out, at
    <3>1. left = [pass EXCEPT !.exit = out]
      BY DEF out
    <3>2. left.enter = pass.enter /\ left.closest = pass.closest
      BY <2>2, <3>1
    <3> QED
      BY <2>4, <3>1, <3>2, LeftPass
  <2>7. chord.min < Infinity
    BY <2>1 DEF Infinity
  <2> HIDE DEF left, nearer, e
  <2>8. /\ e \in Pass /\ e.enter = pass.enter
        /\ e.closest = pass.closest \/ e.closest = FixAt(i) + chord.closest
    BY <2>2, <2>3, <2>5, <2>6, <2>7
  <2>9. FixAt(i) + chord.closest \in Nat /\ FixAt(i) + chord.closest <= FixAt(i + 1)
    BY <1>1, <2>1
  <2>10. Travelled(FixAt(i) + chord.closest, unusable)
    BY <1>1, <2>1, <2>9, AheadTravelled
  <2>11. OpenAt(e, FixAt(i + 1), gaps)
    BY <1>1, <1>4, <2>1, <2>2, <2>8, <2>9, <2>10 DEF OpenAt
  <2> QED
    BY <1>4, <2>2, <2>8, <2>11 DEF e
<1> QED
  BY <1>2, <1>3, <1>4

-----------------------------------------------------------------------------
(* Keeping a pass *)

(* What was kept stays sound as the recording goes on. *)
LEMMA StaysKept ==
  ASSUME Typed, NEW pass \in Pass, KeptAt(pass, FixAt(i), unusable, parted),
         NEW gaps, gaps = unusable \/ gaps = unusable \cup {i},
         NEW partings, partings = parted \/ partings = parted \cup {i + 1}
  PROVE  KeptAt(pass, FixAt(i + 1), gaps, partings)
<1>1. /\ i \in Nat /\ FixAt(i) \in Nat /\ FixAt(i + 1) = FixAt(i) + 4
      /\ pass.enter \in Nat /\ pass.closest \in Nat /\ pass.exit \in Nat
  BY TypesGive DEF Pass
<1>2. /\ pass.enter <= pass.closest /\ pass.closest <= pass.exit /\ pass.exit <= FixAt(i)
      /\ Travelled(pass.enter, unusable) /\ Travelled(pass.closest, unusable)
      /\ \A f \in parted : pass.enter < FixAt(f) => pass.exit <= FixAt(f)
  BY DEF KeptAt
<1>3. pass.enter <= FixAt(i) /\ pass.closest <= FixAt(i) /\ pass.exit <= FixAt(i + 1)
  BY <1>1, <1>2
<1>4. Travelled(pass.enter, gaps) /\ Travelled(pass.closest, gaps)
  BY <1>1, <1>2, <1>3, StillTravelled
<1>5. \A f \in partings : pass.enter < FixAt(f) => pass.exit <= FixAt(f)
  BY <1>2, <1>3
<1> QED
  BY <1>2, <1>3, <1>4, <1>5 DEF KeptAt

(* Closing a pass at the fix the loop has reached, on top of those before. *)
LEMMA PassKept ==
  ASSUME passes \in Seq(Pass), FixAt(i') \in Nat, InTurn,
         NEW e \in Pass, e.enter <= e.closest, e.closest <= FixAt(i'),
         Travelled(e.enter, unusable'), Travelled(e.closest, unusable'),
         \A f \in parted' : e.enter < FixAt(f) => FixAt(i') <= FixAt(f),
         closed' \/ \E f \in parted' : e.enter < FixAt(f) /\ FixAt(f) = FixAt(i'),
         \A j \in DOMAIN passes :
           /\ KeptAt(passes[j], FixAt(i'), unusable', parted')
           /\ EndedBy(passes[j], parted')
           /\ passes[j].exit <= e.enter,
         passes' = Append(passes, [e EXCEPT !.exit = FixAt(i')])
  PROVE  passes' \in Seq(Pass) /\ KeptPasses' /\ InTurn'
<1> DEFINE now == FixAt(i')
           k == [e EXCEPT !.exit = now]
<1>1. k \in Pass /\ k.enter = e.enter /\ k.closest = e.closest /\ k.exit = now
  <2> HIDE DEF now
  <2> QED
    BY LeftPass DEF now
<1>2. passes' = Append(passes, k)
  OBVIOUS
<1> HIDE DEF k
<1>3. /\ passes' \in Seq(Pass) /\ Len(passes') = Len(passes) + 1
      /\ DOMAIN passes' = 1 .. Len(passes) + 1 /\ DOMAIN passes = 1 .. Len(passes)
      /\ Len(passes) \in Nat
      /\ \A j \in DOMAIN passes : passes'[j] = passes[j]
      /\ passes'[Len(passes) + 1] = k
  BY <1>1, <1>2
<1>4. KeptAt(k, now, unusable', parted')
  BY <1>1 DEF KeptAt
<1>5. closed' \/ EndedBy(k, parted')
  BY <1>1 DEF EndedBy
<1>6. KeptPasses'
  <2> SUFFICES ASSUME NEW j \in DOMAIN passes'
               PROVE  /\ KeptAt(passes'[j], now, unusable', parted')
                      /\ (~ closed' \/ j < Len(passes')) => EndedBy(passes'[j], parted')
    BY DEF KeptPasses
  <2>1. CASE j \in DOMAIN passes
    BY <1>3, <2>1
  <2>2. CASE j = Len(passes) + 1
    BY <1>3, <1>4, <1>5, <2>2
  <2> QED
    BY <1>3, <2>1, <2>2
<1>7. InTurn'
  <2>1. Len(passes') - 1 = Len(passes)
    BY <1>3
  <2> SUFFICES ASSUME NEW j \in 1 .. Len(passes)
               PROVE  passes'[j].exit <= passes'[j + 1].enter
    BY <2>1 DEF InTurn
  <2>2. CASE j < Len(passes)
    <3>1. /\ j \in 1 .. Len(passes) - 1 /\ j \in DOMAIN passes /\ j + 1 \in DOMAIN passes
      BY <1>3, <2>2
    <3>2. passes[j].exit <= passes[j + 1].enter
      BY <3>1 DEF InTurn
    <3> QED
      BY <1>3, <3>1, <3>2
  <2>3. CASE j = Len(passes)
    BY <1>1, <1>3, <2>3
  <2> QED
    BY <1>3, <2>2, <2>3
<1> QED
  BY <1>3, <1>6, <1>7

-----------------------------------------------------------------------------
(* Steps *)

(* The loop's body, for the pair of fixes it looks at. *)
LEMMA NextFixKeeps == PassesInv /\ NextFix => PassesInv'
<1> SUFFICES ASSUME PassesInv, NextFix
             PROVE  PassesInv'
  OBVIOUS
<1>1. Typed /\ KeptPasses /\ InTurn /\ OpenPass
  BY DEF PassesInv
<1>2. /\ i \in Nat /\ i \in Fixes /\ dist \in Distances
      /\ unusable \subseteq Nat /\ parted \subseteq Nat
      /\ \A f \in unusable : f < i
      /\ \A f \in parted : f <= i
      /\ FixAt(i) \in Nat /\ FixAt(i + 1) \in Nat /\ FixAt(i + 1) = FixAt(i) + 4
      /\ cur \in Pass \cup {NoPass} /\ passes \in Seq(Pass)
      /\ \A j \in DOMAIN passes : passes[j] \in Pass
  BY <1>1, TypesGive
<1>3. i < NumFixes - 1 /\ i' = i + 1 /\ closed' = closed
  BY DEF NextFix
<1>4. ~ closed /\ closed' = FALSE
  BY <1>1, <1>2, <1>3, PassesAssumptions DEF Typed, TypeOK
<1>5. PICK b \in Distances, resumed \in BOOLEAN, usable \in BOOLEAN :
        /\ resumed => ~ usable
        /\ \E chord \in Chords(dist, b, usable) :
             LET opens == cur = NoPass /\ chord # NoCut
                 ends == dist <= Radius \/ b <= Radius
                 pass == IF opens
                         THEN Opened(FixAt(i) + chord.enter, i,
                                     IF ends THEN "point_inside" ELSE "interpolated")
                         ELSE cur
                 extended == Extended(pass, chord, b)
                 inside == insideFix \/ ends
                 long == longChord \/ (chord # NoCut /\ chord.long)
             IN  IF pass = NoPass
                 THEN UNCHANGED <<cur, insideFix, longChord, passes>>
                 ELSE IF Parts(b, resumed)
                      THEN /\ passes' = Kept(extended, inside, long, FixAt(i + 1))
                           /\ cur' = NoPass
                           /\ insideFix' = FALSE
                           /\ longChord' = FALSE
                      ELSE /\ cur' = extended
                           /\ insideFix' = inside
                           /\ longChord' = long
                           /\ UNCHANGED passes
        /\ dist' = b
        /\ unusable' = IF usable THEN unusable ELSE unusable \cup {i}
        /\ parted' = IF b > ExitRadius \/ resumed THEN parted \cup {i + 1} ELSE parted
  BY ZenonT(40) DEF NextFix
<1>6. PICK chord \in Chords(dist, b, usable) :
        LET opens == cur = NoPass /\ chord # NoCut
            ends == dist <= Radius \/ b <= Radius
            pass == IF opens
                    THEN Opened(FixAt(i) + chord.enter, i,
                                IF ends THEN "point_inside" ELSE "interpolated")
                    ELSE cur
            extended == Extended(pass, chord, b)
            inside == insideFix \/ ends
            long == longChord \/ (chord # NoCut /\ chord.long)
        IN  IF pass = NoPass
            THEN UNCHANGED <<cur, insideFix, longChord, passes>>
            ELSE IF Parts(b, resumed)
                 THEN /\ passes' = Kept(extended, inside, long, FixAt(i + 1))
                      /\ cur' = NoPass
                      /\ insideFix' = FALSE
                      /\ longChord' = FALSE
                 ELSE /\ cur' = extended
                      /\ insideFix' = inside
                      /\ longChord' = long
                      /\ UNCHANGED passes
  BY <1>5
<1> DEFINE ends == dist <= Radius \/ b <= Radius
           method == IF ends THEN "point_inside" ELSE "interpolated"
           pass == IF cur = NoPass /\ chord # NoCut
                   THEN Opened(FixAt(i) + chord.enter, i, method)
                   ELSE cur
           extended == Extended(pass, chord, b)
           inside == insideFix \/ ends
           long == longChord \/ (chord # NoCut /\ chord.long)
<1>7. \/ pass = NoPass /\ UNCHANGED <<cur, insideFix, longChord, passes>>
      \/ /\ pass # NoPass /\ Parts(b, resumed)
         /\ passes' = Kept(extended, inside, long, FixAt(i + 1))
         /\ cur' = NoPass /\ insideFix' = FALSE /\ longChord' = FALSE
      \/ /\ pass # NoPass /\ ~ Parts(b, resumed)
         /\ cur' = extended /\ insideFix' = inside /\ longChord' = long /\ UNCHANGED passes
  BY <1>6, Zenon
<1>8. method \in {"point_inside", "interpolated"}
  OBVIOUS
<1>9. pass # NoPass => /\ extended \in Pass
                       /\ OpenAt(extended, FixAt(i + 1), unusable')
                       /\ Parts(b, resumed) => extended.enter < FixAt(i + 1)
  <2> SUFFICES ASSUME pass # NoPass
               PROVE  /\ extended \in Pass
                      /\ OpenAt(extended, FixAt(i + 1), unusable')
                      /\ Parts(b, resumed) => extended.enter < FixAt(i + 1)
    OBVIOUS
  <2>1. \A j \in DOMAIN passes : passes[j].exit <= FixAt(i)
    BY <1>1 DEF KeptPasses, KeptAt
  <2>2. unusable' = IF usable THEN unusable ELSE unusable \cup {i}
    BY <1>5
  <2>3. usable /\ b <= Radius => ~ Parts(b, resumed)
    BY <1>5 DEF Parts, Radius, ExitRadius, Distances
  <2> HIDE DEF method
  <2>4. /\ extended \in Pass /\ OpenAt(extended, FixAt(i + 1), unusable')
        /\ extended.enter < FixAt(i + 1) \/ (usable /\ b <= Radius)
    BY <1>1, <1>5, <1>6, <1>8, <2>1, <2>2, ExtendedPass
  <2> QED
    BY <2>3, <2>4
<1> HIDE DEF ends, method, extended
<1>10. pass = NoPass => cur = NoPass
  <2>1. cur = NoPass /\ chord # NoCut => pass.method # NoPass.method
    BY <1>8 DEF Opened, NoPass
  <2> QED
    BY <2>1
<1> HIDE DEF pass, inside, long
<1>11. /\ unusable' = unusable \/ unusable' = unusable \cup {i}
       /\ parted' = parted \/ parted' = parted \cup {i + 1}
       /\ Parts(b, resumed) => i + 1 \in parted'
       /\ ~ Parts(b, resumed) => parted' = parted
  BY <1>5 DEF Parts
<1>12. /\ i' \in Fixes /\ dist' \in Distances
       /\ unusable' \subseteq Fixes /\ parted' \subseteq Fixes
       /\ \A f \in unusable' : f < i'
       /\ \A f \in parted' : f <= i'
       /\ closed' => i' = NumFixes - 1
  <2>1. unusable \subseteq Fixes /\ parted \subseteq Fixes
    BY <1>1 DEF Typed, TypeOK
  <2>2. i + 1 \in Fixes
    BY <1>2, <1>3, PassesAssumptions DEF Fixes
  <2>3. dist' \in Distances
    BY <1>5
  <2>4. unusable' \subseteq Fixes /\ parted' \subseteq Fixes
    BY <1>2, <1>11, <2>1, <2>2
  <2>5. \A f \in unusable' : f < i'
    <3> SUFFICES ASSUME NEW f \in unusable'
                 PROVE  f < i + 1
      BY <1>3
    <3>1. f \in unusable \/ f = i
      BY <1>11
    <3>2. f \in unusable => f \in Nat /\ f < i
      BY <1>2
    <3> QED
      BY <1>2, <3>1, <3>2
  <2>6. \A f \in parted' : f <= i'
    <3> SUFFICES ASSUME NEW f \in parted'
                 PROVE  f <= i + 1
      BY <1>3
    <3>1. f \in parted \/ f = i + 1
      BY <1>11
    <3>2. f \in parted => f \in Nat /\ f <= i
      BY <1>2
    <3> QED
      BY <1>2, <3>1, <3>2
  <2> QED
    BY <1>3, <1>4, <2>2, <2>3, <2>4, <2>5, <2>6
<1>13. insideFix' \in BOOLEAN /\ longChord' \in BOOLEAN
  <2>1. insideFix \in BOOLEAN /\ longChord \in BOOLEAN
    BY <1>1 DEF Typed, TypeOK
  <2>2. pass # NoPass => inside \in BOOLEAN /\ long \in BOOLEAN
    BY <2>1, ChordIsLongOrNot, <1>2, <1>6 DEF inside, long, ends
  <2> QED
    BY <1>7, <2>1, <2>2
<1>14. \A j \in DOMAIN passes :
         /\ KeptAt(passes[j], FixAt(i'), unusable', parted')
         /\ EndedBy(passes[j], parted')
  <2> SUFFICES ASSUME NEW j \in DOMAIN passes
               PROVE  /\ KeptAt(passes[j], FixAt(i'), unusable', parted')
                      /\ EndedBy(passes[j], parted')
    OBVIOUS
  <2>1. /\ passes[j] \in Pass /\ KeptAt(passes[j], FixAt(i), unusable, parted)
        /\ EndedBy(passes[j], parted)
    BY <1>1, <1>2, <1>4 DEF KeptPasses
  <2>2. KeptAt(passes[j], FixAt(i + 1), unusable', parted')
    BY <1>1, <1>11, <2>1, StaysKept
  <2>3. EndedBy(passes[j], parted')
    BY <1>11, <2>1 DEF EndedBy
  <2> QED
    BY <1>3, <2>2, <2>3
<1>15. UNCHANGED passes => passes' \in Seq(Pass) /\ KeptPasses' /\ InTurn'
  BY <1>1, <1>2, <1>14 DEF KeptPasses, InTurn
<1>16. cur' \in Pass \cup {NoPass} /\ passes' \in Seq(Pass) /\ KeptPasses' /\ InTurn' /\ OpenPass'
  <2>1. CASE pass = NoPass /\ UNCHANGED <<cur, insideFix, longChord, passes>>
    BY <1>10, <1>15, <2>1 DEF OpenPass
  <2>2. CASE /\ pass # NoPass /\ Parts(b, resumed)
             /\ passes' = Kept(extended, inside, long, FixAt(i + 1))
             /\ cur' = NoPass
    <3>1. CASE UNCHANGED passes
      BY <1>15, <2>2, <3>1 DEF OpenPass
    <3>2. CASE passes' = Append(passes, [extended EXCEPT !.exit = FixAt(i')])
      <4>1. /\ extended \in Pass /\ extended.enter <= extended.closest
            /\ extended.closest <= FixAt(i') /\ extended.enter < FixAt(i')
            /\ \A j \in DOMAIN passes : passes[j].exit <= extended.enter
            /\ Travelled(extended.enter, unusable') /\ Travelled(extended.closest, unusable')
            /\ \A f \in parted : FixAt(f) <= extended.enter
        BY <1>3, <1>9, <2>2 DEF OpenAt
      <4>2. \A f \in parted' : extended.enter < FixAt(f) => FixAt(i') <= FixAt(f)
        <5> SUFFICES ASSUME NEW f \in parted', extended.enter < FixAt(f)
                     PROVE  FixAt(i') <= FixAt(f)
          OBVIOUS
        <5>1. CASE f \in parted
          <6>1. FixAt(f) \in Nat /\ FixAt(f) <= extended.enter /\ extended.enter \in Nat
            BY <1>2, <4>1, <5>1 DEF FixAt, Pass
          <6> QED
            BY <6>1
        <5>2. CASE f = i + 1
          BY <1>2, <1>3, <5>2
        <5> QED
          BY <1>11, <5>1, <5>2
      <4>3. \E f \in parted' : extended.enter < FixAt(f) /\ FixAt(f) = FixAt(i')
        BY <1>3, <1>11, <2>2, <4>1
      <4>4. FixAt(i') \in Nat
        BY <1>2, <1>3
      <4>5. passes' \in Seq(Pass) /\ KeptPasses' /\ InTurn'
        BY <1>1, <1>2, <1>14, <3>2, <4>1, <4>2, <4>3, <4>4, PassKept
      <4> QED
        BY <2>2, <4>5 DEF OpenPass
    <3> QED
      BY <1>3, <2>2, <3>1, <3>2 DEF Kept
  <2>3. CASE /\ pass # NoPass /\ ~ Parts(b, resumed)
             /\ cur' = extended /\ UNCHANGED passes
    <3>1. OpenAt(extended, FixAt(i + 1), unusable')
      BY <1>9, <2>3
    <3>2. OpenAt(cur, FixAt(i), unusable)'
      BY <1>3, <1>11, <2>3, <3>1 DEF OpenAt
    <3> QED
      BY <1>4, <1>9, <1>15, <2>3, <3>2 DEF OpenPass
  <2> QED
    BY <1>7, <2>1, <2>2, <2>3
<1>17. Typed'
  BY <1>4, <1>12, <1>13, <1>16 DEF Typed, TypeOK
<1> QED
  BY <1>16, <1>17 DEF PassesInv

(* The end of the recording. *)
LEMMA CloseLastKeeps == PassesInv /\ CloseLast => PassesInv'
<1> SUFFICES ASSUME PassesInv, CloseLast
             PROVE  PassesInv'
  OBVIOUS
<1>1. Typed /\ KeptPasses /\ InTurn /\ OpenPass
  BY DEF PassesInv
<1>2. /\ i' = i /\ dist' = dist /\ unusable' = unusable /\ parted' = parted
      /\ i = NumFixes - 1 /\ ~ closed /\ closed' = TRUE
      /\ cur' = NoPass /\ insideFix' = FALSE /\ longChord' = FALSE
      /\ passes' = IF cur = NoPass THEN passes ELSE Kept(cur, insideFix, longChord, FixAt(i))
  BY DEF CloseLast
<1>3. /\ i \in Nat /\ FixAt(i) \in Nat /\ parted \subseteq Nat
      /\ cur \in Pass \cup {NoPass} /\ passes \in Seq(Pass)
  BY <1>1, TypesGive
<1>4. \A j \in DOMAIN passes :
        /\ KeptAt(passes[j], FixAt(i'), unusable', parted')
        /\ EndedBy(passes[j], parted')
  BY <1>1, <1>2 DEF KeptPasses
<1>5. passes' \in Seq(Pass) /\ KeptPasses' /\ InTurn'
  <2>1. CASE passes' = passes
    BY <1>1, <1>3, <1>4, <2>1 DEF KeptPasses, InTurn
  <2>2. CASE cur # NoPass /\ passes' = Append(passes, [cur EXCEPT !.exit = FixAt(i')])
    <3>1. /\ cur \in Pass /\ cur.enter \in Nat
          /\ cur.enter <= cur.closest /\ cur.closest <= FixAt(i')
          /\ \A j \in DOMAIN passes : passes[j].exit <= cur.enter
          /\ Travelled(cur.enter, unusable') /\ Travelled(cur.closest, unusable')
          /\ \A f \in parted' : FixAt(f) <= cur.enter
      BY <1>1, <1>2, <1>3, <2>2 DEF OpenPass, OpenAt, Pass
    <3>2. \A f \in parted' : cur.enter < FixAt(f) => FixAt(i') <= FixAt(f)
      BY <1>2, <1>3, <3>1 DEF FixAt
    <3>3. FixAt(i') \in Nat
      BY <1>2, <1>3
    <3> QED
      BY <1>1, <1>2, <1>3, <1>4, <2>2, <3>1, <3>2, <3>3, PassKept
  <2> QED
    BY <1>2, <2>1, <2>2 DEF Kept
<1>6. OpenPass'
  BY <1>2 DEF OpenPass
<1>7. Typed'
  BY <1>1, <1>2, <1>5 DEF Typed, TypeOK
<1> QED
  BY <1>5, <1>6, <1>7 DEF PassesInv

LEMMA PassesStep == PassesInv /\ [Next]_vars => PassesInv'
<1> SUFFICES ASSUME PassesInv, [Next]_vars
             PROVE  PassesInv'
  OBVIOUS
<1>1. CASE NextFix
  BY <1>1, NextFixKeeps
<1>2. CASE CloseLast
  BY <1>2, CloseLastKeeps
<1>3. CASE UNCHANGED vars
  BY <1>3 DEF vars, PassesInv, Typed, TypeOK, KeptPasses, InTurn, OpenPass, OpenAt
<1> QED
  BY <1>1, <1>2, <1>3 DEF Next

-----------------------------------------------------------------------------
(* Theorems *)

(***************************************************************************)
(* The loop of findPasses keeps its counters and passes well formed.       *)
(***************************************************************************)
THEOREM PassesTyped == Spec => []TypeOK
<1>1. PassesInv => TypeOK
  BY DEF PassesInv, Typed
<1> QED
  BY <1>1, PassesStart, PassesStep, PTL DEF Spec

(***************************************************************************)
(* Each pass findPasses returns is entered, closest and left in that       *)
(* order, and the next one is entered after it was left, however long the  *)
(* recording.                                                              *)
(***************************************************************************)
THEOREM PassesInOrder == Spec => []PassesChronological
<1>1. PassesInv => PassesChronological
  BY DEF PassesInv, KeptPasses, KeptAt, InTurn, PassesChronological
<1> QED
  BY <1>1, PassesStart, PassesStep, PTL DEF Spec

(***************************************************************************)
(* Between two passes findPasses saw the recording away, or resumed: the   *)
(* fix that ended the first one comes before the second is entered.        *)
(***************************************************************************)
THEOREM JitterMakesOnePass == Spec => []JitterIsOnePass
<1>1. PassesInv => JitterIsOnePass
  <2> SUFFICES ASSUME PassesInv, NEW j \in 1 .. Len(passes) - 1
               PROVE  \E f \in parted : passes[j].enter < FixAt(f)
                                        /\ FixAt(f) <= passes[j + 1].enter
    BY DEF JitterIsOnePass
  <2>1. passes \in Seq(Pass)
    BY TypesGive DEF PassesInv
  <2>2. j \in DOMAIN passes /\ j < Len(passes)
    BY <2>1
  <2>3. EndedBy(passes[j], parted) /\ passes[j].exit <= passes[j + 1].enter
    BY <2>2 DEF PassesInv, KeptPasses, InTurn
  <2> QED
    BY <2>3 DEF EndedBy
<1> QED
  BY <1>1, PassesStart, PassesStep, PTL DEF Spec

(***************************************************************************)
(* findPasses enters no pass, and lets none come closest, on a stretch of  *)
(* the recording that shows no travel.                                     *)
(***************************************************************************)
THEOREM NothingIsInvented == Spec => []NothingInvented
<1>1. PassesInv => NothingInvented
  BY DEF PassesInv, KeptPasses, KeptAt, Travelled, NothingInvented
<1> QED
  BY <1>1, PassesStart, PassesStep, PTL DEF Spec

(***************************************************************************)
(* No pass findPasses returns reaches past a fix at which recording        *)
(* resumed or the waypoint was left.                                       *)
(***************************************************************************)
THEOREM PassesEndInTime == Spec => []PassesEndWhereParted
<1>1. PassesInv => PassesEndWhereParted
  BY DEF PassesInv, KeptPasses, KeptAt, PassesEndWhereParted
<1> QED
  BY <1>1, PassesStart, PassesStep, PTL DEF Spec
=============================================================================
