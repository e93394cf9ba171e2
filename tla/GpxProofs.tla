------------------------------ MODULE GpxProofs ------------------------------
(***************************************************************************)
(* What Parse guarantees of documents of any length, in any order, with    *)
(* any instants: the track moves on in time without impossible travel, a   *)
(* break survives the fixes that are discarded, and a clean recording is   *)
(* kept whole.                                                             *)
(***************************************************************************)
EXTENDS Gpx, TLAPS

Kept == [time : 1 .. MaxTime, opens : BOOLEAN, place : Places, at : Timed(points)]

(* Points filter has come to. *)
Seen == Timed(points) \ left

Typed ==
  /\ TypeOK
  /\ result # "none" => left = {}

(* They come before the others, and what was kept is among them. *)
Advancing ==
  /\ \A a \in Seen, b \in left : Before(a, b)
  /\ \A k \in DOMAIN track :
       /\ track[k].at \in Seen
       /\ track[k].time = points[track[k].at].time
       /\ track[k].place = points[track[k].at].place

(* The joints between the fixes kept so far. *)
TravelSoFar ==
  \A k \in 1 .. Len(track) - 1 :
    /\ track[k].time < track[k + 1].time
    /\ track[k + 1].opens \/ ~ TooFast(track[k], track[k + 1])

(* A break between two points of the document. *)
BreakBetween(a, b) ==
  \E n \in Timed(points) : points[n].opens /\ Before(a, n) /\ (n = b \/ Before(n, b))

BreaksSoFar ==
  /\ \A k \in 1 .. Len(track) - 1 :
       track[k + 1].opens <=> BreakBetween(track[k].at, track[k + 1].at)
  /\ result = "track" /\ track # <<>> => track[1].opens

(* A break is pending when one follows the last fix kept. *)
PendingBreak ==
  (result = "none" /\ track # <<>>) =>
    (pending <=> \E n \in Seen : points[n].opens /\ Before(Last(track).at, n))

(* Of a clean recording, everything so far has been kept. *)
CleanSoFar ==
  Clean(points) =>
    /\ left = {n \in DOMAIN points : n > Len(track)}
    /\ track # <<>> => Last(track).at = Len(track)

GpxInv == Typed /\ Advancing /\ TravelSoFar /\ BreaksSoFar /\ PendingBreak /\ CleanSoFar

-----------------------------------------------------------------------------
(* Documents *)

LEMMA DocumentShape ==
  ASSUME NEW doc \in Documents
  PROVE  /\ doc \in Seq(Fix)
         /\ \A n \in DOMAIN doc : /\ n \in Nat /\ doc[n].time \in Nat
                                  /\ doc[n].opens \in BOOLEAN
                                  /\ doc[n].place \in Places \cup {Nowhere}
         /\ \A n \in Timed(doc) : n \in DOMAIN doc /\ doc[n].time \in 1 .. MaxTime
<1>1. PICK n \in 0 .. MaxPoints : doc \in [1 .. n -> Fix]
  BY DEF Documents
<1>2. n \in Nat
  BY GpxAssumptions
<1>3. doc \in Seq(Fix) /\ DOMAIN doc = 1 .. n
  BY <1>1, <1>2
<1>4. ASSUME NEW m \in DOMAIN doc
      PROVE  /\ m \in Nat
             /\ doc[m].time \in {NoTime} \cup 1 .. MaxTime
             /\ doc[m].opens \in BOOLEAN
             /\ doc[m].place \in Places \cup {Nowhere}
  <2>1. doc[m] \in Fix
    BY <1>1, <1>3
  <2> QED
    BY <1>2, <1>3, <2>1 DEF Fix
<1>5. \A m \in DOMAIN doc : doc[m].time \in Nat
  BY <1>4, GpxAssumptions DEF NoTime
<1>6. \A m \in Timed(doc) : m \in DOMAIN doc /\ doc[m].time \in 1 .. MaxTime
  BY <1>4 DEF Timed
<1> QED
  BY <1>3, <1>4, <1>5, <1>6

(* By time and position, points are in a strict order. *)
LEMMA BeforeOrders ==
  ASSUME points \in Documents
  PROVE  \A a, b \in Timed(points) :
           /\ ~ (Before(a, b) /\ Before(b, a))
           /\ ~ Before(a, a)
           /\ \A c \in Timed(points) : Before(a, b) /\ Before(b, c) => Before(a, c)
<1>1. \A n \in Timed(points) : n \in Nat /\ points[n].time \in Nat
  BY DocumentShape
<1> QED
  BY <1>1 DEF Before

LEMMA UpToLast ==
  ASSUME NEW m \in Nat, NEW k \in 1 .. m
  PROVE  k = m \/ (k \in 1 .. m - 1 /\ k + 1 \in 1 .. m)
OBVIOUS

LEMMA GpxStart == Init => GpxInv
<1> SUFFICES ASSUME Init
             PROVE  GpxInv
  OBVIOUS
<1>1. /\ points \in Documents /\ left = Timed(points) /\ track = <<>>
      /\ pending = FALSE /\ result = "none"
  BY DEF Init
<1>2. track \in Seq(Kept) /\ Len(track) = 0 /\ DOMAIN track = {}
  BY <1>1
<1>3. Typed
  BY <1>1, <1>2 DEF Typed, TypeOK, Kept
<1>4. Advancing
  BY <1>1, <1>2 DEF Advancing, Seen
<1>5. TravelSoFar /\ BreaksSoFar /\ PendingBreak
  BY <1>1, <1>2 DEF TravelSoFar, BreaksSoFar, PendingBreak
<1>6. CleanSoFar
  <2> SUFFICES ASSUME Clean(points)
               PROVE  left = {n \in DOMAIN points : n > Len(track)}
    BY <1>1 DEF CleanSoFar
  <2>1. Timed(points) = DOMAIN points
    BY DEF Clean, Timed
  <2>2. \A n \in DOMAIN points : n > 0
    <3>1. points \in Seq(Fix)
      BY <1>1, DocumentShape
    <3> QED
      BY <3>1
  <2> QED
    BY <1>1, <1>2, <2>1, <2>2
<1> QED
  BY <1>3, <1>4, <1>5, <1>6 DEF GpxInv

-----------------------------------------------------------------------------
(* The next point in order *)

NextAt(n, opens) ==
  /\ n \in left /\ \A m \in left : m = n \/ Before(n, m)
  /\ opens = (pending \/ points[n].opens)
  /\ left' = left \ {n} /\ UNCHANGED <<points, result>>

LEMMA NextPointAt ==
  ASSUME NextPoint
  PROVE  \E n \in left, opens \in BOOLEAN :
           /\ NextAt(n, opens)
           /\ \/ Rejected(track, points[n], opens) /\ Discard(opens)
              \/ ~ Rejected(track, points[n], opens) /\ Keep(n, opens)
<1>1. PICK n \in left :
        /\ \A m \in left : m = n \/ Before(n, m)
        /\ LET opens == pending \/ points[n].opens
           IN  IF Rejected(track, points[n], opens) THEN Discard(opens) ELSE Keep(n, opens)
        /\ left' = left \ {n}
        /\ UNCHANGED <<points, result>>
  BY Zenon DEF NextPoint
<1> DEFINE opens == pending \/ points[n].opens
<1>2. opens \in BOOLEAN
  OBVIOUS
<1>3. NextAt(n, opens)
  BY <1>1 DEF NextAt
<1>4. IF Rejected(track, points[n], opens) THEN Discard(opens) ELSE Keep(n, opens)
  BY <1>1
<1> HIDE DEF opens
<1> QED
  BY <1>2, <1>3, <1>4

(* What was seen before stays before what is left, and the point joins it. *)
LEMMA SeenGrows ==
  ASSUME Typed, Advancing, NEW n, NEW opens, NextAt(n, opens)
  PROVE  /\ points \in Documents /\ points' = points /\ result' = result
         /\ n \in Timed(points) /\ n \notin Seen /\ result = "none"
         /\ Seen' = Seen \cup {n}
         /\ \A a \in Seen : Before(a, n)
         /\ \A a, b \in Timed(points) : Before(a, b)' <=> Before(a, b)
         /\ \A a \in Seen', b \in left' : Before(a, b)'
         /\ \A m \in Timed(points) : Before(m, n) => m \in Seen
<1>1. /\ points \in Documents /\ points' = points /\ result' = result
      /\ left \subseteq Timed(points) /\ n \in left /\ left' = left \ {n}
      /\ \A m \in left : m = n \/ Before(n, m)
      /\ result = "none"
  BY DEF Typed, TypeOK, NextAt
<1>2. Seen' = Seen \cup {n} /\ Seen \subseteq Timed(points) /\ n \notin Seen
  BY <1>1 DEF Seen
<1>3. \A a \in Seen, b \in left : Before(a, b)
  BY DEF Advancing
<1>4. \A a, b \in Timed(points) : Before(a, b)' <=> Before(a, b)
  BY <1>1 DEF Before
<1>5. ASSUME NEW a \in Seen', NEW b \in left'
      PROVE  Before(a, b)
  BY <1>1, <1>2, <1>3
<1>6. \A m \in Timed(points) : Before(m, n) => m \in Seen
  BY <1>1, <1>2, BeforeOrders DEF Seen
<1>7. \A a \in Seen', b \in left' : Before(a, b)'
  BY <1>1, <1>2, <1>4, <1>5
<1> QED
  BY <1>1, <1>2, <1>3, <1>4, <1>6, <1>7

(* What is next of a clean recording. *)
LEMMA CleanNext ==
  ASSUME Typed, Clean(points), CleanSoFar, NEW n, NEW opens, NextAt(n, opens)
  PROVE  /\ n = Len(track) + 1 /\ n \in DOMAIN points
         /\ left' = {m \in DOMAIN points : m > n}
         /\ points' = points
<1>1. /\ points \in Documents /\ points' = points
      /\ track \in Seq(Kept) /\ n \in left /\ left' = left \ {n}
      /\ \A m \in left : m = n \/ Before(n, m)
  BY DEF Typed, TypeOK, NextAt, Kept
<1>2. left = {m \in DOMAIN points : m > Len(track)}
  BY DEF CleanSoFar
<1>3. /\ Len(track) \in Nat /\ Len(points) \in Nat /\ DOMAIN points = 1 .. Len(points)
      /\ \A m \in DOMAIN points : points[m].time \in Nat
  BY <1>1, DocumentShape
<1>4. n \in DOMAIN points /\ n > Len(track)
  BY <1>1, <1>2
<1>5. n = Len(track) + 1
  <2> SUFFICES ASSUME n > Len(track) + 1
               PROVE  FALSE
    BY <1>3, <1>4
  <2> DEFINE m == n - 1
  <2>1. m \in left /\ m # n /\ m \in 1 .. Len(points) - 1 /\ m + 1 = n
    BY <1>2, <1>3, <1>4
  <2>2. points[m].time < points[n].time
    BY <2>1 DEF Clean
  <2>3. Before(n, m)
    BY <1>1, <2>1
  <2> QED
    BY <1>3, <1>4, <2>1, <2>2, <2>3 DEF Before
<1>6. left' = {m \in DOMAIN points : m > n}
  BY <1>1, <1>2, <1>3, <1>5
<1> QED
  BY <1>1, <1>4, <1>5, <1>6

(* A point that is discarded leaves the track alone. *)
LEMMA DiscardKeeps ==
  ASSUME GpxInv, NEW n, NEW opens \in BOOLEAN, NextAt(n, opens),
         Rejected(track, points[n], opens), Discard(opens)
  PROVE  GpxInv'
<1>1. Typed /\ Advancing /\ TravelSoFar /\ BreaksSoFar /\ PendingBreak /\ CleanSoFar
  BY DEF GpxInv
<1>2. track' = track /\ pending' = opens /\ opens = (pending \/ points[n].opens)
      /\ left' = left \ {n}
  BY DEF Discard, NextAt
<1>3. /\ points \in Documents /\ points' = points /\ result' = result
      /\ n \in Timed(points) /\ n \notin Seen /\ result = "none"
      /\ Seen' = Seen \cup {n}
      /\ \A a \in Seen : Before(a, n)
      /\ \A a, b \in Timed(points) : Before(a, b)' <=> Before(a, b)
      /\ \A a \in Seen', b \in left' : Before(a, b)'
  BY <1>1, SeenGrows
<1>4. Typed'
  BY <1>1, <1>2, <1>3 DEF Typed, TypeOK
<1>5. Advancing'
  BY <1>1, <1>2, <1>3 DEF Advancing
<1>6. TravelSoFar'
  BY <1>1, <1>2 DEF TravelSoFar
<1>7. track \in Seq(Kept) /\ \A k \in DOMAIN track : track[k].at \in Timed(points)
  <2>1. track \in Seq(Kept)
    BY <1>1 DEF Typed, TypeOK, Kept
  <2> QED
    BY <1>1, <2>1 DEF Advancing, Seen
<1>8. BreaksSoFar'
  <2>1. \A a, b \in Timed(points) : BreakBetween(a, b)' <=> BreakBetween(a, b)
    BY <1>3 DEF BreakBetween
  <2>2. \A k \in 1 .. Len(track) - 1 : track[k].at \in Timed(points) /\ track[k + 1].at \in Timed(points)
    BY <1>7
  <2> QED
    BY <1>1, <1>2, <1>3, <2>1, <2>2 DEF BreaksSoFar
<1>9. PendingBreak'
  <2> SUFFICES ASSUME track # <<>>
               PROVE  opens <=> \E m \in Seen' : points[m].opens /\ Before(Last(track).at, m)'
    BY <1>2, <1>3 DEF PendingBreak
  <2>1. Last(track).at \in Seen /\ Last(track).at \in Timed(points)
    BY <1>1, <1>7 DEF Advancing, Last
  <2>2. Seen \subseteq Timed(points)
    BY DEF Seen
  <2>3. pending <=> \E m \in Seen : points[m].opens /\ Before(Last(track).at, m)
    BY <1>1, <1>3 DEF PendingBreak
  <2> QED
    BY <1>2, <1>3, <2>1, <2>2, <2>3
<1>10. CleanSoFar'
  <2> SUFFICES ASSUME Clean(points)
               PROVE  FALSE
    BY <1>3 DEF CleanSoFar
  <2>1. n = Len(track) + 1 /\ n \in DOMAIN points
    BY <1>1, CleanNext
  <2>2. points[n].place # Nowhere
    BY <2>1 DEF Clean
  <2>3. track # <<>> /\ (points[n].time <= Last(track).time
                         \/ (~ points[n].opens /\ TooFast(Last(track), points[n])))
    BY <1>2, <2>2 DEF Rejected
  <2> DEFINE m == Len(track)
  <2>4. /\ m \in 1 .. Len(points) - 1 /\ m + 1 = n /\ m \in DOMAIN points
        /\ points[m].time \in Nat /\ points[n].time \in Nat
    <3>1. m \in Nat /\ m # 0 /\ points \in Seq(Fix)
      BY <1>3, <1>7, <2>3, DocumentShape
    <3>2. m \in 1 .. Len(points) - 1 /\ m + 1 = n /\ m \in DOMAIN points
      BY <2>1, <3>1
    <3> QED
      BY <1>3, <2>1, <3>2, DocumentShape
  <2>5. Last(track).time = points[m].time /\ Last(track).place = points[m].place
    <3>1. Last(track).at = m /\ m \in DOMAIN track
      BY <1>1, <1>7, <2>3, <2>4 DEF CleanSoFar
    <3> QED
      BY <1>1, <3>1 DEF Advancing, Last
  <2>6. points[m].time < points[n].time
        /\ (points[n].opens \/ ~ TooFast(points[m], points[n]))
    BY <2>4 DEF Clean
  <2> QED
    BY <2>3, <2>4, <2>5, <2>6 DEF TooFast
<1> QED
  BY <1>4, <1>5, <1>6, <1>8, <1>9, <1>10 DEF GpxInv

(* A point that is kept joins the fix kept before it. *)
LEMMA KeepKeeps ==
  ASSUME GpxInv, NEW n, NEW opens \in BOOLEAN, NextAt(n, opens),
         ~ Rejected(track, points[n], opens), Keep(n, opens)
  PROVE  GpxInv'
<1> DEFINE fix == [time |-> points[n].time, opens |-> opens, place |-> points[n].place,
                   at |-> n]
<1>1. Typed /\ Advancing /\ TravelSoFar /\ BreaksSoFar /\ PendingBreak /\ CleanSoFar
  BY DEF GpxInv
<1>2. /\ points \in Documents /\ points' = points /\ result' = result
      /\ n \in Timed(points) /\ n \notin Seen /\ result = "none"
      /\ Seen' = Seen \cup {n}
      /\ \A a \in Seen : Before(a, n)
      /\ \A a, b \in Timed(points) : Before(a, b)' <=> Before(a, b)
      /\ \A a \in Seen', b \in left' : Before(a, b)'
      /\ \A m \in Timed(points) : Before(m, n) => m \in Seen
  BY <1>1, SeenGrows
<1>3. /\ track' = Append(track, fix) /\ pending' = FALSE
      /\ left' = left \ {n} /\ opens = (pending \/ points[n].opens)
  BY DEF Keep, NextAt
<1>4. fix \in Kept /\ fix.time = points[n].time /\ fix.opens = opens
      /\ fix.place = points[n].place /\ fix.at = n
  <2>1. points[n].time \in 1 .. MaxTime /\ points[n].place \in Places
    BY <1>2, DocumentShape DEF Rejected
  <2> QED
    BY <1>2, <2>1 DEF Kept
<1>5. points[n].place # Nowhere
      /\ (track # <<>> => /\ ~ (points[n].time <= Last(track).time)
                          /\ opens \/ ~ TooFast(Last(track), points[n]))
  BY DEF Rejected
<1> HIDE DEF fix
<1>6. /\ track \in Seq(Kept) /\ track' \in Seq(Kept)
      /\ Len(track') = Len(track) + 1 /\ Len(track) \in Nat
      /\ DOMAIN track' = 1 .. Len(track) + 1 /\ DOMAIN track = 1 .. Len(track)
      /\ \A k \in DOMAIN track : track'[k] = track[k]
      /\ track'[Len(track) + 1] = fix
      /\ track' # <<>>
  <2>1. track \in Seq(Kept)
    BY <1>1 DEF Typed, TypeOK, Kept
  <2> QED
    BY <1>3, <1>4, <2>1
<1>7. Last(track') = fix
  BY <1>6 DEF Last
<1>8. track # <<>> => Last(track) = track[Len(track)] /\ Len(track) \in DOMAIN track
  BY <1>6 DEF Last
<1>9. Typed'
  BY <1>1, <1>2, <1>3, <1>6 DEF Typed, TypeOK, Kept
<1>10. Advancing'
  <2> SUFFICES ASSUME NEW k \in DOMAIN track'
               PROVE  /\ track'[k].at \in Seen'
                      /\ track'[k].time = points[track'[k].at].time
                      /\ track'[k].place = points[track'[k].at].place
    BY <1>2 DEF Advancing
  <2>1. CASE k \in DOMAIN track
    BY <1>1, <1>2, <1>6, <2>1 DEF Advancing
  <2>2. CASE k = Len(track) + 1
    BY <1>2, <1>4, <1>6, <2>2
  <2> QED
    BY <1>6, <2>1, <2>2
<1>11. \A k \in 1 .. Len(track') - 1 :
         \/ /\ k \in 1 .. Len(track) - 1 /\ k \in DOMAIN track /\ k + 1 \in DOMAIN track
            /\ track'[k] = track[k] /\ track'[k + 1] = track[k + 1]
         \/ /\ k = Len(track) /\ k \in DOMAIN track /\ track # <<>>
            /\ track'[k] = Last(track) /\ track'[k + 1] = fix
  <2>1. Len(track') - 1 = Len(track)
    BY <1>6
  <2> SUFFICES ASSUME NEW k \in 1 .. Len(track)
               PROVE  \/ /\ k \in 1 .. Len(track) - 1
                         /\ k \in DOMAIN track /\ k + 1 \in DOMAIN track
                         /\ track'[k] = track[k] /\ track'[k + 1] = track[k + 1]
                      \/ /\ k = Len(track) /\ k \in DOMAIN track /\ track # <<>>
                         /\ track'[k] = Last(track) /\ track'[k + 1] = fix
    BY <2>1
  <2>2. CASE k = Len(track)
    <3>1. k \in DOMAIN track /\ track # <<>>
      BY <1>6
    <3>2. track'[k] = Last(track) /\ track'[k + 1] = fix
      BY <1>6, <1>8, <2>2, <3>1
    <3> QED
      BY <2>2, <3>1, <3>2
  <2>3. CASE k # Len(track)
    <3>1. k \in 1 .. Len(track) - 1 /\ k \in DOMAIN track /\ k + 1 \in DOMAIN track
      <4>1. k \in 1 .. Len(track) - 1 /\ k + 1 \in 1 .. Len(track)
        BY <1>6, <2>3, UpToLast
      <4> QED
        BY <1>6, <4>1
    <3> QED
      BY <1>6, <3>1
  <2> QED
    BY <2>2, <2>3
<1>12. TravelSoFar'
  <2> SUFFICES ASSUME NEW k \in 1 .. Len(track') - 1
               PROVE  /\ track'[k].time < track'[k + 1].time
                      /\ track'[k + 1].opens \/ ~ TooFast(track'[k], track'[k + 1])
    BY DEF TravelSoFar
  <2>1. CASE k \in 1 .. Len(track) - 1 /\ track'[k] = track[k] /\ track'[k + 1] = track[k + 1]
    BY <1>1, <2>1 DEF TravelSoFar
  <2>2. CASE track # <<>> /\ track'[k] = Last(track) /\ track'[k + 1] = fix
    <3>1. Last(track).time \in Nat /\ fix.time \in Nat
      <4>1. Last(track) \in Kept
        BY <1>6, <1>8, <2>2
      <4> QED
        BY <1>4, <4>1, GpxAssumptions DEF Kept
    <3>2. Last(track).time < fix.time
      BY <1>4, <1>5, <2>2, <3>1
    <3>3. fix.opens \/ ~ TooFast(Last(track), fix)
      BY <1>4, <1>5, <2>2 DEF TooFast
    <3> QED
      BY <2>2, <3>2, <3>3
  <2> QED
    BY <1>11, <2>1, <2>2
<1>13. track # <<>> => (opens <=> BreakBetween(Last(track).at, n))
  <2> SUFFICES ASSUME track # <<>>
               PROVE  opens <=> BreakBetween(Last(track).at, n)
    OBVIOUS
  <2>1. Last(track).at \in Seen /\ Before(Last(track).at, n)
    BY <1>1, <1>2, <1>8 DEF Advancing
  <2>2. pending <=> \E m \in Seen : points[m].opens /\ Before(Last(track).at, m)
    BY <1>1, <1>2 DEF PendingBreak
  <2>3. Seen \subseteq Timed(points)
    BY DEF Seen
  <2> QED
    BY <1>2, <1>3, <2>1, <2>2, <2>3 DEF BreakBetween
<1>14. BreaksSoFar'
  <2>1. ASSUME NEW k \in 1 .. Len(track') - 1
        PROVE  (track[k + 1].opens <=> BreakBetween(track[k].at, track[k + 1].at))'
    <3>1. CASE /\ k \in 1 .. Len(track) - 1 /\ k \in DOMAIN track /\ k + 1 \in DOMAIN track
               /\ track'[k] = track[k] /\ track'[k + 1] = track[k + 1]
      <4>1. track[k].at \in Timed(points) /\ track[k + 1].at \in Timed(points)
        BY <1>1, <3>1 DEF Advancing, Seen
      <4>2. track[k + 1].opens <=> BreakBetween(track[k].at, track[k + 1].at)
        BY <1>1, <3>1 DEF BreaksSoFar
      <4>3. BreakBetween(track[k].at, track[k + 1].at)' <=> BreakBetween(track[k].at, track[k + 1].at)
        BY <1>2, <3>1, <4>1 DEF BreakBetween
      <4> QED
        BY <3>1, <4>2, <4>3
    <3>2. CASE track # <<>> /\ track'[k] = Last(track) /\ track'[k + 1] = fix
      <4>1. Last(track).at \in Timed(points)
        BY <1>1, <1>8, <3>2 DEF Advancing, Seen
      <4>2. BreakBetween(track[k].at, track[k + 1].at)' <=> BreakBetween(Last(track).at, n)
        BY <1>2, <1>4, <3>2, <4>1 DEF BreakBetween
      <4> QED
        BY <1>4, <1>13, <3>2, <4>2
    <3> QED
      BY <1>11, <3>1, <3>2
  <2> QED
    BY <1>2, <2>1 DEF BreaksSoFar
<1>15. PendingBreak'
  <2> SUFFICES \A m \in Seen' : ~ Before(n, m)'
    BY <1>3, <1>4, <1>7 DEF PendingBreak
  <2>1. Seen' \subseteq Timed(points)
    BY <1>2 DEF Seen
  <2> QED
    BY <1>2, <2>1, BeforeOrders
<1>16. CleanSoFar'
  <2> SUFFICES ASSUME Clean(points)
               PROVE  /\ left' = {m \in DOMAIN points : m > Len(track')}
                      /\ Last(track').at = Len(track')
    BY <1>2 DEF CleanSoFar
  <2>1. n = Len(track) + 1 /\ left' = {m \in DOMAIN points : m > n}
    <3>1. NextAt(n, opens)
      OBVIOUS
    <3> QED
      BY <1>1, <3>1, CleanNext
  <2> QED
    BY <1>4, <1>6, <1>7, <2>1
<1> QED
  BY <1>9, <1>10, <1>12, <1>14, <1>15, <1>16 DEF GpxInv

LEMMA NextPointKeeps == GpxInv /\ NextPoint => GpxInv'
<1> SUFFICES ASSUME GpxInv, NextPoint
             PROVE  GpxInv'
  OBVIOUS
<1>1. PICK n \in left, opens \in BOOLEAN :
        /\ NextAt(n, opens)
        /\ \/ Rejected(track, points[n], opens) /\ Discard(opens)
           \/ ~ Rejected(track, points[n], opens) /\ Keep(n, opens)
  BY NextPointAt
<1>2. CASE Rejected(track, points[n], opens) /\ Discard(opens)
  BY <1>1, <1>2, DiscardKeeps
<1>3. CASE ~ Rejected(track, points[n], opens) /\ Keep(n, opens)
  BY <1>1, <1>3, KeepKeeps
<1> QED
  BY <1>1, <1>2, <1>3

-----------------------------------------------------------------------------
(* The end of the document *)

(* Marking the first fix disturbs no joint. *)
LEMMA FinishKeeps == GpxInv /\ Finish => GpxInv'
<1> SUFFICES ASSUME GpxInv, Finish
             PROVE  GpxInv'
  OBVIOUS
<1>1. Typed /\ Advancing /\ TravelSoFar /\ BreaksSoFar /\ PendingBreak /\ CleanSoFar
  BY DEF GpxInv
<1>2. /\ points' = points /\ left' = left /\ pending' = pending /\ left = {}
      /\ result' = "track"
      /\ track' = IF track = <<>> THEN track ELSE [track EXCEPT ![1].opens = TRUE]
  BY DEF Finish
<1>3. track \in Seq(Kept)
  BY <1>1 DEF Typed, TypeOK, Kept
<1>4. /\ track' \in Seq(Kept) /\ Len(track') = Len(track) /\ DOMAIN track' = DOMAIN track
      /\ \A k \in DOMAIN track : /\ track'[k].at = track[k].at
                                 /\ track'[k].time = track[k].time
                                 /\ track'[k].place = track[k].place
                                 /\ track'[k].opens = (IF k = 1 THEN TRUE ELSE track[k].opens)
  <2>1. CASE track = <<>>
    BY <1>2, <1>3, <2>1
  <2>2. CASE track # <<>>
    <3> DEFINE first == [track[1] EXCEPT !.opens = TRUE]
    <3>1. 1 \in DOMAIN track /\ track[1] \in Kept
      BY <1>3, <2>2
    <3>2. first \in Kept /\ first.at = track[1].at /\ first.time = track[1].time
          /\ first.place = track[1].place /\ first.opens = TRUE
      BY <3>1 DEF Kept
    <3>3. track' = [track EXCEPT ![1] = first]
      BY <1>2, <2>2
    <3> HIDE DEF first
    <3>4. track' \in Seq(Kept) /\ Len(track') = Len(track) /\ DOMAIN track' = DOMAIN track
      BY <1>3, <3>1, <3>2, <3>3
    <3>5. \A k \in DOMAIN track : track'[k] = IF k = 1 THEN first ELSE track[k]
      BY <1>3, <3>3
    <3> QED
      BY <3>2, <3>4, <3>5
  <2> QED
    BY <2>1, <2>2
<1>5. \A k \in 1 .. Len(track) - 1 :
        k \in DOMAIN track /\ k + 1 \in DOMAIN track /\ k + 1 # 1
  BY <1>3
<1>6. Typed'
  BY <1>1, <1>2, <1>4 DEF Typed, TypeOK, Kept
<1>7. Advancing'
  BY <1>1, <1>2, <1>4 DEF Advancing, Seen, Before
<1>8. TravelSoFar'
  BY <1>1, <1>4, <1>5 DEF TravelSoFar, TooFast
<1>9. BreaksSoFar'
  <2>1. \A k \in 1 .. Len(track) - 1 :
          track'[k + 1].opens <=> BreakBetween(track'[k].at, track'[k + 1].at)
    BY <1>1, <1>4, <1>5 DEF BreaksSoFar
  <2>2. \A a, b : BreakBetween(a, b)' <=> BreakBetween(a, b)
    BY <1>2 DEF BreakBetween, Before
  <2>3. track' # <<>> => track'[1].opens
    <3>1. track' # <<>> => 1 \in DOMAIN track
      BY <1>4
    <3> QED
      BY <1>4, <3>1
  <2> QED
    BY <1>4, <2>1, <2>2, <2>3 DEF BreaksSoFar
<1>10. PendingBreak'
  BY <1>2 DEF PendingBreak
<1>11. CleanSoFar'
  <2>1. track' # <<>> => track # <<>> /\ Last(track').at = Last(track).at
    BY <1>2, <1>3, <1>4 DEF Last
  <2> QED
    BY <1>1, <1>2, <1>4, <2>1 DEF CleanSoFar
<1> QED
  BY <1>6, <1>7, <1>8, <1>9, <1>10, <1>11 DEF GpxInv

LEMMA RefuseKeeps == GpxInv /\ Refuse => GpxInv'
<1> SUFFICES ASSUME GpxInv, Refuse
             PROVE  GpxInv'
  OBVIOUS
<1>1. /\ points' = points /\ left' = left /\ track' = track /\ pending' = pending
      /\ result' = "error" /\ Timed(points) = {}
  BY DEF Refuse
<1>2. left = {}
  BY <1>1 DEF GpxInv, Typed, TypeOK
<1> QED
  BY <1>1, <1>2 DEF GpxInv, Typed, TypeOK, Advancing, Seen, Before, TravelSoFar, BreaksSoFar,
                    BreakBetween, PendingBreak, CleanSoFar

LEMMA GpxStep == GpxInv /\ [Next]_vars => GpxInv'
<1> SUFFICES ASSUME GpxInv, [Next]_vars
             PROVE  GpxInv'
  OBVIOUS
<1>1. CASE Refuse
  BY <1>1, RefuseKeeps
<1>2. CASE NextPoint
  BY <1>2, NextPointKeeps
<1>3. CASE Finish
  BY <1>3, FinishKeeps
<1>4. CASE UNCHANGED vars
  BY <1>4 DEF vars, GpxInv, Typed, TypeOK, Advancing, Seen, Before, TravelSoFar, BreaksSoFar,
              BreakBetween, PendingBreak, CleanSoFar
<1> QED
  BY <1>1, <1>2, <1>3, <1>4 DEF Next

-----------------------------------------------------------------------------
(* Theorems *)

(***************************************************************************)
(* Whatever document it reads, Parse keeps a well-formed track of the      *)
(* points that have a time.                                                *)
(***************************************************************************)
THEOREM GpxTyped == Spec => []TypeOK
<1>1. GpxInv => TypeOK
  BY DEF GpxInv, Typed
<1> QED
  BY <1>1, GpxStart, GpxStep, PTL DEF Spec

(***************************************************************************)
(* The fixes filter keeps move on in time, in whatever order the document  *)
(* has them, and a car can get from each to the next of its stretch.       *)
(***************************************************************************)
THEOREM TravelIsPlausible == Spec => []PlausibleTravel
<1>1. GpxInv => PlausibleTravel
  <2> SUFFICES ASSUME GpxInv, NEW s \in Steps
               PROVE  s[1].time < s[2].time /\ (s[2].opens \/ ~ TooFast(s[1], s[2]))
    BY Zenon DEF PlausibleTravel
  <2>1. PICK k \in 1 .. Len(track) - 1 : s = <<track[k], track[k + 1]>>
    BY DEF Steps
  <2>2. s[1] = track[k] /\ s[2] = track[k + 1]
    BY <2>1
  <2> QED
    BY <2>2 DEF GpxInv, TravelSoFar
<1> QED
  BY <1>1, GpxStart, GpxStep, PTL DEF Spec

(***************************************************************************)
(* filter marks a fix as opening a stretch exactly when a segment of the   *)
(* document begins between the fix kept before it and itself.              *)
(***************************************************************************)
THEOREM NoBreakIsLost == Spec => []BreaksSurvive
<1>1. GpxInv => BreaksSurvive
  BY DEF GpxInv, BreaksSoFar, BreakBetween, BreaksSurvive, Steps
<1> QED
  BY <1>1, GpxStart, GpxStep, PTL DEF Spec

(***************************************************************************)
(* filter discards nothing of a clean recording, of any length.            *)
(***************************************************************************)
THEOREM CleanRecordingsAreKept == Spec => []CleanIsKeptWhole
<1>1. GpxInv => CleanIsKeptWhole
  <2> SUFFICES ASSUME GpxInv, result # "none", Clean(points)
               PROVE  Len(track) = Len(points)
    BY DEF CleanIsKeptWhole
  <2>1. /\ {n \in DOMAIN points : n > Len(track)} = {}
        /\ track # <<>> => Last(track).at = Len(track)
    BY DEF GpxInv, Typed, CleanSoFar
  <2>2. track \in Seq(Kept) /\ points \in Seq(Fix)
    BY DocumentShape DEF GpxInv, Typed, TypeOK, Kept
  <2>3. Len(points) <= Len(track)
    BY <2>1, <2>2
  <2>4. track # <<>> => Len(track) \in DOMAIN points
    BY <2>1, <2>2 DEF GpxInv, Advancing, Seen, Timed, Last
  <2> QED
    BY <2>2, <2>3, <2>4
<1> QED
  BY <1>1, GpxStart, GpxStep, PTL DEF Spec
=============================================================================
