----------------------------- MODULE MapsProofs -----------------------------
(***************************************************************************)
(* What the maps show, for any number of trips, places and choices: one    *)
(* provisional marker, the chosen line as long as answers do not overlap,  *)
(* and a trip page that is centred.                                        *)
(***************************************************************************)
EXTENDS Maps, TLAPS

(* As long as choices wait for answers, the request in flight is that of   *)
(* the latest choice, and nothing is drawn while it is.                    *)
Asked ==
  ~ overlapped =>
    /\ \A f \in fetching : f.trip = picker /\ lines = {}
    /\ \A f, g \in fetching : f = g

(* A trip page that waits for its line has not been centred. *)
Waiting ==
  (tripPage # NoTripPage /\ tripPage.fetch = "flying") =>
    ~ tripPage.line /\ tripPage.view = "none"

MapsInv ==
  /\ TypeOK /\ Asked /\ BackdropIsTheChoice
  /\ OneProvisionalMarker /\ Waiting /\ TripMapIsPlaced

(* A layer is never mistaken for none. *)
LEMMA LayersAreLayers == NoLayer \notin Layer
BY MapsAssumptions DEF NoLayer, Layer

LEMMA TripPagesArePages == NoTripPage \notin TripPage
BY MapsAssumptions DEF NoTripPage, TripPage

(* A page just loaded shows nothing yet. *)
LEMMA MapsStart == Init => MapsInv
<1> SUFFICES ASSUME Init PROVE MapsInv
  OBVIOUS
<1>1. TypeOK
  <2>1. overlapped \in BOOLEAN /\ missed \in BOOLEAN
    BY Zenon DEF Init
  <2>2. picks \in 0 .. MaxPicks /\ clicks \in 0 .. MaxPicks /\ lost \in 0 .. MaxLost
    BY MapsAssumptions DEF Init
  <2> QED
    BY <2>1, <2>2 DEF Init, TypeOK
<1>2. Asked /\ BackdropIsTheChoice
  BY <1>1 DEF Init, Asked, BackdropIsTheChoice, DrawnTrips
<1>3. OneProvisionalMarker
  BY DEF Init, OneProvisionalMarker
<1>4. Waiting /\ TripMapIsPlaced
  BY DEF Init, Waiting, TripMapIsPlaced
<1> QED
  BY <1>1, <1>2, <1>3, <1>4 DEF MapsInv

-----------------------------------------------------------------------------
(* Every step of the server, of the network and of the user keeps types. *)
LEMMA TypesKept ==
  ASSUME TypeOK, [Next]_vars
  PROVE  TypeOK'
<1> USE DEF TypeOK, server, routePage, picking, placing
<1>1. ASSUME NEW t \in Trips, DeleteTrip(t) PROVE TypeOK'
  BY <1>1 DEF DeleteTrip
<1>2. ASSUME NEW t \in Trips \cup {NoTrip}, Pick(t) PROVE TypeOK'
  <2>1. picks + 1 \in 1 .. MaxPicks /\ picks' = picks + 1
    BY <1>2, MapsAssumptions DEF Pick
  <2>2. t # NoTrip => [pick |-> picks + 1, trip |-> t] \in Layer
    BY <2>1 DEF Layer
  <2>3. fetching' \subseteq Layer /\ \A l \in fetching' : l.pick <= picks'
    <3>1. CASE t = NoTrip
      BY <1>2, <2>1, <3>1 DEF Pick, Layer
    <3>2. CASE t # NoTrip
      BY <1>2, <2>1, <2>2, <3>2 DEF Pick, Layer
    <3> QED
      BY <3>1, <3>2
  <2>4. lines' \subseteq lines
    BY <1>2 DEF Pick, Without
  <2>5. lines' \subseteq Layer /\ \A l \in lines' : l.pick <= picks'
    BY <2>1, <2>4 DEF Layer
  <2>6. overlapped' \in BOOLEAN /\ missed' \in BOOLEAN
    BY <1>2, Zenon DEF Pick
  <2>7. UNCHANGED <<server, placing, tripPage, offered>> /\ backdrop' = NoLayer /\ picker' = t
    BY <1>2 DEF Pick
  <2> QED
    BY <2>1, <2>3, <2>5, <2>6, <2>7
<1>3. ASSUME NEW f \in fetching, Answer(f) PROVE TypeOK'
  <2>1. lines' \subseteq lines \cup {f} /\ fetching' \subseteq fetching
    BY <1>3 DEF Answer
  <2>2. backdrop' \in {backdrop, f}
    BY <1>3 DEF Answer
  <2>3. UNCHANGED <<server, offered, picker, picks, overlapped, missed, placing, tripPage>>
    BY <1>3 DEF Answer
  <2> QED
    BY <2>1, <2>2, <2>3
<1>11. ASSUME NEW f \in fetching, Lose(f) PROVE TypeOK'
  <2>1. missed' \in BOOLEAN
    BY <1>11, Zenon DEF Lose
  <2>2. lost' \in 0 .. MaxLost /\ fetching' \subseteq fetching
    BY <1>11, MapsAssumptions DEF Lose
  <2>3. UNCHANGED <<stored, offered, picker, picks, backdrop, lines, overlapped, placing, tripPage>>
    BY <1>11 DEF Lose
  <2> QED
    BY <2>1, <2>2, <2>3
<1>4. ASSUME NEW at \in Points, Click(at) \/ TypeCoordinates(at) PROVE TypeOK'
  <2>1. clicks' \in 0 .. MaxPicks /\ form' \in Points
    BY <1>4, MapsAssumptions DEF Click, TypeCoordinates
  <2>2. pending' \in Points \cup {NoPoint} /\ markers' \subseteq Points
    BY <1>4 DEF Click, TypeCoordinates, Replacing
  <2>3. UNCHANGED <<server, picking, tripPage>>
    BY <1>4 DEF Click, TypeCoordinates
  <2> QED
    BY <2>1, <2>2, <2>3
<1>5. CASE LoadRoutePage
  <2>1. offered' \subseteq Trips /\ UNCHANGED <<server, tripPage>>
    BY <1>5 DEF LoadRoutePage
  <2>2. picks' \in 0 .. MaxPicks /\ clicks' \in 0 .. MaxPicks
    BY <1>5, MapsAssumptions DEF LoadRoutePage
  <2> QED
    BY <1>5, <2>1, <2>2 DEF LoadRoutePage
<1>6. ASSUME NEW t \in Trips, OpenTripPage(t) PROVE TypeOK'
  <2>1. tripPage' \in TripPage
    BY <1>6 DEF OpenTripPage, TripPage
  <2> QED
    BY <1>6, <2>1 DEF OpenTripPage
<1>7. CASE TripAnswer
  <2>1. tripPage \in TripPage
    BY <1>7 DEF TripAnswer
  <2>2. \A line, waypoints : Fit(line, waypoints) \in {"none", "fitted", "world"}
    BY DEF Fit
  <2>3. tripPage.trip \in stored \/ (tripPage.trip \in stored) = FALSE
    OBVIOUS
  <2>4. PICK line \in BOOLEAN :
          tripPage' = [tripPage EXCEPT !.fetch = "answered", !.line = line,
                                       !.view = Fit(line, tripPage.waypoints)]
    BY <1>7, <2>3, Zenon DEF TripAnswer
  <2>. DEFINE view == Fit(line, tripPage.waypoints)
  <2>6. view \in {"none", "fitted", "world"}
    BY <2>2
  <2>7. tripPage' = [tripPage EXCEPT !.fetch = "answered", !.line = line, !.view = view]
    BY <2>4
  <2>. HIDE DEF view
  <2>5. tripPage' \in TripPage
    BY <2>1, <2>6, <2>7 DEF TripPage
  <2> QED
    BY <1>7, <2>5 DEF TripAnswer
<1>8. CASE TripLost
  <2>1. tripPage \in TripPage
    BY <1>8 DEF TripLost
  <2>2. tripPage' \in TripPage
    BY <1>8, <2>1 DEF TripLost, TripPage
  <2>3. lost' \in 0 .. MaxLost /\ UNCHANGED <<stored, routePage>>
    BY <1>8, MapsAssumptions DEF TripLost
  <2> QED
    BY <2>2, <2>3
<1>9. CASE LeaveTripPage
  BY <1>9 DEF LeaveTripPage
<1>10. CASE UNCHANGED vars
  BY <1>10 DEF vars
<1> QED
  BY <1>1, <1>2, <1>3, <1>4, <1>5, <1>6, <1>7, <1>8, <1>9, <1>10, <1>11
     DEF Next, Network, User

(* The lines of the route page follow its choices and their answers. *)
LEMMA LinesKept ==
  ASSUME TypeOK, Asked, BackdropIsTheChoice, [Next]_vars
  PROVE  Asked' /\ BackdropIsTheChoice'
<1> USE DEF Asked, BackdropIsTheChoice, DrawnTrips
<1>1. ASSUME NEW t \in Trips \cup {NoTrip}, Pick(t)
      PROVE  Asked' /\ BackdropIsTheChoice'
  <2> SUFFICES ASSUME ~ overlapped' PROVE Asked' /\ BackdropIsTheChoice'
    OBVIOUS
  <2>1. ~ overlapped /\ fetching = {}
    BY <1>1 DEF Pick
  <2>2. lines' = {}
    BY <1>1, <2>1 DEF Pick, Without
  <2>3. \A f \in fetching' : f = [pick |-> picks + 1, trip |-> t] /\ t = picker'
    BY <1>1, <2>1 DEF Pick
  <2>4. backdrop' = NoLayer
    BY <1>1 DEF Pick
  <2> QED
    BY <2>2, <2>3, <2>4
<1>2. ASSUME NEW f \in fetching, Answer(f)
      PROVE  Asked' /\ BackdropIsTheChoice'
  <2> SUFFICES ASSUME ~ overlapped' PROVE Asked' /\ BackdropIsTheChoice'
    OBVIOUS
  <2>1. ~ overlapped /\ picker' = picker /\ fetching' = fetching \ {f}
    BY <1>2 DEF Answer
  <2>2. fetching' = {} /\ lines = {} /\ f.trip = picker
    BY <2>1
  <2>3. f # NoLayer
    BY LayersAreLayers DEF TypeOK
  <2>4. \/ backdrop' = f /\ lines' = {f}
        \/ backdrop' = backdrop /\ lines' = lines
    BY <1>2, <2>2 DEF Answer
  <2> QED
    BY <2>1, <2>2, <2>3, <2>4
<1>3. ASSUME NEW f \in fetching, Lose(f)
      PROVE  Asked' /\ BackdropIsTheChoice'
  BY <1>3 DEF Lose
<1>4. CASE LoadRoutePage
  BY <1>4 DEF LoadRoutePage
<1>5. CASE UNCHANGED picking
  BY <1>5 DEF picking
<1>6. UNCHANGED picking \/ LoadRoutePage
        \/ (\E t \in Trips \cup {NoTrip} : Pick(t)) \/ (\E f \in fetching : Answer(f) \/ Lose(f))
  BY DEF Next, Network, User, DeleteTrip, OpenTripPage, Click, TypeCoordinates, LeaveTripPage,
         TripAnswer, TripLost, vars, routePage
<1> QED
  BY <1>1, <1>2, <1>3, <1>4, <1>5, <1>6

(* A click replaces the marker of the click before. *)
LEMMA MarkerKept ==
  ASSUME OneProvisionalMarker, [Next]_vars
  PROVE  OneProvisionalMarker'
<1> USE DEF OneProvisionalMarker
<1>1. ASSUME NEW at \in Points, Click(at) PROVE OneProvisionalMarker'
  BY <1>1, MapsAssumptions DEF Click, Replacing
<1>2. CASE LoadRoutePage
  BY <1>2 DEF LoadRoutePage
<1>3. CASE UNCHANGED <<pending, markers>>
  BY <1>3
<1>4. UNCHANGED <<pending, markers>> \/ LoadRoutePage \/ \E at \in Points : Click(at)
  BY DEF Next, Network, User, DeleteTrip, Pick, Answer, Lose, TypeCoordinates, OpenTripPage,
         LeaveTripPage, TripAnswer, TripLost, vars, routePage, placing
<1> QED
  BY <1>1, <1>2, <1>3, <1>4

(* The trip page is centred by the answer, or by what catches its loss. *)
LEMMA PlaceKept ==
  ASSUME TypeOK, Waiting, TripMapIsPlaced, [Next]_vars
  PROVE  Waiting' /\ TripMapIsPlaced'
<1> USE DEF Waiting, TripMapIsPlaced
<1>1. ASSUME NEW t \in Trips, OpenTripPage(t) PROVE Waiting' /\ TripMapIsPlaced'
  BY <1>1 DEF OpenTripPage
<1>2. CASE TripAnswer
  BY <1>2, TripPagesArePages DEF TripAnswer, TypeOK, TripPage, Fit
<1>3. CASE TripLost
  BY <1>3, TripPagesArePages DEF TripLost, TypeOK, TripPage
<1>4. CASE LeaveTripPage
  BY <1>4 DEF LeaveTripPage
<1>5. CASE UNCHANGED tripPage
  BY <1>5
<1>6. \/ UNCHANGED tripPage \/ TripAnswer \/ TripLost \/ LeaveTripPage
      \/ \E t \in Trips : OpenTripPage(t)
  BY DEF Next, Network, User, DeleteTrip, Pick, Answer, Lose, Click, TypeCoordinates,
         LoadRoutePage, vars
<1> QED
  BY <1>1, <1>2, <1>3, <1>4, <1>5, <1>6

LEMMA MapsStep == MapsInv /\ [Next]_vars => MapsInv'
BY TypesKept, LinesKept, MarkerKept, PlaceKept DEF MapsInv

-----------------------------------------------------------------------------
(* The state of both pages is well formed. *)
THEOREM MapsTyped == Spec => []TypeOK
<1>1. MapsInv => TypeOK
  BY DEF MapsInv
<1> QED
  BY <1>1, MapsStart, MapsStep, PTL DEF Spec

(***************************************************************************)
(* A user who waits for each line before asking for the next never sees    *)
(* another line than the one of the trip chosen (route-map.js).            *)
(***************************************************************************)
THEOREM PatientUserSeesTheChoice == Spec => []BackdropIsTheChoice
<1>1. MapsInv => BackdropIsTheChoice
  BY DEF MapsInv
<1> QED
  BY <1>1, MapsStart, MapsStep, PTL DEF Spec

(***************************************************************************)
(* However clicks, typing and reloads alternate there is one provisional   *)
(* marker at most, and it is the one the script can remove.                *)
(***************************************************************************)
THEOREM OneMarker == Spec => []OneProvisionalMarker
<1>1. MapsInv => OneProvisionalMarker
  BY DEF MapsInv
<1> QED
  BY <1>1, MapsStart, MapsStep, PTL DEF Spec

(***************************************************************************)
(* A trip page whose request was answered or lost is centred, on what it   *)
(* draws if it draws anything (trip-map.js).                               *)
(***************************************************************************)
THEOREM TripMapsArePlaced == Spec => []TripMapIsPlaced
<1>1. MapsInv => TripMapIsPlaced
  BY DEF MapsInv
<1> QED
  BY <1>1, MapsStart, MapsStep, PTL DEF Spec
=============================================================================
